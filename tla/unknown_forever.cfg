SPECIFICATION TimerSpec
CONSTANTS
    u1 = u1
    u2 = u2
    t1 = t1
    t2 = t2
    Users = {u1}
    Targets = {t1}
    MaxPendingWrites = 1
    MaxWatchStreamFailures = 1
    MaxWrites = 0
    MaxListens = 2
    MaxFaults = 0
    MaxChanges = 0
PROPERTIES
    NeverWaitsIndefinitely
CHECK_DEADLOCK FALSE
