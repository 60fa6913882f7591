SPECIFICATION FairSpec
CONSTANTS
    u1 = u1
    u2 = u2
    t1 = t1
    t2 = t2
    Users = {u1}
    Targets = {t1, t2}
    MaxPendingWrites = 1
    MaxWatchStreamFailures = 1
    MaxWrites = 0
    MaxListens = 3
    MaxFaults = 2
    MaxChanges = 2
INVARIANTS
    TimersMatchState
    NeededIsStarted
    WatchesWhatIsListened
    OnlineIsOpen
PROPERTIES
    OnlineKnown
CHECK_DEADLOCK FALSE
