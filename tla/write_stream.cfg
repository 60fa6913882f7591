SPECIFICATION FairSpec
CONSTANTS
    u1 = u1
    u2 = u2
    t1 = t1
    t2 = t2
    Users = {u1, u2}
    Targets = {}
    MaxPendingWrites = 2
    MaxWatchStreamFailures = 1
    MaxWrites = 3
    MaxListens = 0
    MaxFaults = 1
    MaxChanges = 2
INVARIANTS
    RemoteTypeOK
    FreshTokens
    AbortedIsStale
    PipelineInStep
    StreamsOfUser
PROPERTIES
    ImplementsWriteQueue
    WritesSettle
CHECK_DEADLOCK FALSE
