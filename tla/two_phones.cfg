SPECIFICATION FairSpec
CONSTANTS
    d1 = d1
    d2 = d2
    u1 = u1
    u2 = u2
    Accounts <- OwnAccount
    Devices = {d1, d2}
    Users = {u1, u2}
    Posts = {p1}
    Posters = {d1, d2}
    Sitters = {d2}
    NoUser = NoUser
    NoDoc = NoDoc
    NoSnapshot = NoSnapshot
    NoUpload = NoUpload
    NoDetail = NoDetail
    MaxPendingWrites = 2
    MaxQueue = 1
    MaxLosses = 1
    MaxRefusals = 0
INVARIANTS
    TypeOK
    CacheAgrees
PROPERTIES
    ImplementsJobBoard
    NoFlicker
    EveryPhoneSees
CHECK_DEADLOCK FALSE
