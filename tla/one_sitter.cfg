SPECIFICATION Spec
CONSTANTS
    d1 = d1
    d2 = d2
    u1 = u1
    u2 = u2
    Accounts <- OwnAccount
    Devices = {d1, d2}
    Users = {u1, u2}
    Posts = {p1}
    Posters = {d1}
    Sitters = {d1, d2}
    NoUser = NoUser
    NoDoc = NoDoc
    NoSnapshot = NoSnapshot
    NoUpload = NoUpload
    NoDetail = NoDetail
    MaxPendingWrites = 2
    MaxQueue = 2
    MaxLosses = 1
    MaxRefusals = 0
INVARIANTS
    OneSitter
CHECK_DEADLOCK FALSE
