SPECIFICATION FairSpec
CONSTANTS
    d1 = d1
    d2 = d2
    u1 = u1
    u2 = u2
    Devices = {d1}
    Users = {u1, u2}
    NoUser = NoUser
    MaxOut = 2
INVARIANTS
    SessionTypeOK
    WelcomedHaveProfile
    TabsNeedSession
PROPERTIES
    ProfileWrittenOnce
    CreateEnds
    ListStarts
CHECK_DEADLOCK FALSE
