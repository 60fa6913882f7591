SPECIFICATION Spec
CONSTANTS
    d1 = d1
    d2 = d2
    u1 = u1
    u2 = u2
    s1 = s1
    s2 = s2
    NoUser = NoUser
    NoSave = NoSave
    Devices = {d1, d2}
    Users = {u1, u2}
    Saves = {s1, s2}
SYMMETRY AnySaveUserOrDevice
INVARIANTS
    ProfileTypeOK
    OwnProfile
    PhotoStored
    SavesAgree
CHECK_DEADLOCK FALSE
