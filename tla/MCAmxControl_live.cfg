SPECIFICATION FairSpec
CONSTANTS
    Device = {d1}
    User = {u1, u2}
    NoUser = NoUser
    MaxCmd = 2
    QCap = 6
    MaxLink = 0
    MaxBox = 0
PROPERTY HeldIsDecided
CHECK_DEADLOCK FALSE
