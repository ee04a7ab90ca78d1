SPECIFICATION Spec
CONSTANTS
    Device = {d1, d2}
    User = {u1, u2}
    NoUser = NoUser
    MaxCmd = 2
    QCap = 2
    MaxLink = 1
    MaxBox = 1
SYMMETRY DeviceUserSymmetry
INVARIANT TypeOK
INVARIANT CommandInOnePlace
INVARIANT EntriesAwaitAnswers
INVARIANT AnsweredFirst
CHECK_DEADLOCK FALSE
