SPECIFICATION Spec
CONSTANTS
    ConnectThread = {t1, t2}
    ElyThread = {e1, e2}
    NoThread = NoThread
    Prompt = FALSE
    QCap = 2
    MaxConn = 2
    MaxFail = 1
    MaxBreak = 1
SYMMETRY ThreadSymmetry
INVARIANT OneRegistered
CHECK_DEADLOCK FALSE
