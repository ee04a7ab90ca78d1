SPECIFICATION Spec
CONSTANTS
    ConnectThread = {t1, t2}
    ElyThread = {e1, e2}
    NoThread = NoThread
    Prompt = TRUE
    QCap = 2
    MaxConn = 3
    MaxFail = 1
    MaxBreak = 1
SYMMETRY ThreadSymmetry
INVARIANT TypeOK
INVARIANT EndIsNoticed
INVARIANT OneConnector
INVARIANT NoLostSocket
CHECK_DEADLOCK FALSE
