SPECIFICATION FairSpec
CONSTANTS
    Fd = {1}
    Thread = {t1, t2}
    NoThread = NoThread
    MaxClient = 2
    QCap = 1
    MaxConn = 3
    MaxGone = 3
    MaxData = 1
    MaxTick = 1
    MaxClose = 1
PROPERTY GoneIsReleased
PROPERTY CloseIsHonoured
CHECK_DEADLOCK FALSE
