SPECIFICATION FairSpec
CONSTANTS
    ConnectThread = {t1}
    ElyThread = {e1}
    NoThread = NoThread
    Prompt = TRUE
    QCap = 2
    MaxConn = 3
    MaxFail = 1
    MaxBreak = 1
PROPERTY LinkIsRebuilt
PROPERTY SilenceIsNoticed
CHECK_DEADLOCK FALSE
