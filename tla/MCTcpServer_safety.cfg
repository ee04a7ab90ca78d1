SPECIFICATION Spec
CONSTANTS
    Fd = {1, 2}
    Thread = {t1, t2}
    NoThread = NoThread
    MaxClient = 2
    QCap = 4
    MaxConn = 2
    MaxGone = 2
    MaxData = 1
    MaxTick = 1
    MaxClose = 1
SYMMETRY ThreadSymmetry
INVARIANT TypeOK
INVARIANT EntryOwnsDescriptor
INVARIANT NoDescriptorLeak
INVARIANT ThreadsMatchEntries
INVARIANT ReadsOwnConnection
INVARIANT NoLateMessages
PROPERTY KeepsPromise
CHECK_DEADLOCK FALSE
