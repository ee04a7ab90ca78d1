SPECIFICATION FairSpec
CONSTANTS
    MaxFork = 4
    MaxSignal = 3
    MaxEnd = 3
    MaxJob = 2
INVARIANT TypeOK
INVARIANT OneChild
INVARIANT NoOrphan
PROPERTY StopIsHonoured
PROPERTY CrashIsRepaired
CHECK_DEADLOCK FALSE
