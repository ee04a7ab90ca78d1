SPECIFICATION Spec
CONSTANTS
    MaxFork = 2
    MaxSignal = 1
    MaxEnd = 1
    MaxJob = 1
INVARIANT TerminatedIsGone
CHECK_DEADLOCK FALSE
