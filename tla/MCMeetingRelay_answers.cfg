SPECIFICATION FairSpec
CONSTANTS
    DeviceFd = {1, 2}
    MeetingFd = {1, 2}
    SequenceTop = 3
    StartSequence = 1
    MaxDevice = 2
    MaxLink = 2
    MaxBreak = 1
    MaxAdds = 1
    Lowest = TRUE
    MaxRequest = 2
INVARIANT TypeOK
INVARIANT AnswersGoHome
INVARIANT NoEntryAfterAnswer
INVARIANT BoundIsConnected
PROPERTY BoundUntilItLeaves
PROPERTY WithinPromise
PROPERTY RequestIsAnswered
CHECK_DEADLOCK FALSE
