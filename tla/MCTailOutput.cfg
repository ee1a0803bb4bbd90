SPECIFICATION Spec
CONSTANTS
    Declared <- MCTwoLanes
    RecordedSeconds <- MCTwoRecords
    MaxWorkers = 2
    Tolerant <- MCNone
    ExitCodes <- MCPassFail
    CrashCodes <- MCNone
    MaxLines = 1
    PipeCapacity = 1
    Undecodable <- MCNone
    ShowLaneOutput = FALSE
    MayRaise = FALSE
    NoCode = NoCode
INVARIANT FailedOutputComplete
