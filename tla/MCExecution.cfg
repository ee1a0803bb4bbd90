SPECIFICATION FairSpec
CONSTANTS
    Declared <- MCTwoLanes
    RecordedSeconds <- MCTwoRecords
    MaxWorkers = 2
    Tolerant <- MCNone
    ExitCodes <- MCPassFail
    CrashCodes <- MCKilledPositive
    MaxLines = 2
    PipeCapacity = 1
    Undecodable <- MCBadLastLine
    ShowLaneOutput = FALSE
    MayRaise = TRUE
    NoCode = NoCode
INVARIANTS
    OutputAccounted
PROPERTIES
    FinalDrainIsWhole
    Terminates
