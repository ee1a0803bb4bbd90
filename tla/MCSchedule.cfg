SPECIFICATION Spec
CONSTANTS
    Declared <- MCThreeLanes
    RecordedSeconds <- MCThreeRecords
    MaxWorkers = 2
    Tolerant <- MCSecondTolerant
    ExitCodes <- MCExitCodes
    CrashCodes <- MCKilledPositive
    MaxLines = 0
    PipeCapacity = 1
    Undecodable <- MCNone
    ShowLaneOutput = FALSE
    MayRaise = TRUE
    NoCode = NoCode
INVARIANTS
    TypeOK
    WorkerCap
    NoIdleSlot
    LongestFirst
    ReturnsAfterAll
    ExitCodeHonest
PROPERTIES
    ImplementsLaneRun
