SPECIFICATION Spec
CONSTANTS
    None = None
    Broken = Broken
    Tests <- MCTests
    FileOf <- MCFileOf
    Projects <- MCProjects
    AdHoc <- MCAdHoc
    Invocations <- MCInvocations
    Nested <- MCNested
    Keys <- MCKeys
    Values <- MCValues
    StartEnvs <- MCStartEnvs
    MaxDepth = 3
INVARIANTS
    ChildRunsItsLane
    EnvApplied
    EnvRestored
PROPERTY
    MeasurementsWhole
