SPECIFICATION Spec
CONSTANTS
    Lanes = {"unit", "api", "db"}
    Sessions <- MCSessions
    MaxWorkers = 2
    Expected <- MCExpected
    MaxTime = 2
    None = None
INVARIANTS
    TypeOK
    CountsHonest
    EtaCountsEachLaneOnce
    ParallelismWithinWorkers
