SPECIFICATION SchedSpec
CONSTANTS
    Order <- MCOrder
    Divisible <- MCDivisible
    Xdist <- MCXdist
    MaxWorkers = 2
    ShardMinSaving = 1
    Files <- MCFiles
    Disks <- MCDisks
    Cuts <- MCCuts
    Histories <- MCHistories
INVARIANTS
    CutIsBest
    HalvesPartition
    ShardsPayFixedTwice
    WorthSplitting
    WholeLanesReplayed
    GrahamBound
PROPERTIES
    StickyPlan
