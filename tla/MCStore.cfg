SPECIFICATION Spec
CONSTANTS
    Runs = {first, second}
    Lanes <- MCLanes
    Initial <- MCInitial
    MaxRecords = 3
    Bare = Bare
    Bad = Bad
INVARIANTS
    ReadsWhole
    RecordsKept
