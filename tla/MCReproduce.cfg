SPECIFICATION Spec
CONSTANTS
    None = None
    Refused = Refused
    NoRecurse <- MCNoRecurse
    Lexical <- MCLexical
    Token <- MCToken
    AllTests <- MCTests
    HandWritten <- MCHandWritten
    Definitions <- MCDefinitions
    Durations <- MCDurations
    LaneCount = 3
    MaxSelected = 2
INVARIANTS
    ReproduceLineRuns
