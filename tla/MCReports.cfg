SPECIFICATION Spec
CONSTANTS
    Order <- MCOrder
    Token <- MCToken
    Argvs <- MCArgvs
    Suite <- MCSuite
    Old = Old
    None = None
INVARIANTS
    ArgvRedirected
    MergedReportWhole
    CoverageReportsWhole
CHECK_DEADLOCK FALSE
