SPECIFICATION ToolsSpec
CONSTANTS
    Segs <- MCSegs
    Second = 6
    Lines <- MCLines
    AuditRows <- MCAuditRows
    Windows = {0, 4}
    DefaultLines = 7
    CapLines = 6
    Thresholds = {1, 3}
    Minutes = 1
    Horizon = 3
    DurationMax = 5
    ManyBuckets = 4
    MaxLog = 5
INVARIANTS
    ReportsAreExact
    FitIsLeastSquares
    AdviceFollowsTrend
CHECK_DEADLOCK FALSE
