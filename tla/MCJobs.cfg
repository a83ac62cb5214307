SPECIFICATION FairSpec
CONSTANTS
    j1 = j1
    j2 = j2
    p1 = p1
    NoJob = NoJob
    Ids = {j1, j2}
    Paths = {p1}
    PathOf <- OnePath
    MaxBytes = 1
    MaxFinished = 1
    MaxCrashes = 1
INVARIANTS
    OutcomeMatchesFiles
    NoPartialTarget
    CancelIsHonoured
PROPERTIES
    JobsEnd
CHECK_DEADLOCK FALSE
