SPECIFICATION FairSpec
CONSTANTS
    w1 = w1
    w2 = w2
    N = 2
    Scenarios <- MCScenarios
    Workers = {w1, w2}
    PendingLimit = 1
    ScanLimit = 2
    BatchMax = 2
    MaxFaults = 2
INVARIANTS
    AtMostOneReply
    CursorBehindPending
    NoUpdateLost
PROPERTIES
    EveryUpdateSettled
    CursorCatchesUp
CHECK_DEADLOCK FALSE
