SPECIFICATION Spec
CONSTANTS
    n1 = n1
    p1 = p1
    c1 = c1
    NoPattern = NoPattern
    MaxRecords = 5
    Length <- Unit
    MaxBytes = 2
    KeepFiles = 1
    MaxFaults = 1
    Names = {n1}
    Patterns = {p1}
    Matching <- MatchingMost
    Workers = {c1}
    Cooldown = 1
    AlertBuffer = 1
    MaxCommands = 2
INVARIANTS
    RotationsShow
CHECK_DEADLOCK FALSE
