SPECIFICATION LogSpec
CONSTANTS
    MaxRecords = 8
    Length <- Mixed
    MaxBytes = 3
    KeepFiles = 2
    MaxFaults = 3
INVARIANTS
    LogIsKept
    CapIsKept
CHECK_DEADLOCK FALSE
