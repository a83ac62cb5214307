SPECIFICATION FairSpec
CONSTANTS
    s1 = s1
    a1 = a1
    f1 = f1
    d1 = d1
    k1 = k1
    k2 = k2
    Ops = {s1, a1, f1, d1}
    SyncOps = {s1, f1}
    CtxOps = {s1}
    FlushOps = {f1}
    DirectOps = {d1}
    Closers = {k1, k2}
    QueueCap = 2
    BatchCap = 2
INVARIANTS
    TypeOK
    AckedIsDurable
    ErrorMeansAbsent
    GracefulStopDrains
PROPERTIES
    ImplementsDurableLog
    CloseReturns
    SyncAnsweredWhileOpen
CHECK_DEADLOCK FALSE
