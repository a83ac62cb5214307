SPECIFICATION FairSpec
CONSTANTS
    s1 = s1
    a1 = a1
    f1 = f1
    d1 = d1
    k1 = k1
    k2 = k2
    Ops = {a1, s1}
    SyncOps = {s1}
    CtxOps = {}
    FlushOps = {}
    DirectOps = {}
    Closers = {k1}
    QueueCap = 2
    BatchCap = 2
PROPERTY
    SyncAnswered
CHECK_DEADLOCK FALSE
