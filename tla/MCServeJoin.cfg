SPECIFICATION ServeFairSpec
CONSTANTS
    r1 = r1
    r2 = r2
    t1 = t1
    s1 = s1
    NoTrace = NoTrace
    Requests = {r1, r2}
    GRPC = {r2}
    Traces = {t1}
    TraceOf <- SharedTrace
    Streams = {s1}
    QueueCap = 2
    EventCap = 1
    TTL = 2
    RunBound = 1
    MaxFaults = 2
PROPERTY
    RunsJoinedBeforeClose
CHECK_DEADLOCK FALSE
