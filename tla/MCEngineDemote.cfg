SPECIFICATION Spec
CONSTANTS
    p1 = p1
    p2 = p2
    s1 = s1
    m1 = m1
    x1 = x1
    x2 = x2
    NoRule = NoRule
    Runs = {p1, p2}
    Seeds = {s1}
    Mined = {m1}
    Reloaders = {x1, x2}
    PromoteAfter = 2
    StreakLimit = 3
    Setups <- OverlapSetups
    MaxRuns = 3
INVARIANT DivergenceDemotes
CHECK_DEADLOCK FALSE
