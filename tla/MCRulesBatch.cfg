SPECIFICATION Spec
CONSTANTS
    s1 = s1
    a1 = a1
    m1 = m1
    m2 = m2
    d0 = d0
    d1 = d1
    bad = bad
    g1 = g1
    i1 = i1
    NoDef = NoDef
    Seeds = {s1}
    Added = {a1}
    MinedNames <- MinedTwo
    SeedDef = d0
    Defs = {d0, d1, bad}
    BadDefs = {bad}
    Eligible = {d1}
    Jobs = {g1, i1}
    KindOf <- Kinds
    SpecsOf <- Specs
    MaxEdits = 1
    MaxFaults = 1
INVARIANT
    BatchesAreAtomic
CHECK_DEADLOCK FALSE
