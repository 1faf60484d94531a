SPECIFICATION Spec
CONSTANTS
    c1 = c1
    c2 = c2
    d1 = d1
    d2 = d2
    d3 = d3
    d4 = d4
    s1 = s1
    s2 = s2
    f1 = f1
    f2 = f2
    Callers = {c1, c2}
    DocIds = {d1, d2, d3, d4}
    Files = {f1, f2}
    NoDoc = NoDoc
    NoFile = NoFile
    Paths = {"batch"}
    TotalFiles = 2
    MAX_PENDING = 1
    AutoSeal = TRUE
    Seals = TRUE
    Stores = {s1}
    NoStore = NoStore
    MaxRetried = 0
    Deletes = FALSE
    MaxFaults = 0
SYMMETRY Interchangeable
INVARIANTS
    BatchLimitOvershoot
    SameFileOvershoot
CHECK_DEADLOCK FALSE
