SPECIFICATION Spec
CONSTANTS
    c1 = c1
    c2 = c2
    d1 = d1
    d2 = d2
    d3 = d3
    d4 = d4
    s1 = s1
    s2 = s2
    f1 = f1
    f2 = f2
    Callers = {c1, c2}
    DocIds = {d1, d2, d3}
    Files = {f1}
    NoDoc = NoDoc
    NoFile = NoFile
    Paths = {"keyed"}
    TotalFiles = 1
    MAX_PENDING = 1
    AutoSeal = TRUE
    Seals = FALSE
    Stores = {s1, s2}
    NoStore = NoStore
    MaxRetried = 1
    Deletes = TRUE
    MaxFaults = 1
SYMMETRY Interchangeable
INVARIANTS
    VersionsOvershoot
    KeyedOvershoot
    PendingOvershoot
CHECK_DEADLOCK FALSE
