SPECIFICATION FairSpec
CONSTANTS
    p1 = p1
    p2 = p2
    p3 = p3
    w1 = w1
    w2 = w2
    Workers = {w1, w2}
    Pollers = {p1, p2, p3}
    WorkerOf <- TwoAndOne
    Docs = {d1, d2}
    NoDoc = NoDoc
    BatchDocs = {d1, d2}
    MaxJobs = 2
    MAX_RETRIES = 3
    ChunkInserts = 2
    Faults = {}
    MaxFaults = 0
    Requests = {}
    MaxRequests = 0
INVARIANTS
    ClosedBatchSettled
    BatchCountsRuns
PROPERTIES
    BatchCloses
CHECK_DEADLOCK FALSE
