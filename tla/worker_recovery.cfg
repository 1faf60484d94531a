SPECIFICATION FairSpec
CONSTANTS
    p1 = p1
    p2 = p2
    p3 = p3
    w1 = w1
    w2 = w2
    Workers = {w1, w2}
    Pollers = {p1, p3}
    WorkerOf <- OneEach
    Docs = {d1}
    NoDoc = NoDoc
    BatchDocs = {}
    MaxJobs = 3
    MAX_RETRIES = 2
    ChunkInserts = 2
    Faults = {"crash", "lookup", "mark", "write", "fetch"}
    MaxFaults = 2
    Requests = {"retry", "delete"}
    MaxRequests = 2
INVARIANTS
    SingleActiveJob
    ExclusiveClaim
    OneProcessorPerDoc
    ProcessedHasChunks
    OrphansExplained
PROPERTIES
    JobsFinish
CHECK_DEADLOCK FALSE
