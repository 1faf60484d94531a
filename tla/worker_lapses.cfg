SPECIFICATION Spec
CONSTANTS
    p1 = p1
    p2 = p2
    p3 = p3
    w1 = w1
    w2 = w2
    Workers = {w1}
    Pollers = {p1, p2}
    WorkerOf <- OneProcess
    Docs = {d1}
    NoDoc = NoDoc
    BatchDocs = {d1}
    MaxJobs = 3
    MAX_RETRIES = 3
    ChunkInserts = 1
    Faults = {"lapse", "lookup", "progress"}
    MaxFaults = 2
    Requests = {"retry"}
    MaxRequests = 2
INVARIANTS
    LocksExact
PROPERTIES
    TerminalJobsStayTerminal
CHECK_DEADLOCK FALSE
