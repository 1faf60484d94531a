SPECIFICATION Spec
CONSTANTS
    s1 = s1
    w1 = w1
    w2 = w2
    Schedulers = {s1}
    Workers = {w1, w2}
    Tenant = Tenant
    NoTenant = NoTenant
    MaxJobs = 3
    MaxVersions = 2
    Communities <- Partition
    BatchSize = 2
    Faults = {"crash", "call", "mark", "fetch", "enqueue"}
    MaxFaults = 2
INVARIANTS
    OneSnapshot
PROPERTIES
    Refreshed
