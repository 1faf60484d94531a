SPECIFICATION Spec
CONSTANTS
    Docs = {d1}
    NoDoc = NoDoc
    MaxJobs = 3
    Pollers = {p1, p2}
    Replayers = {r1}
    Tasks = 2
    MaxGens = 2
    MaxIds = 4
    Faults = {"refused", "lost", "cleanup", "lookup", "crash"}
    MaxFaults = 2
    MaxRequests = 1
SYMMETRY Symmetry
INVARIANTS
    SingleActiveEnrichment
    NodesKeepTheirAnchors
    StitchIsAtomic
    OwnEnrichmentComes
CHECK_DEADLOCK FALSE
