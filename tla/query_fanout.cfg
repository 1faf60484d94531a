SPECIFICATION Spec
CONSTANTS
    Requests <- MCRequests
    Answers <- MCAnswers
    Worlds <- MCWorlds
    GraphScore = 8
    AnchorSim = 7
    HopSim = 3
    CommunitySim = 2
    TopK = 5
    Summaries <- MCSummaries
    Children <- MCChildren
    LeafRow <- MCLeafRow
    MaxParallel = 1
    MaxBranches = 2
    MaxDepth = 2
    Quotas <- MCQuotas
    RrfK = 60
    Min0 = 3
    Target = 2
    MinGravity = 3
    HeadingFloor = 5
    GravityLimit = 3
INVARIANTS
    LateFusionFills
    PartialFailureAnswers
PROPERTIES
    RequestEnds
