SPECIFICATION Spec
CONSTANTS
    Docs = {"d1", "d2"}
    Contents <- MCContents
    Clusters <- MCClusters
    Answers <- MCAnswers
    MinChunks = 2
    MaxDepth = 2
    ResolveDepth = 3
    MaxRuns = 2
INVARIANTS
    LeavesReached
    GapsOnlyAtTop
    SectionsNest
CHECK_DEADLOCK FALSE
