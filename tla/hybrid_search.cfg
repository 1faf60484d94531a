SPECIFICATION Spec
CONSTANTS
    Chunks <- MCChunks
    Entities <- MCEntities
    ScopeOf <- MCScopeOf
    ScoreOf <- MCScoreOf
    BoostOf <- MCBoostOf
    WeightOf <- MCWeightOf
    TextOf <- MCTextOf
    Structural = {}
    Unowned = {"b1"}
    Similarity <- MCSimilarity
    Provenance <- MCProvenance
    Queries <- MCQueries
    FilterSets <- MCFilterSets
    K = 2
    FetchK = 3
    Quota = 2
    MinGravity = 4
    HeadingFloor = 5
    GravityLimit = 2
INVARIANTS
    ScopesBalanced
    RankingKeepsCandidates
    EntitiesRepresented
PROPERTIES
    ImplementsCall
