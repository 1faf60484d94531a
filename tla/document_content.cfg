SPECIFICATION ContentSpec
CONSTANTS
    Documents <- MCDocuments
    Setups <- MCSetups
    MaxAttempts = 2
    EmbedBatch = 2
    SaveBatch = 2
    LabelChars = 2
    MaxChars = 12
    ShortSection = 4
    SliceChars = 9
    FrontLimit = 12
    ContextChars = 5
    MinClauses = 2
    ScanBlocks = 5
    MinBlocks = 4
    EdgeBlocks = 1
    AlwaysVisual = 8
    FullPageScore = 5
    VisualScore = 3
INVARIANTS
    TextConserved
    PagesFaithful
    ProcessedComplete
    RowsMatchRole
    
CHECK_DEADLOCK FALSE
