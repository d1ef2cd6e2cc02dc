SPECIFICATION Spec
CONSTANTS
    PollBlocks = 2
    SeedCount = 2
    NumberOfPools = 2
    Width = 2
    IdleConnections = 1
    MaxSamples = 4
    MaxCounter = 5
INVARIANTS
    TypeOK
    SeedsAreSecret
    SeededBlocksNeverRepeat
PROPERTIES
    PollersSurvive
    RefinesSeeding
