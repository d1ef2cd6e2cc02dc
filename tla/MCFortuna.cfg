SPECIFICATION Spec
CONSTANTS
    Requests = {r1, r2}
    NumberOfPools = 2
    MaxPoolSize = 2
    MaxSeeds = 3
    MaxSamples = 4
    MaxCounter = 4
    Blocks = {1, 2}
SYMMETRY Symmetry
CHECK_DEADLOCK FALSE
INVARIANTS
    TypeOK
    EntropyAccounted
    BlocksNeverRepeat
PROPERTY
    EntropyKept
