SPECIFICATION ConfigSpec
CONSTANTS
    Requests = {r1}
    Workers = {w1, w2, w3}
    MaxRetries = 2
    FirstWord = 1
    LastWord = 3
    SkippedWord = 2
INVARIANTS
    TypeOK
    OneRecovery
    RecoveringIsOwned
    HealthyIsConnected
    LockedIsComplete
PROPERTIES
    RecoveryEnds
    RefinesController
