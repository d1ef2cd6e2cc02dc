SPECIFICATION Spec
CONSTANTS
    Goroutines = {g1, g2, g3, g4}
    Calls = {"Store", "Get", "GetDetailedStats", "UpdateQueueSizes"}
SYMMETRY Symmetry
INVARIANTS
    TypeOK
    NoDeadlock
