SPECIFICATION Spec
CONSTANTS
    Goroutines = {g1, g2, g3, g4}
    Calls = {"Store", "GetQueueInfo", "GetDetailedStats", "UpdateQueueSizes"}
SYMMETRY Symmetry
INVARIANT
    NoDeadlock
