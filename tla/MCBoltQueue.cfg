SPECIFICATION Spec
CONSTANTS
    Clients = {c1, c2}
    Sizes = {1, 2}
    MaxID = 4
    Pages <- MCPages
SYMMETRY Symmetry
INVARIANTS
    TypeOK
    EveryItemAccounted
    ConsumedIsCounted
    ReceivedAtMostOnce
    PollsMatchItems
PROPERTIES
    StoreBoundsBucket
    RefinesStore
