SPECIFICATION Spec
CONSTANTS
    Clients = {c1, c2}
    Capacity = 2
    MaxItems = 3
    Pages <- MCPages
INVARIANTS
    TypeOK
    StatusIsPlausible
    TakenOnceInOrder
    PagesAreRuns
PROPERTIES
    RequestsAnswered
    RefinesStore
