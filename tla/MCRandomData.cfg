SPECIFICATION ServerSpec
CONSTANTS
    Capacity = 4
    MaxPushes = 8
    Limits <- MCLimits
    Offsets <- MCOffsets
    ItemSizes = {3, 4}
    EstimateBytes = 3
    Spare = 2
    Widths = {1, 2}
    Counts <- MCCounts
INVARIANTS
    TypeOK
    Accounting
    HoldsNewest
    DeliveredInOrder
    AnswersInOrder
    ShortOnlyIfExhausted
    PageIsUsed
PROPERTY
    RefinesFifo
