SPECIFICATION Spec
CONSTANTS
    Clients = {c1}
    Sizes = {2}
    MaxID = 4
    Pages <- MCPages
PROPERTY
    DropsOldest
