SPECIFICATION CompleterSpec
CONSTANTS
    Ops <- MCOps
    KindOf <- MCKindOf
    Capacity = 1
    FlushSize = 2
    MaxTries = 2
INVARIANTS
    NothingForgotten
    LostOnlyWhenStuck
