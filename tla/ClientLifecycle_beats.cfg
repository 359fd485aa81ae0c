SPECIFICATION Spec
CONSTANTS
    Ops <- MCOps
    KindOf <- MCKindOf
    Capacity = 1
    FlushSize = 2
    MaxTries = 1
    Callers = {s1, s2}
    MaxStarts = 1
INVARIANTS
    BeatsOutliveDrain
