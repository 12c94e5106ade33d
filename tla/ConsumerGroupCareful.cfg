SPECIFICATION CarefulSpec
CONSTANTS
    MaxU64 = 15
    MaxI64 = 7
    Consumers = {c1, c2}
    Partitions = {pA}
    RangeSize = 2
    IdleMs = 1
    MaxAttempts = 2
    LastDay = 0
    MaxRebalances = 2
    MaxEvictions = 2
    Log <- LogFull
    NoOwner = NoOwner
    pA = pA
    c1 = c1
    c2 = c2
SYMMETRY Symmetry
INVARIANT AckedIsStored
PROPERTIES
    KeepsContract
    AckedObjectsAreFinal
