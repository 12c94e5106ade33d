SPECIFICATION Spec
CONSTANTS
    MaxU64 = 15
    MaxI64 = 7
    Consumers = {c1, c2}
    Partitions = {pA}
    RangeSize = 2
    IdleMs = 1
    MaxAttempts = 2
    LastDay = 1
    Log <- LogShort
    NoOwner = NoOwner
    pA = pA
    pB = pB
    c1 = c1
    c2 = c2
INVARIANT OneObjectPerRange
