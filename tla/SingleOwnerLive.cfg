SPECIFICATION LiveSpec
CONSTANTS
    MaxU64 = 15
    MaxI64 = 7
    Consumers = {c1, c2}
    Partitions = {pA}
    RangeSize = 2
    IdleMs = 1
    MaxAttempts = 2
    LastDay = 0
    Log <- LogGaps
    NoOwner = NoOwner
    pA = pA
    pB = pB
    c1 = c1
    c2 = c2
PROPERTIES
    RecordsDoNotLinger
    FullRangesAreCommitted
