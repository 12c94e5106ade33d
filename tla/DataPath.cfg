SPECIFICATION Spec
CONSTANTS
    MaxU64 = 15
    MaxI64 = 7
    DefaultRange = 4
    DefaultIdle = 5
    MinIdleCheck = 1
    MaxReason = 5
    MaxText = 128
    TopicBytes = 1
    Now = 0
    StartEnvironments <- MCEnvironments
    MessageLogs <- MCLogs
INVARIANTS
    TypeOK
    AllButForeignIsReported
    RunsAsConfigured
    RangeHoldsItsOffset
    CommitAcksExactly
    OnlyLongTextsStopTheProcess
    EveryOffsetHasItsRow
PROPERTY RangesTile
\* The walk stops at the top of the word.
CHECK_DEADLOCK FALSE
