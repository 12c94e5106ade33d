SPECIFICATION LiveSpec
CONSTANTS
    MaxAttempts = 3
    MaxUploads = 2
    Answers <- StatusOfEachClass
INVARIANTS
    TypeOK
    OkIsStoredIfAwaited
    IInv
PROPERTIES
    DenialsAreFinal
    AttemptsAreAtomicButForLateOnes
    UploadsEnd
\* After the last upload nothing is left to do.
CHECK_DEADLOCK FALSE
