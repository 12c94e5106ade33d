SPECIFICATION Spec
CONSTANTS
    MaxAttempts = 3
    MaxUploads = 2
    Answers <- StatusOfEachClass
INVARIANT OkIsStored
CHECK_DEADLOCK FALSE
