SPECIFICATION FairSpec
CONSTANTS
    MaxItems = 4
    MaxParallel = 3
    PoolSize = 2
CHECK_DEADLOCK FALSE
INVARIANTS Transparent ErrorIsCause
PROPERTIES Completes
