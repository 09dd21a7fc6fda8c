SPECIFICATION Spec
CONSTANTS
    MaxItems = 2
    MaxParallel = 2
    PoolSize = 1
CHECK_DEADLOCK FALSE
INVARIANT NothingOutlives
