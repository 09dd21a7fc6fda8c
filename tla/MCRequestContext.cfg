SPECIFICATION FairSpec
CONSTANTS
    N = 3
    MaxClock = 2
    Shapes <- MCShapes
CHECK_DEADLOCK FALSE
INVARIANTS CancelReachesDescendants CauseIsTrue DeadLeavesNothing
PROPERTIES FirstCauseStays DeadlineEnds CancelReturns
