SPECIFICATION Spec
CONSTANTS
    N = 3
    MaxClock = 2
    Shapes <- MCShapes
CHECK_DEADLOCK FALSE
INVARIANT DoneLeavesNoEntry
