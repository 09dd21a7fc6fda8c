SPECIFICATION Spec
CONSTANTS
    Conns = {c1, c2}
    Watch = FALSE
    Kinds = {"short", "long"}
    MaxRequests = 1
    Endless = FALSE
    MaxEdits = 0
    MaxClock = 0
INVARIANT NoTouchAfterFree
