SPECIFICATION FairSpec
CONSTANTS
    Conns = {c1}
    Watch = FALSE
    Kinds = {"short"}
    MaxRequests = 2
    Endless = TRUE
    MaxEdits = 0
    MaxClock = 0
PROPERTY ShutdownCompletes
