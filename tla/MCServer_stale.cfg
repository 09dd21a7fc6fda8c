SPECIFICATION FairSpec
CONSTANTS
    Conns = {c1}
    Watch = TRUE
    Kinds = {"short"}
    MaxRequests = 0
    Endless = FALSE
    MaxEdits = 1
    MaxClock = 1
PROPERTY ServesLastEdit
