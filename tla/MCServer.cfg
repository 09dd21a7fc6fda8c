SPECIFICATION FairSpec
CONSTANTS
    Conns = {c1, c2}
    Watch = TRUE
    Kinds = {"short", "long"}
    MaxRequests = 1
    Endless = FALSE
    MaxEdits = 1
    MaxClock = 1
INVARIANTS ExecuteOnLiveEngine GoodEngineServed QuietTeardown NothingLeftRunning
PROPERTIES ShutdownCompletes NewerFileIsServed
