CONSTANTS
    N = 3
    Workers = 2
    SubmitMayFail = TRUE
SPECIFICATION FairSpec
INVARIANT NoUseAfterReturn
PROPERTIES ImplementsDagRun RunReturns
