CONSTANTS
    N = 0
    Workers = 1
    SubmitMayFail = FALSE
SPECIFICATION FairSpec
PROPERTY RunReturns
