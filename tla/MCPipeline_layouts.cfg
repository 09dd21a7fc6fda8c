CONSTANTS
    CommonFields = {"c", "d"}
    ItemFields = {"f", "g", "_source"}
    Source = "_source"
    Plans <- MCPlans
    Requests <- MCRequests
    MaxOps = 3
    StrictOnEmpty = TRUE
SPECIFICATION Spec
INVARIANT LayoutsAgree
