CONSTANTS
    CField = CField
    IField = IField
    N = 3
    CommonFields = {CField}
    ItemFields = {IField}
    RowSet = RowSet
    OpShapes <- AllShapes
SPECIFICATION Spec
INVARIANTS ExactOrder NoRedundantEdge NeverCyclic
