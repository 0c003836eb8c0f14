CONSTANTS
    a = a
    b = b
    NoVal = NoVal
    Vals <- MCVals
    MaxId = 1
    MaxRevision = 2
    MaxCells = 6
    MaxLosses = 1
    Careless = {"partial_commit"}
SPECIFICATION Spec
SYMMETRY Symmetry
INVARIANT Recoverable
