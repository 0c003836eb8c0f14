CONSTANTS
    a = a
    b = b
    c = c
    MaxId = 1
    Vals <- MCVals
    Clash <- MCClash
    MaxSessions = 3
    MaxRevision = 3
    RiskyConflicts = TRUE
SPECIFICATION Spec
SYMMETRY Symmetry
INVARIANT NoFreedRow
