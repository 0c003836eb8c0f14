CONSTANTS
    a = a
    b = b
    c = c
    MaxId = 1
    Vals <- MCVals
    Clash <- MCClash
    MaxSessions = 3
    MaxRevision = 3
    RiskyConflicts = FALSE
SPECIFICATION Spec
SYMMETRY Symmetry
INVARIANTS TypeOK UniqueKeys OneNodePerKey NoFreedRow EndsAreLive SessionsNest
           KeysBelowNextId OneBackupPerSession BoundedLeftover
PROPERTY ImplementsPromise
CONSTRAINT Bounded
