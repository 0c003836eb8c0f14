CONSTANTS
    a = a
    b = b
    NoVal = NoVal
    Vals <- MCVals
    MaxId = 1
    MaxRevision = 2
    MaxCells = 5
    MaxLosses = 2
    Careless = {"partial_commit", "commit_after_start", "session_handle", "failing_modify", "allow", "unread", "torn_write"}
SPECIFICATION Spec
SYMMETRY Symmetry
INVARIANTS TypeOK ReplayGivesContainer RecoverableUntilStrayed
PROPERTIES RecoversLastCall EntriesStay
CONSTRAINT Bounded
