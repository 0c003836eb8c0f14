CONSTANTS
    Secondary = 2
    Vals <- MCVals
    MaxId = 2
    RiskyUndo = FALSE
SPECIFICATION Spec
INVARIANTS TypeOK TreesAgree TransientOrder AssertsHold
PROPERTIES UndoRestores ThrowsLeaveOthers
