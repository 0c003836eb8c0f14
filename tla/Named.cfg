CONSTANTS
    book = book
    grown = grown
    plain = plain
    left = left
    book_plain = book_plain
    book_left = book_left
    a = a
    p = p
    q = q
    NoVal = NoVal
    NoName = NoName
    NoSuffix = plain
    Vals <- MCVals
    Types <- MCTypes
    Suffixes <- MCSuffixes
    Names <- MCNames
    NameOf <- MCNameOf
    SizeOf <- MCSizeOf
    Objects <- MCObjects
    MaxId = 0
    MaxRevision = 1
    MaxCells = 3
    MaxLosses = 2
    Careless = {"twice", "plain", "unread", "moved_into"}
SPECIFICATION Spec
SYMMETRY Symmetry
INVARIANTS TypeOK JournalsFollow OneWriterPerName SlotIsWhole
CONSTRAINT Bounded
