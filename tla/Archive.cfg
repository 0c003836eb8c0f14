CONSTANTS
    Base = 2
    CountWidth = 2
    Chunk = 2
    Items <- MCItems
    MaxItems = 2
    MaxEntries = 2
SPECIFICATION Spec
INVARIANTS WritesPortably LoadsWhatWasSaved EntriesCheck
