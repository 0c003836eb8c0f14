CONSTANTS
    p1 = p1
    p2 = p2
    p3 = p3
    Nobody = Nobody
    Procs <- MCTwo
    Sizes = {0, 2, 3}
    MinSize = 1
    MaxCrashes = 2
    Careless = {}
SPECIFICATION FairSpec
INVARIANTS TypeOK CleanIsWhole DirtyWhileOpen GoodMeansGood SegmentFits Openable
PROPERTIES OnlyOwnerWrites NobodyWaits
