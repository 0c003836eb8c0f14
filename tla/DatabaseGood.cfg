CONSTANTS
    p1 = p1
    p2 = p2
    p3 = p3
    Nobody = Nobody
    Procs <- MCTwo
    Sizes = {0, 2, 3}
    MinSize = 1
    MaxCrashes = 2
    Careless = {"stale_check"}
SPECIFICATION Spec
SYMMETRY Symmetry
INVARIANT GoodMeansGood
