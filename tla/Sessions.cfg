CONSTANTS
    x = x
    y = y
    h1 = h1
    h2 = h2
    h3 = h3
    Nobody = Nobody
    Nowhere = Nowhere
    Indexes <- MCIndexes
    Handles <- MCHandles
    MaxId = 0
    MaxRevision = 3
    Careless = {"out_of_order", "rebind", "behind_handle"}
SPECIFICATION Spec
SYMMETRY Symmetry
INVARIANTS TypeOK AppliersOwnOne OwnersApply
PROPERTY HandleRestores
CONSTRAINT Bounded
