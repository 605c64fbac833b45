\* Saves and loads on a writable storage whose driver has every optional function.
CONSTANTS
    s1 = s1
    s2 = s2
    u1 = u1
    u2 = u2
    nm = nm
    v1 = v1
    v2 = v2
    EntUri = entUri
    OtherUri = otherUri
    None = none
    Slots = {s1, s2}
    Uuids = {u1, u2}
    Names = {nm}
    V5 <- MCV5
    Vals = {v1, v2}
    DimSizes = {0, 1}
    Caps <- MCAllCaps
    Writable = TRUE
SPECIFICATION Spec
SYMMETRY MCSymmetry
INVARIANT LoadedMatchesSaved
INVARIANT StorageInv
PROPERTY KeyValueRefined
