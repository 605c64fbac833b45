\* Adds, removes and dimension maps of two labels in a store of up to 7 triples.
CONSTANTS
    a = a
    b = b
    u1 = u1
    u2 = u2
    m1 = m1
    d1 = d1
    d2 = d2
    Labels <- MCLabels
    Uuids <- MCUuids
    MetaUris = {m1}
    DimNames <- MCDimNames
    MaxTriples = 7
SPECIFICATION Spec
SYMMETRY MCSymmetry
INVARIANTS
    NoOrphanMembers
