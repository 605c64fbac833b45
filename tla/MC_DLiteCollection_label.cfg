\* A second dlite_collection_add under a label already in use.
CONSTANTS
    a = a
    b = b
    u1 = u1
    u2 = u2
    m1 = m1
    d1 = d1
    d2 = d2
    Labels <- MCLabels
    Uuids <- MCUuids
    MetaUris = {m1}
    DimNames <- MCDimNames
    MaxTriples = 7
SPECIFICATION Spec
SYMMETRY MCSymmetry
INVARIANT LabelsConsistent
