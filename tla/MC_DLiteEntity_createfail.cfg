\* Freeing the last instance of an entity the caller already released.
CONSTANTS
    e1 = e1
    e2 = e2
    i1 = i1
    i2 = i2
    i3 = i3
    NoEnt = NoEnt
    Ent <- MCEnt
    Inst <- MCInst
    Shapes <- MCShapes
    MaxRef = 3
SPECIFICATION Spec
SYMMETRY MCSymmetry
INVARIANTS
    CreateFailureClean
