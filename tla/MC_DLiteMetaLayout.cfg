\* Layouts computed by dlite_meta_postinit for up to 2 dimensions and 2 properties.
CONSTANTS
    PropKinds <- MCPropKinds
    MaxDims = 2
    MaxProps = 2
    PtrSize = 8
    SizeTSize = 8
    IntSize = 4
    MetaOffset = 48
SPECIFICATION Spec
CHECK_DEADLOCK FALSE
INVARIANTS
    TypeOK
    LayoutInBounds
    PropertiesDisjoint
    BoundsInv
