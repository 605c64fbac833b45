\* The last dimension slot is sized as an int, and a property can start inside it.
CONSTANTS
    PropKinds <- MCPropKinds
    MaxDims = 2
    MaxProps = 2
    PtrSize = 8
    SizeTSize = 8
    IntSize = 4
    MetaOffset = 48
SPECIFICATION Spec
CHECK_DEADLOCK FALSE
INVARIANT DimensionsDisjoint
