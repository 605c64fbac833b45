\* An array property is a pointer slot laid out with blob (byte) alignment.
CONSTANTS
    PropKinds <- MCPropKinds
    MaxDims = 2
    MaxProps = 2
    PtrSize = 8
    SizeTSize = 8
    IntSize = 4
    MetaOffset = 48
SPECIFICATION Spec
CHECK_DEADLOCK FALSE
INVARIANT PropertiesAligned
