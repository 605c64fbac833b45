\* dlite_copy_to_nested on an array of two or more dimensions.
CONSTANTS
    MaxNDims = 3
    DimSizes = {0, 1, 2}
SPECIFICATION Spec
CHECK_DEADLOCK FALSE
INVARIANT NestedCopyCorrect
