\* Both copies over every shape of up to 3 dimensions of sizes 0, 1 and 2.
CONSTANTS
    MaxNDims = 3
    DimSizes = {0, 1, 2}
SPECIFICATION Spec
CHECK_DEADLOCK FALSE
INVARIANT FlatCopyCorrect
