SPECIFICATION Spec
CONSTANTS
    MaxLength = 7
    Requested <- MCRequested
INVARIANT ChunksWithinSize
CHECK_DEADLOCK FALSE
