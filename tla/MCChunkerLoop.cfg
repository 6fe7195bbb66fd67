SPECIFICATION Spec
CONSTANTS
    MaxLength = 12
    Requested <- MCRequested
INVARIANTS
    ChunksOverlap
PROPERTIES
    EveryCutAdvances
    LoopIsOneStep
CHECK_DEADLOCK FALSE
