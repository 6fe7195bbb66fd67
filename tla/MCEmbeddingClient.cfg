SPECIFICATION Spec
CONSTANT MaxTexts = 4
INVARIANTS
    TypeOK
    EmbeddingsMatchTexts
PROPERTIES
    CallGoesForward
    CallEnds
CHECK_DEADLOCK FALSE
