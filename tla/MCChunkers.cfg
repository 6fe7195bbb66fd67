SPECIFICATION Spec
CONSTANTS
    MaxLength = 7
    Requested <- MCRequested
INVARIANTS
    TypeOK
    OnlyGluedTextIsLost
    SentencesInOrder
    LargeSentencesStandAlone
    ChunksAdvance
    NothingLost
    TidyTextIsWellCut
CHECK_DEADLOCK FALSE
