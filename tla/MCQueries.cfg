SPECIFICATION Spec
CONSTANTS
    NaN = NaN
    DefaultTopK = 2
    MaxTopK = 3
    Key = {1, 2, 3}
    Distances <- MCDistances
    Ranks = {0, 10, 60}
    DefaultLimit = 1
    MaxLimit = 2
    MaxTime = 3
INVARIANTS
    RepeatedOnlyIfMoved
    SkippedOnlyIfMoved
    SearchRanksBestFirst
    HybridAgreesAtTheEdges
