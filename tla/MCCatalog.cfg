SPECIFICATION FairSpec
CONSTANTS
    c1 = c1
    c2 = c2
    d1 = d1
    d2 = d2
    n1 = n1
    n2 = n2
    r1 = r1
    r2 = r2
    None = None
    CollectionId <- TwoCollections
    DocumentId <- TwoDocuments
    Name <- TwoNames
    Config <- TwoConfigs
    VectorLength <- UpToTwo
    Rpc <- OneRpc
    Operation <- AllWriting
    BatchSize = 2
    MaxBatch = 2
INVARIANTS
    CheckedVectorsFit
    NoOrphans
    CountExact
PROPERTIES
    ImplementsCatalog
    RequestsGoForward
    EveryRequestAnswered
