SPECIFICATION Spec
CONSTANTS
    c1 = c1
    c2 = c2
    d1 = d1
    d2 = d2
    n1 = n1
    n2 = n2
    r1 = r1
    r2 = r2
    None = None
    CollectionId <- TwoCollections
    DocumentId <- TwoDocuments
    Name <- TwoNames
    Config <- TwoConfigs
    VectorLength <- UpToTwo
    Rpc <- TwoRpcs
    Operation <- WritingAndReading
    BatchSize = 1
    MaxBatch = 1
SYMMETRY Symmetry
INVARIANTS
    TypeOK
    CacheCoherent
PROPERTIES
    MisfitOnlyByForeignUpsert
