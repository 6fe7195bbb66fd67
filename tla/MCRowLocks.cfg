SPECIFICATION Spec
CONSTANTS
    c1 = c1 c2 = c2 d1 = d1 d2 = d2 d3 = d3 n1 = n1 n2 = n2 t1 = t1 t2 = t2 t3 = t3
    CollectionId = {c1}
    DocumentId = {d1, d2}
    Name = {n1}
    Config <- OneConfig
    VectorLength <- OneLength
    None = None
    Txn = {t1, t2, t3}
    MaxOpenConns = 3
    BatchSize = 2
SYMMETRY Symmetry
INVARIANTS
    TypeOK
    Consistent
    DeletionReportsItsDocuments
    OnlyDeletionsDeadlock
    SingleDeletionsMeetCollections
    OnlyInsertsAtRisk
    PoolNeverStuck
PROPERTY CommitsAreStatements
