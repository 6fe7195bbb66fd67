---------------------------- MODULE MCVectorSync ----------------------------
(* Small instances of VectorSync for TLC.  Each configuration chooses the  *)
(* operations that clients call, so that what it asks of the system is     *)
(* explored in full.                                                       *)
EXTENDS VectorSync, TLC

CONSTANTS c1, c2, d1, d2, n1, n2, r1, r2

OneRpc == {r1}
TwoRpcs == {r1, r2}
TwoCollections == {c1, c2}
OneDocument == {d1}
TwoDocuments == {d1, d2}
OneName == {n1}
TwoNames == {n1, n2}

(* A collection of one dimension without a provider, one of two with.      *)
TwoConfigs ==
    {[dimension |-> 1, distance_metric |-> "cosine", provider |-> ""],
     [dimension |-> 2, distance_metric |-> "euclidean", provider |-> "ollama"]}

UpToTwo == 0..2

CreateAndRead == {"CreateDocument", "ListDocuments", "SearchDocuments"}
WritingAndReading == {"CreateDocument", "UpsertDocument", "SearchDocuments"}
CreateAndUpsert == {"CreateDocument", "UpsertDocument"}
AllWriting == {"BatchInsert", "BatchDelete", "UpsertDocument", "IngestDocument"}

Symmetry == Permutations(CollectionId) \cup Permutations(DocumentId)
               \cup Permutations(Rpc) \cup Permutations(Name)
=============================================================================
