------------------------------ MODULE MCRowLocks -----------------------------
(* Small instances of RowLocks for TLC.                                    *)
EXTENDS RowLocks, TLC

CONSTANTS c1, c2, d1, d2, d3, n1, n2, t1, t2, t3

OneConfig == {[dimension |-> 1, distance_metric |-> "cosine", provider |-> ""]}

OneLength == {1}

Symmetry == Permutations(CollectionId) \cup Permutations(DocumentId)
               \cup Permutations(Txn) \cup Permutations(Name)
=============================================================================
