------------------------------ MODULE MCQueries -----------------------------
(* Instances of Queries for TLC.                                           *)
EXTENDS Queries, TLC

MCDistances ==
    [m \in Metrics |->
        CASE m = "cosine" -> {0, 100, NaN}
          [] m = "euclidean" -> {0, 100, 300}
          [] m = "inner_product" -> {-100, 0, 100}]
=============================================================================
