------------------------------- MODULE Ranking ------------------------------
(***************************************************************************)
(* The search queries of internal/db/document_repo.go, as the set of the   *)
(* answers that PostgreSQL may give: ORDER BY leaves ties in any order.  A *)
(* query looks at the documents of one collection and sees of each its     *)
(* distance from the vector that is searched for, its rank for the text    *)
(* that is searched for (0 if it does not match) and whether it passes the *)
(* metadata filter.  Distances, ranks, scores and weights are hundredths.  *)
(***************************************************************************)
EXTENDS Integers, FiniteSets, Sequences, Functions

CONSTANTS
    NaN,          \* the cosine distance of a vector of zeros
    DefaultTopK,  \* how many documents are returned when a request does not say
    MaxTopK       \* the most that a request may ask for

ASSUME RankingAssumption ==
    /\ NaN \notin Int
    /\ DefaultTopK \in 1..MaxTopK

Metrics == {"cosine", "euclidean", "inner_product"}

(* PostgreSQL takes NaN for greater than every number.                     *)
Greater(x, y) ==
    \/ x = NaN /\ y # NaN
    \/ x # NaN /\ y # NaN /\ x > y

(* The answers to ORDER BY ... LIMIT limit over S.                         *)
First(limit, S, Before(_, _)) ==
    LET n == IF limit < Cardinality(S) THEN limit ELSE Cardinality(S)
    IN  {s \in [1..n -> S] :
            /\ \A i, j \in 1..n : i < j => s[i] # s[j] /\ ~Before(s[j], s[i])
            /\ \A d \in S \ Range(s), i \in 1..n : ~Before(d, s[i])}

(* Variant: pgvector's negative inner product is taken for the positive one. *)
SimilarityUnsigned(metric, distance) ==
    CASE distance = NaN -> NaN
      [] distance # NaN /\ metric = "euclidean" -> 10000 \div (100 + distance)
      [] distance # NaN /\ metric = "inner_product" -> distance
      [] distance # NaN /\ metric = "cosine" -> 100 - distance

(* similarityExpression.                                                   *)
Similarity(metric, distance) ==
    CASE distance = NaN -> NaN
      [] distance # NaN /\ metric = "euclidean" -> 10000 \div (100 + distance)
      [] distance # NaN /\ metric = "inner_product" -> -distance
      [] distance # NaN /\ metric = "cosine" -> 100 - distance

Filtered(rows, filter) == {d \in DOMAIN rows : filter => rows[d].tagged}

TopK(top_k) == IF top_k = 0 THEN DefaultTopK ELSE top_k
-----------------------------------------------------------------------------
(* Vector search.  A request that is refused has no answer.                *)
Search(rows, metric, r) ==
    IF r.top_k \in 0..MaxTopK /\ r.min_threshold \in 0..100
    THEN First(TopK(r.top_k),
               {d \in Filtered(rows, r.filter) :
                   r.min_threshold > 0 =>
                       ~Greater(r.min_threshold, Similarity(metric, rows[d].distance))},
               LAMBDA d, e : Greater(rows[e].distance, rows[d].distance))
    ELSE {}

(* Full-text search.  Its limit has no maximum.                            *)
FullTextSearch(rows, r) ==
    IF r.limit >= 0 /\ r.min_rank \in 0..100
    THEN First(TopK(r.limit),
               {d \in DOMAIN rows : rows[d].rank > 0 /\ rows[d].rank >= r.min_rank},
               LAMBDA d, e : Greater(rows[d].rank, rows[e].rank))
    ELSE {}

(* Variant: each weight is divided by the other one's share.               *)
ShareOfOther(w, other) ==
    IF w + other = 0 THEN 50 ELSE (100 * other) \div (w + other)

(* Weights are scaled to add up to one, and are one half each if both are 0. *)
Share(w, other) ==
    IF w + other = 0 THEN 50 ELSE (100 * w) \div (w + other)

Combined(row, metric, r) ==
    LET score == Similarity(metric, row.distance)
        rank == IF r.query_text THEN row.rank ELSE 0
    IN  IF score = NaN THEN NaN
        ELSE Share(r.text_weight, r.vector_weight) * rank
                 + Share(r.vector_weight, r.text_weight) * score

(* Hybrid search.  The text filters as well as it ranks.  Without a vector *)
(* an empty one is sent, which pgvector refuses.                           *)
HybridSearch(rows, metric, r) ==
    IF /\ r.query_vector
       /\ r.top_k \in 0..MaxTopK
       /\ r.vector_weight \in 0..100
       /\ r.text_weight \in 0..100
    THEN First(TopK(r.top_k),
               {d \in Filtered(rows, r.filter) : r.query_text => rows[d].rank > 0},
               LAMBDA d, e : Greater(Combined(rows[d], metric, r), Combined(rows[e], metric, r)))
    ELSE {}
=============================================================================
