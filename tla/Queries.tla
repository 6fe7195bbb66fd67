------------------------------- MODULE Queries ------------------------------
(***************************************************************************)
(* Reading next to writing: the documents of a collection, or the          *)
(* collections themselves, are paged through with LIMIT and OFFSET while   *)
(* others insert, upsert and delete; and the searches of Ranking answer    *)
(* what they should in every table that comes up.                          *)
(*                                                                         *)
(* A page is a query of its own, on the tables as they are then.  pushed,  *)
(* pulled and tied are not part of the code: they record what became of    *)
(* the order of the rows while a client was reading.                       *)
(***************************************************************************)
EXTENDS Ranking

CONSTANTS
    Key,           \* ids, in the order of UUIDs
    Distances,     \* the distances of documents, for each metric
    Ranks,         \* the ranks of documents for the text that is searched for
    DefaultLimit,  \* the size of a page when a request does not say
    MaxLimit,      \* the largest size of a page
    MaxTime        \* the bound of the clock

ASSUME QueriesAssumption ==
    /\ Key \subseteq Nat
    /\ IsFiniteSet(Key)
    /\ Ranks # {} /\ Ranks \subseteq 0..100
    /\ \A m \in Metrics : Distances[m] # {} /\ Distances[m] \subseteq Int \cup {NaN}
    /\ Distances["euclidean"] \subseteq Nat \cup {NaN}
    /\ MaxLimit \in Nat /\ DefaultLimit \in 1..MaxLimit
    /\ MaxTime \in Nat \ {0}

(* Scores are rounded to hundredths here: the distances are far enough     *)
(* apart for their scores to differ, as those of the code do.              *)
ASSUME ScoresTellApart ==
    \A d, e \in Distances["euclidean"] \ {NaN} :
        d # e => Similarity("euclidean", d) # Similarity("euclidean", e)

VARIABLES
    rows,     \* the rows of the table, a function from their ids
    metric,   \* the distance metric of the collection
    clock,    \* the time
    reader,   \* the client that reads pages
    pushed,   \* rows behind a row that was inserted while it read
    pulled,   \* rows behind a row that was deleted while it read
    tied      \* rows that had the place of another one while it read

vars == <<rows, metric, clock, reader, pushed, pulled, tied>>

Listings == {"none", "documents", "collections"}

Content(m) == [distance : Distances[m], rank : Ranks, tagged : BOOLEAN]

Row(m) ==
    [distance : Distances[m], rank : Ranks, tagged : BOOLEAN,
     created_at : 1..MaxTime, updated_at : 1..MaxTime]

Plain(m) == CHOOSE c \in Content(m) : TRUE

(* Paging does not look at what a row holds, nor at the metric.            *)
ContentsWhile(listing) == IF listing = "none" THEN Content(metric) ELSE {Plain(metric)}

Init ==
    /\ rows = [k \in {} |-> Plain("cosine")]
    /\ metric \in Metrics
    /\ clock = 1
    /\ \E listing \in Listings :
          /\ listing # "none" => metric = "cosine"
          /\ reader = [listing |-> listing, offset |-> 0, reading |-> FALSE, ended |-> FALSE,
                       cut |-> FALSE, there |-> {}, seen |-> {}, repeated |-> {}]
    /\ pushed = {}
    /\ pulled = {}
    /\ tied = {}
-----------------------------------------------------------------------------
(* Variant: documents are ordered by when they were written last.          *)
ByUpdate(table, listing, k, l) ==
    IF listing = "collections" THEN k < l
    ELSE table[k].updated_at > table[l].updated_at

(* ORDER BY created_at DESC for documents, ORDER BY id for collections.    *)
Before(table, listing, k, l) ==
    IF listing = "collections" THEN k < l
    ELSE table[k].created_at > table[l].created_at

(* Documents: a limit of 0 is the default, one that is too large or        *)
(* negative is refused.                                                    *)
DocumentLimits(limit) ==
    IF limit = 0 THEN {DefaultLimit} ELSE {limit} \cap 1..MaxLimit

(* Collections: any other limit is made to fit.                            *)
CollectionLimits(limit) ==
    {IF limit <= 0 THEN DefaultLimit ELSE IF limit > MaxLimit THEN MaxLimit ELSE limit}

Limits(listing, limit) ==
    IF listing = "collections" THEN CollectionLimits(limit) ELSE DocumentLimits(limit)

(* The answers to LIMIT limit OFFSET offset.                               *)
Pages(table, listing, limit, offset) ==
    {SubSeq(s, offset + 1, Len(s)) :
        s \in First(offset + limit, DOMAIN table,
                    LAMBDA k, l : Before(table, listing, k, l))}

(* What arrives of a page if its rows are read to the end or to an error:  *)
(* CollectionRepo.List does not ask rows.Err() which of the two it was.    *)
Received(listing, page) ==
    IF listing = "collections" THEN {SubSeq(page, 1, n) : n \in 0..Len(page)} ELSE {page}

TiedIn(table, listing) ==
    {k \in DOMAIN table : \E l \in DOMAIN table \ {k} :
        ~Before(table, listing, k, l) /\ ~Before(table, listing, l, k)}

(* What others do to the rows while the client reads.  A row with the id   *)
(* of one that was deleted is another row.  (A bound: once the client has  *)
(* read everything, nothing is written before it begins again.)            *)
Observe(from, to) ==
    LET Note(S, news) == (IF reader.reading THEN S \cup news ELSE S) \cap DOMAIN to
    IN  /\ ~reader.ended
        /\ pushed' = Note(pushed, {k \in DOMAIN to : \E l \in DOMAIN to \ DOMAIN from :
                                     Before(to, reader.listing, l, k)})
        /\ pulled' = Note(pulled, {k \in DOMAIN from : \E l \in DOMAIN from \ DOMAIN to :
                                     Before(from, reader.listing, l, k)})
        /\ tied' = Note(tied, TiedIn(to, reader.listing))
        /\ reader' = [reader EXCEPT !.there = @ \cap DOMAIN to, !.seen = @ \cap DOMAIN to,
                                    !.repeated = @ \cap DOMAIN to]
-----------------------------------------------------------------------------
NewRow(c, begun) ==
    [distance |-> c.distance, rank |-> c.rank, tagged |-> c.tagged,
     created_at |-> begun, updated_at |-> begun]

(* An insert of one row or of several.  created_at is the time at which    *)
(* the transaction began; it may commit after younger ones.                *)
Insert ==
    \E S \in SUBSET (Key \ DOMAIN rows), begun \in {clock, clock - 1} \cap 1..MaxTime :
        /\ S # {}
        /\ \E contents \in [S -> ContentsWhile(reader.listing)] :
              rows' = [k \in DOMAIN rows \cup S |->
                          IF k \in DOMAIN rows THEN rows[k]
                          ELSE NewRow(contents[k], begun)]
        /\ Observe(rows, rows')
        /\ UNCHANGED <<metric, clock>>

(* An upsert of a document that exists leaves its created_at alone.        *)
Update ==
    /\ reader.listing # "collections"
    /\ \E k \in DOMAIN rows, c \in ContentsWhile(reader.listing) :
          rows' = [rows EXCEPT ![k] = [@ EXCEPT !.distance = c.distance, !.rank = c.rank,
                                                 !.tagged = c.tagged, !.updated_at = clock]]
    /\ Observe(rows, rows')
    /\ UNCHANGED <<metric, clock>>

Delete ==
    /\ \E k \in DOMAIN rows : rows' = [l \in DOMAIN rows \ {k} |-> rows[l]]
    /\ Observe(rows, rows')
    /\ UNCHANGED <<metric, clock>>

(* Only pages of documents depend on the time of a row.                    *)
Tick ==
    /\ reader.listing = "documents" /\ ~reader.ended
    /\ clock < MaxTime
    /\ clock' = clock + 1
    /\ UNCHANGED <<rows, metric, reader, pushed, pulled, tied>>

(* A client begins with offset 0; the rows that are there are what it is   *)
(* to see.                                                                 *)
StartReading ==
    /\ reader.listing # "none"
    /\ ~reader.reading
    /\ reader' = [reader EXCEPT !.offset = 0, !.reading = TRUE, !.ended = FALSE, !.cut = FALSE,
                                !.there = DOMAIN rows, !.seen = {}, !.repeated = {}]
    /\ pushed' = {}
    /\ pulled' = {}
    /\ tied' = TiedIn(rows, reader.listing)
    /\ UNCHANGED <<rows, metric, clock>>

(* It asks for the page behind those it has, with any limit, until one is  *)
(* empty.  (A limit that is refused leaves it where it was.)               *)
ReadPage ==
    /\ reader.reading
    /\ \E asked \in (-1)..(MaxLimit + 1) : \E limit \in Limits(reader.listing, asked) :
       \E full \in Pages(rows, reader.listing, limit, reader.offset) :
       \E page \in Received(reader.listing, full) :
          reader' = [reader EXCEPT !.offset = @ + Len(page),
                                   !.reading = page # << >>,
                                   !.ended = page = << >>,
                                   !.cut = @ \/ page # full,
                                   !.seen = @ \cup Range(page),
                                   !.repeated = @ \cup (Range(page) \cap reader.seen)]
    /\ UNCHANGED <<rows, metric, clock, pushed, pulled, tied>>

Next == Insert \/ Update \/ Delete \/ Tick \/ StartReading \/ ReadPage

Spec == Init /\ [][Next]_vars
-----------------------------------------------------------------------------
TypeOK ==
    /\ DOMAIN rows \subseteq Key
    /\ \A k \in DOMAIN rows : rows[k] \in Row(metric)
    /\ metric \in Metrics
    /\ clock \in 1..MaxTime
    /\ reader \in [listing : Listings, offset : Nat, reading : BOOLEAN,
                   ended : BOOLEAN, cut : BOOLEAN, there : SUBSET Key, seen : SUBSET Key,
                   repeated : SUBSET Key]
    /\ {pushed, pulled, tied} \subseteq SUBSET Key

(* A row that stays where it is among the others is read once: pages repeat *)
(* it only if a row was inserted in front of it or another one has its     *)
(* created_at.  An update never moves it.                                  *)
RepeatedOnlyIfMoved == reader.repeated \subseteq pushed \cup tied

(* And they pass over it only if one in front of it was deleted or another *)
(* one has its created_at; or, of collections, if a lost connection cut a  *)
(* page off, which nobody is told.                                         *)
SkippedOnlyIfMoved ==
    reader.ended =>
        \/ reader.there \ reader.seen \subseteq pulled \cup tied
        \/ reader.listing = "collections" /\ reader.cut

Score(k) == Similarity(metric, rows[k].distance)

Requests ==
    [filter : BOOLEAN, min_threshold : {0, 50, 100}, top_k : 0..MaxTopK]

NoZeroVectors == \A k \in DOMAIN rows : rows[k].distance # NaN

(* Documents come best first under every metric, although they are ordered *)
(* by distance and scored by similarity, with zero vectors at the end; and *)
(* a threshold does no more than cut off the end of the list.              *)
SearchRanksBestFirst ==
    reader.listing = "none" =>
        \A r \in Requests : \A s \in Search(rows, metric, [r EXCEPT !.min_threshold = 0]) :
            /\ \A i, j \in DOMAIN s : i < j /\ Score(s[i]) # Score(s[j]) =>
                  Score(s[j]) = NaN \/ Greater(Score(s[i]), Score(s[j]))
            /\ NoZeroVectors =>
                  \E n \in 0..Len(s) :
                      /\ SubSeq(s, 1, n) \in Search(rows, metric, r)
                      /\ \A i \in DOMAIN s : i <= n <=> Score(s[i]) >= r.min_threshold
                                                     \/ r.min_threshold = 0

HybridRequests ==
    [query_vector : BOOLEAN, query_text : BOOLEAN, vector_weight : {0, 100},
     text_weight : {0, 100}, filter : BOOLEAN, top_k : 0..MaxTopK]

(* A hybrid search that is given no text is a vector search, and one that  *)
(* gives vectors no weight ranks by text alone, as long as no vector of    *)
(* zeros, which it puts first, is among the documents.                     *)
HybridAgreesAtTheEdges ==
    reader.listing = "none" /\ NoZeroVectors =>
        \A r \in HybridRequests :
            /\ r.query_vector /\ ~r.query_text /\ (r.vector_weight > 0 \/ r.text_weight = 0) =>
                  HybridSearch(rows, metric, r) =
                      Search(rows, metric, [filter |-> r.filter, min_threshold |-> 0,
                                            top_k |-> r.top_k])
            /\ r.query_vector /\ r.query_text /\ ~r.filter
                  /\ r.vector_weight = 0 /\ r.text_weight > 0 =>
                  HybridSearch(rows, metric, r) =
                      FullTextSearch(rows, [limit |-> r.top_k, min_rank |-> 0])
=============================================================================
