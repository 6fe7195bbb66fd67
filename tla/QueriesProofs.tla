---------------------------- MODULE QueriesProofs ----------------------------
(***************************************************************************)
(* Proofs about Queries, for any number of rows and pages of any size.     *)
(*                                                                         *)
(* What a page holds is an answer to ORDER BY, of which there are many     *)
(* when rows are tied; what they share is where an untied row stands: at   *)
(* the place that the number of rows ahead of it says.  The inductive      *)
(* invariant compares that number with the offset of the reader: a row     *)
(* that was seen and not pushed is ahead of the offset, and one that is    *)
(* still to be seen and was not pulled is not.                             *)
(*                                                                         *)
(* What the searches promise holds in every table of the right type: that  *)
(* nearer rows do not score lower is all that it takes.                    *)
(***************************************************************************)
EXTENDS Queries, FiniteSetTheorems, SequenceTheorems, WellFoundedInduction, TLAPS

(* The rows ahead of k, and their number.                                  *)
Ahead(k) == {l \in DOMAIN rows : Before(rows, reader.listing, l, k)}

Position(k) == Cardinality(Ahead(k))

SeenAhead ==
    \A k \in reader.seen \ pushed : Position(k) < reader.offset

UnseenBehind ==
    ~reader.cut =>
        \A k \in reader.there \ (reader.seen \cup pulled \cup tied) :
            Position(k) >= reader.offset

Inv ==
    /\ TypeOK
    /\ reader.there \cup reader.seen \subseteq DOMAIN rows
    /\ reader.cut => reader.listing = "collections"
    /\ reader.reading =>
           /\ TiedIn(rows, reader.listing) \subseteq tied
           /\ SeenAhead
           /\ UnseenBehind
    /\ RepeatedOnlyIfMoved
    /\ SkippedOnlyIfMoved
-----------------------------------------------------------------------------
(* Counting with a sequence: one without repetition is no longer than the  *)
(* set it is over, and one that lists a set is no shorter.                 *)
LEMMA NoLonger ==
    ASSUME NEW T, IsFiniteSet(T), NEW m \in Nat, NEW f \in [1..m -> T],
           \A i, j \in 1..m : i < j => f[i] # f[j]
    PROVE  /\ m <= Cardinality(T)
           /\ m = Cardinality(T) => \A x \in T : \E i \in 1..m : f[i] = x
<1>1. f \in Injection(1..m, T)
  <2>1. \A i, j \in 1..m : f[i] = f[j] => i = j
    <3> SUFFICES ASSUME NEW i \in 1..m, NEW j \in 1..m, i # j PROVE f[i] # f[j]
      OBVIOUS
    <3>1. i < j \/ j < i
      OBVIOUS
    <3> QED  BY <3>1
  <2> QED  BY <2>1 DEF Injection, IsInjective
<1>2. Cardinality(1..m) = m
  BY FS_Interval
<1>3. /\ Cardinality(1..m) <= Cardinality(T)
      /\ Cardinality(1..m) = Cardinality(T) <=> f \in Surjection(1..m, T)
  BY <1>1, FS_Injection
<1> QED  BY <1>2, <1>3 DEF Surjection

LEMMA NoShorter ==
    ASSUME NEW T, NEW m \in Nat, NEW f \in [1..m -> T],
           \A x \in T : \E i \in 1..m : f[i] = x
    PROVE  IsFiniteSet(T) /\ Cardinality(T) <= m
<1>1. f \in Surjection(1..m, T)
  BY DEF Surjection
<1>2. IsFiniteSet(1..m) /\ Cardinality(1..m) = m
  BY FS_Interval
<1> QED  BY <1>1, <1>2, FS_Surjection

LEMMA TableFinite ==
    ASSUME TypeOK
    PROVE  IsFiniteSet(DOMAIN rows) /\ Cardinality(DOMAIN rows) \in Nat
<1>1. DOMAIN rows \in SUBSET Key /\ IsFiniteSet(Key)
  BY QueriesAssumption DEF TypeOK
<1> QED  BY <1>1, FS_Subset, FS_CardinalityType

LEMMA AheadFinite ==
    ASSUME TypeOK, NEW k
    PROVE  IsFiniteSet(Ahead(k)) /\ Position(k) \in Nat
<1>1. Ahead(k) \in SUBSET DOMAIN rows
  BY DEF Ahead
<1> QED  BY <1>1, TableFinite, FS_Subset, FS_CardinalityType DEF Position

(* The order is one: rows are not before themselves or each other.         *)
LEMMA BeforeOrder ==
    ASSUME TypeOK, NEW k \in DOMAIN rows, NEW l \in DOMAIN rows,
           Before(rows, reader.listing, k, l)
    PROVE  k # l /\ ~Before(rows, reader.listing, l, k)
<1>1. k \in Int /\ l \in Int
  <2>1. Key \subseteq Nat
    BY QueriesAssumption
  <2>2. k \in Key /\ l \in Key
    BY DEF TypeOK
  <2>3. k \in Nat /\ l \in Nat
    BY <2>1, <2>2
  <2> QED  BY <2>3
<1>2. rows[k].created_at \in Int /\ rows[l].created_at \in Int
  BY DEF TypeOK, Row
<1> QED  BY <1>1, <1>2 DEF Before
-----------------------------------------------------------------------------
(***************************************************************************)
(* Where the rows of an answer stand.                                      *)
(***************************************************************************)
Sorted(n, s) ==
    /\ n \in Nat
    /\ s \in [1..n -> DOMAIN rows]
    /\ \A i, j \in 1..n : i < j => s[i] # s[j] /\ ~Before(rows, reader.listing, s[j], s[i])
    /\ \A k \in DOMAIN rows : (\A i \in 1..n : s[i] # k) =>
          \A i \in 1..n : ~Before(rows, reader.listing, k, s[i])

Tied(k) == k \in TiedIn(rows, reader.listing)

LEMMA PositionAtMost ==
    ASSUME TypeOK, NEW n, NEW s, Sorted(n, s), NEW i \in 1..n
    PROVE  Position(s[i]) <= i - 1
<1> DEFINE front == {s[j] : j \in 1..(i - 1)}
<1>1. Ahead(s[i]) \subseteq front
  <2> SUFFICES ASSUME NEW l \in Ahead(s[i]) PROVE l \in front
    OBVIOUS
  <2>1. l \in DOMAIN rows /\ Before(rows, reader.listing, l, s[i]) /\ s[i] \in DOMAIN rows
    BY DEF Ahead, Sorted
  <2>2. PICK j \in 1..n : s[j] = l
    BY <2>1 DEF Sorted
  <2>3. j # i
    BY <2>1, <2>2, BeforeOrder
  <2>4. ~(i < j)
    BY <2>1, <2>2 DEF Sorted
  <2> QED  BY <2>2, <2>3, <2>4 DEF Sorted
<1>2. IsFiniteSet(front) /\ Cardinality(front) <= i - 1
  <2> DEFINE f == [j \in 1..(i - 1) |-> s[j]]
  <2>1. f \in [1..(i - 1) -> front] /\ \A x \in front : \E j \in 1..(i - 1) : f[j] = x
    OBVIOUS
  <2>2. i - 1 \in Nat
    BY DEF Sorted
  <2> HIDE DEF f, front
  <2> QED  BY <2>1, <2>2, NoShorter
<1>3. Position(s[i]) <= Cardinality(front) /\ Cardinality(front) \in Nat
  BY <1>1, <1>2, FS_Subset, FS_CardinalityType DEF Position
<1> QED  BY <1>2, <1>3, AheadFinite DEF Sorted

LEMMA PositionAtLeast ==
    ASSUME TypeOK, NEW n, NEW s, Sorted(n, s), NEW i \in 1..n, ~Tied(s[i])
    PROVE  Position(s[i]) >= i - 1
<1> DEFINE f == [j \in 1..(i - 1) |-> s[j]]
<1>1. n \in Nat /\ i - 1 \in Nat /\ \A j \in 1..(i - 1) : j \in 1..n /\ j < i
  BY DEF Sorted
<1>2. \A j \in 1..(i - 1) : s[j] \in Ahead(s[i])
  BY <1>1 DEF Sorted, Ahead, Tied, TiedIn
<1>3. f \in [1..(i - 1) -> Ahead(s[i])]
  BY <1>2
<1>4. \A j, k \in 1..(i - 1) : j < k => f[j] # f[k]
  BY <1>1 DEF Sorted
<1> HIDE DEF f
<1> QED  BY <1>1, <1>3, <1>4, AheadFinite, NoLonger DEF Position

LEMMA PositionBehind ==
    ASSUME TypeOK, NEW n, NEW s, Sorted(n, s), NEW k \in DOMAIN rows, ~Tied(k),
           \A i \in 1..n : s[i] # k
    PROVE  Position(k) >= n
<1>1. \A i \in 1..n : s[i] \in Ahead(k)
  BY DEF Sorted, Ahead, Tied, TiedIn
<1>2. n \in Nat /\ s \in [1..n -> Ahead(k)]
  BY <1>1 DEF Sorted
<1>3. \A i, j \in 1..n : i < j => s[i] # s[j]
  BY DEF Sorted
<1> QED  BY <1>2, <1>3, AheadFinite, NoLonger DEF Position

(* A page is a part of an answer, from the offset on, and it is empty only *)
(* behind the end of the table.                                            *)
PartOf(full, offset, n, s) ==
    /\ Sorted(n, s)
    /\ full \in Seq(DOMAIN rows)
    /\ Len(full) = IF offset < n THEN n - offset ELSE 0
    /\ \A i \in 1..Len(full) : full[i] = s[offset + i]
    /\ full = << >> => \A k \in DOMAIN rows : \E i \in 1..n : s[i] = k

LEMMA PageIsPart ==
    ASSUME TypeOK, NEW limit \in Nat \ {0}, NEW offset \in Nat,
           NEW full \in Pages(rows, reader.listing, limit, offset)
    PROVE  \E n, s : PartOf(full, offset, n, s)
<1> DEFINE size == Cardinality(DOMAIN rows)
           n == IF offset + limit < size THEN offset + limit ELSE size
<1>1. size \in Nat /\ n \in Nat
  BY TableFinite
<1>2. PICK s \in [1..n -> DOMAIN rows] :
         /\ \A i, j \in 1..n : i < j => s[i] # s[j] /\ ~Before(rows, reader.listing, s[j], s[i])
         /\ \A d \in (DOMAIN rows) \ Range(s), i \in 1..n : ~Before(rows, reader.listing, d, s[i])
         /\ full = SubSeq(s, offset + 1, Len(s))
  BY DEF Pages, First
<1> HIDE DEF size, n
<1>3. Sorted(n, s)
  BY <1>1, <1>2 DEF Sorted, Range
<1>4. Len(s) = n
  BY <1>1
<1>5. /\ full \in Seq(DOMAIN rows)
      /\ Len(full) = IF offset + 1 <= n THEN n - (offset + 1) + 1 ELSE 0
      /\ \A i \in 1..(n - (offset + 1) + 1) : full[i] = s[(offset + 1) + i - 1]
  <2>1. \A i \in (offset + 1)..n : s[i] \in DOMAIN rows
    BY <1>1
  <2>2. offset + 1 \in Int /\ n \in Int
    BY <1>1
  <2> QED  BY <1>2, <1>4, <2>1, <2>2, SubSeqProperties
<1>6. Len(full) = IF offset < n THEN n - offset ELSE 0
  BY <1>1, <1>5
<1>7. \A i \in 1..Len(full) : full[i] = s[offset + i]
  BY <1>1, <1>5
<1>8. ASSUME full = << >> PROVE \A k \in DOMAIN rows : \E i \in 1..n : s[i] = k
  <2>1. Len(full) = 0
    BY <1>8
  <2>2. n = Cardinality(DOMAIN rows)
    BY <2>1, <1>1, <1>6 DEF n, size
  <2>3. \A i, j \in 1..n : i < j => s[i] # s[j]
    BY <1>2
  <2>4. IsFiniteSet(DOMAIN rows)
    BY TableFinite
  <2> QED  BY <1>1, <2>2, <2>3, <2>4, NoLonger
<1>9. full \in Seq(DOMAIN rows)
  BY <1>5
<1>10. PartOf(full, offset, n, s)
  BY <1>3, <1>6, <1>7, <1>8, <1>9 DEF PartOf
<1> QED  BY <1>10
-----------------------------------------------------------------------------
(***************************************************************************)
(* What others write.                                                      *)
(***************************************************************************)

(* A step leaves the rows it keeps in their order.                         *)
KeepsOrder ==
    \A k, l \in DOMAIN rows \cap DOMAIN rows' :
        Before(rows', reader.listing, l, k) <=> Before(rows, reader.listing, l, k)

LEMMA Observed ==
    ASSUME Inv, TypeOK', Observe(rows, rows')
    PROVE  /\ ~reader.ended
           /\ reader'.listing = reader.listing /\ reader'.offset = reader.offset
           /\ reader'.reading = reader.reading /\ reader'.ended = reader.ended
           /\ reader'.cut = reader.cut
           /\ reader'.there = reader.there \cap DOMAIN rows'
           /\ reader'.seen = reader.seen \cap DOMAIN rows'
           /\ reader'.repeated = reader.repeated \cap DOMAIN rows'
           /\ pushed \cap DOMAIN rows' \subseteq pushed'
           /\ pulled \cap DOMAIN rows' \subseteq pulled'
           /\ tied \cap DOMAIN rows' \subseteq tied'
BY DEF Inv, TypeOK, Observe

(* Whoever is behind a new row was pushed, whoever is behind one that went *)
(* away was pulled.                                                        *)
LEMMA Noted ==
    ASSUME Inv, TypeOK', Observe(rows, rows'), reader.reading
    PROVE  /\ \A k \in DOMAIN rows' : \A l \in DOMAIN rows' \ DOMAIN rows :
                 Before(rows', reader.listing, l, k) => k \in pushed'
           /\ \A k \in DOMAIN rows \cap DOMAIN rows' : \A l \in DOMAIN rows \ DOMAIN rows' :
                 Before(rows, reader.listing, l, k) => k \in pulled'
           /\ TiedIn(rows', reader.listing) \subseteq tied'
<1>1. /\ pushed' = (pushed \cup {k \in DOMAIN rows' : \E l \in DOMAIN rows' \ DOMAIN rows :
                                    Before(rows', reader.listing, l, k)}) \cap DOMAIN rows'
      /\ pulled' = (pulled \cup {k \in DOMAIN rows : \E l \in DOMAIN rows \ DOMAIN rows' :
                                    Before(rows, reader.listing, l, k)}) \cap DOMAIN rows'
      /\ tied' = (tied \cup TiedIn(rows', reader.listing)) \cap DOMAIN rows'
  BY DEF Observe
<1>2. TiedIn(rows', reader.listing) \subseteq DOMAIN rows'
  BY DEF TiedIn
<1> QED  BY <1>1, <1>2

LEMMA WriteInv ==
    ASSUME Inv, TypeOK', Observe(rows, rows'), KeepsOrder
    PROVE  Inv'
<1>1. (reader.there \cup reader.seen \subseteq DOMAIN rows)'
  BY Observed
<1>2. (reader.cut => reader.listing = "collections")'
  BY Observed DEF Inv
<1>3. RepeatedOnlyIfMoved'
  BY Observed DEF Inv, RepeatedOnlyIfMoved
<1>4. SkippedOnlyIfMoved'
  BY Observed DEF SkippedOnlyIfMoved
<1>5. ASSUME reader.reading
      PROVE  /\ TiedIn(rows', reader'.listing) \subseteq tied'
             /\ SeenAhead'
             /\ UnseenBehind'
  <2> USE <1>5
  <2>1. TiedIn(rows', reader'.listing) \subseteq tied'
    BY Observed, Noted
  <2>2. \A k : Ahead(k)' = {l \in DOMAIN rows' : Before(rows', reader.listing, l, k)}
    BY Observed DEF Ahead
  <2>3. \A k : IsFiniteSet(Ahead(k)')
    <3>1. DOMAIN rows' \subseteq Key /\ IsFiniteSet(Key)
      BY QueriesAssumption DEF TypeOK
    <3>2. \A k : Ahead(k)' \in SUBSET Key
      BY <2>2, <3>1
    <3> QED  BY <3>1, <3>2, FS_Subset
  <2>4. reader.offset \in Nat
    BY DEF Inv, TypeOK
  <2>5. ASSUME NEW k \in reader'.seen \ pushed' PROVE Position(k)' < reader'.offset
    <3>1. k \in reader.seen \ pushed /\ k \in DOMAIN rows /\ k \in DOMAIN rows'
      BY <2>5, Observed DEF Inv
    <3>2. Position(k) < reader.offset
      BY <3>1 DEF Inv, SeenAhead
    <3>3. Ahead(k)' \subseteq Ahead(k)
      BY <2>2, <2>5, <3>1, Noted DEF Ahead, KeepsOrder
    <3>4. IsFiniteSet(Ahead(k)) /\ Position(k) \in Nat
      BY AheadFinite DEF Inv
    <3>5. Position(k)' <= Position(k) /\ Position(k)' \in Nat
      BY <2>3, <3>3, <3>4, FS_Subset, FS_CardinalityType DEF Position
    <3> QED  BY <2>4, <3>2, <3>4, <3>5, Observed
  <2>6. ASSUME ~reader'.cut, NEW k \in reader'.there \ (reader'.seen \cup pulled' \cup tied')
        PROVE  Position(k)' >= reader'.offset
    <3>1. /\ k \in reader.there \ (reader.seen \cup pulled \cup tied)
          /\ k \in DOMAIN rows /\ k \in DOMAIN rows'
      BY <2>6, Observed DEF Inv
    <3>2. Position(k) >= reader.offset
      BY <2>6, <3>1, Observed DEF Inv, UnseenBehind
    <3>3. Ahead(k) \subseteq Ahead(k)'
      BY <2>2, <2>6, <3>1, Noted DEF Ahead, KeepsOrder
    <3>4. Position(k) \in Nat
      BY AheadFinite DEF Inv
    <3>5. Position(k) <= Position(k)' /\ Position(k)' \in Nat
      BY <2>3, <3>3, FS_Subset, FS_CardinalityType DEF Position
    <3> QED  BY <2>4, <3>2, <3>4, <3>5, Observed
  <2> QED  BY <2>1, <2>5, <2>6 DEF SeenAhead, UnseenBehind
<1> QED  BY <1>1, <1>2, <1>3, <1>4, <1>5, Observed DEF Inv
-----------------------------------------------------------------------------
(***************************************************************************)
(* The operations.                                                         *)
(***************************************************************************)
LEMMA ContentsAreContent ==
    ASSUME TypeOK, NEW listing
    PROVE  ContentsWhile(listing) \subseteq Content(metric)
<1>1. Distances[metric] # {} /\ Ranks # {}
  BY QueriesAssumption DEF TypeOK
<1>2. PICK d \in Distances[metric], r \in Ranks : TRUE
  BY <1>1
<1>3. [distance |-> d, rank |-> r, tagged |-> TRUE] \in Content(metric)
  BY DEF Content
<1>4. Plain(metric) \in Content(metric)
  BY <1>3 DEF Plain
<1> QED  BY <1>4 DEF ContentsWhile

LEMMA ObservedType ==
    ASSUME Inv, Observe(rows, rows'), DOMAIN rows' \subseteq Key
    PROVE  /\ reader' \in [listing : Listings, offset : Nat, reading : BOOLEAN,
                           ended : BOOLEAN, cut : BOOLEAN, there : SUBSET Key,
                           seen : SUBSET Key, repeated : SUBSET Key]
           /\ {pushed', pulled', tied'} \subseteq SUBSET Key
           /\ reader'.listing = reader.listing
<1>1. /\ reader \in [listing : Listings, offset : Nat, reading : BOOLEAN,
                     ended : BOOLEAN, cut : BOOLEAN, there : SUBSET Key,
                     seen : SUBSET Key, repeated : SUBSET Key]
  BY DEF Inv, TypeOK
<1>2. reader' = [reader EXCEPT !.there = @ \cap DOMAIN rows', !.seen = @ \cap DOMAIN rows',
                               !.repeated = @ \cap DOMAIN rows']
  BY DEF Observe
<1>3. pushed' \subseteq DOMAIN rows' /\ pulled' \subseteq DOMAIN rows' /\ tied' \subseteq DOMAIN rows'
  BY DEF Observe
<1> QED  BY <1>1, <1>2, <1>3

LEMMA InsertInv ==
    ASSUME Inv, Insert
    PROVE  Inv'
<1> PICK S \in SUBSET (Key \ DOMAIN rows), begun \in {clock, clock - 1} \cap 1..MaxTime :
       \E contents \in [S -> ContentsWhile(reader.listing)] :
          rows' = [k \in DOMAIN rows \cup S |->
                      IF k \in DOMAIN rows THEN rows[k] ELSE NewRow(contents[k], begun)]
  BY DEF Insert
<1>1. PICK contents \in [S -> ContentsWhile(reader.listing)] :
         rows' = [k \in DOMAIN rows \cup S |->
                     IF k \in DOMAIN rows THEN rows[k] ELSE NewRow(contents[k], begun)]
  OBVIOUS
<1>2. Observe(rows, rows') /\ metric' = metric /\ clock' = clock
  BY DEF Insert
<1>3. \A k \in S : NewRow(contents[k], begun) \in Row(metric)
  <2>1. \A k \in S : contents[k] \in Content(metric)
    BY <1>1, ContentsAreContent DEF Inv
  <2> QED  BY <2>1 DEF NewRow, Row, Content
<1>4. /\ DOMAIN rows' = DOMAIN rows \cup S
      /\ DOMAIN rows' \subseteq Key
      /\ \A k \in DOMAIN rows' : rows'[k] \in Row(metric)
  BY <1>1, <1>3 DEF Inv, TypeOK
<1>5. TypeOK'
  BY <1>2, <1>4, ObservedType DEF Inv, TypeOK
<1>6. KeepsOrder
  BY <1>1, <1>4 DEF KeepsOrder, Before
<1> QED  BY <1>2, <1>5, <1>6, WriteInv

LEMMA UpdateInv ==
    ASSUME Inv, Update
    PROVE  Inv'
<1>1. PICK k \in DOMAIN rows, c \in ContentsWhile(reader.listing) :
         rows' = [rows EXCEPT ![k] = [@ EXCEPT !.distance = c.distance, !.rank = c.rank,
                                                !.tagged = c.tagged, !.updated_at = clock]]
  BY DEF Update
<1>2. Observe(rows, rows') /\ metric' = metric /\ clock' = clock
  BY DEF Update
<1>3. rows[k] \in Row(metric) /\ c \in Content(metric) /\ clock \in 1..MaxTime
  BY ContentsAreContent DEF Inv, TypeOK
<1>4. [rows[k] EXCEPT !.distance = c.distance, !.rank = c.rank, !.tagged = c.tagged,
                      !.updated_at = clock] \in Row(metric)
  BY <1>3 DEF Row, Content
<1>5. /\ DOMAIN rows' = DOMAIN rows
      /\ DOMAIN rows' \subseteq Key
      /\ \A l \in DOMAIN rows' : rows'[l] \in Row(metric)
  BY <1>1, <1>4 DEF Inv, TypeOK
<1>6. TypeOK'
  BY <1>2, <1>5, ObservedType DEF Inv, TypeOK
<1>7. \A l \in DOMAIN rows : rows'[l].created_at = rows[l].created_at
  BY <1>1, <1>3 DEF Row
<1>8. KeepsOrder
  BY <1>7 DEF KeepsOrder, Before
<1> QED  BY <1>2, <1>6, <1>8, WriteInv

LEMMA DeleteInv ==
    ASSUME Inv, Delete
    PROVE  Inv'
<1>1. PICK k \in DOMAIN rows : rows' = [l \in DOMAIN rows \ {k} |-> rows[l]]
  BY DEF Delete
<1>2. Observe(rows, rows') /\ metric' = metric /\ clock' = clock
  BY DEF Delete
<1>3. /\ DOMAIN rows' = DOMAIN rows \ {k}
      /\ DOMAIN rows' \subseteq Key
      /\ \A l \in DOMAIN rows' : rows'[l] \in Row(metric)
  BY <1>1 DEF Inv, TypeOK
<1>4. TypeOK'
  BY <1>2, <1>3, ObservedType DEF Inv, TypeOK
<1>5. KeepsOrder
  BY <1>1, <1>3 DEF KeepsOrder, Before
<1> QED  BY <1>2, <1>4, <1>5, WriteInv

LEMMA StartReadingInv ==
    ASSUME Inv, StartReading
    PROVE  Inv'
<1>1. /\ reader' = [reader EXCEPT !.offset = 0, !.reading = TRUE, !.ended = FALSE, !.cut = FALSE,
                                  !.there = DOMAIN rows, !.seen = {}, !.repeated = {}]
      /\ pushed' = {} /\ pulled' = {} /\ tied' = TiedIn(rows, reader.listing)
      /\ rows' = rows /\ metric' = metric /\ clock' = clock
  BY DEF StartReading
<1>2. TypeOK'
  <2>1. TiedIn(rows, reader.listing) \subseteq DOMAIN rows
    BY DEF TiedIn
  <2> QED  BY <1>1, <2>1 DEF Inv, TypeOK
<1>3. /\ reader'.listing = reader.listing /\ reader'.offset = 0
      /\ ~reader'.ended /\ ~reader'.cut
      /\ reader'.there = DOMAIN rows /\ reader'.seen = {} /\ reader'.repeated = {}
  BY <1>1 DEF Inv, TypeOK
<1>4. SeenAhead'
  BY <1>3 DEF SeenAhead
<1>5. UnseenBehind'
  <2>1. ASSUME NEW k PROVE Position(k)' >= 0
    <3>1. Position(k)' = Position(k)
      BY <1>1, <1>3 DEF Position, Ahead
    <3> QED  BY <3>1, AheadFinite DEF Inv
  <2> QED  BY <1>3, <2>1 DEF UnseenBehind
<1>6. RepeatedOnlyIfMoved' /\ SkippedOnlyIfMoved'
  BY <1>3 DEF RepeatedOnlyIfMoved, SkippedOnlyIfMoved
<1>7. (TiedIn(rows, reader.listing) \subseteq tied)'
  BY <1>1, <1>3
<1> QED  BY <1>1, <1>2, <1>3, <1>4, <1>5, <1>6, <1>7 DEF Inv

LEMMA LimitsPositive ==
    ASSUME NEW listing, NEW asked \in (-1)..(MaxLimit + 1)
    PROVE  Limits(listing, asked) \subseteq Nat \ {0}
<1>1. MaxLimit \in Nat /\ DefaultLimit \in 1..MaxLimit
  BY QueriesAssumption
<1> QED  BY <1>1 DEF Limits, CollectionLimits, DocumentLimits

(* What arrived of a page is the beginning of it.                          *)
LEMMA ReceivedIsBeginning ==
    ASSUME NEW T, NEW full \in Seq(T), NEW listing, NEW page \in Received(listing, full)
    PROVE  /\ page \in Seq(T)
           /\ Len(page) <= Len(full)
           /\ \A i \in 1..Len(page) : page[i] = full[i]
           /\ listing # "collections" => page = full
           /\ Range(page) = {page[i] : i \in 1..Len(page)}
<1>1. CASE page = full
  BY <1>1 DEF Range
<1>2. CASE listing = "collections" /\ \E n \in 0..Len(full) : page = SubSeq(full, 1, n)
  <2>1. PICK n \in 0..Len(full) : page = SubSeq(full, 1, n)
    BY <1>2
  <2>2. n \in Nat /\ n <= Len(full) /\ \A i \in 1..n : full[i] \in T
    OBVIOUS
  <2>3. page \in Seq(T) /\ Len(page) = n /\ \A i \in 1..n : page[i] = full[i]
    BY <2>1, <2>2, SubSeqProperties
  <2>4. DOMAIN page = 1..Len(page)
    BY <2>3
  <2>5. Range(page) = {page[i] : i \in 1..Len(page)}
    BY <2>4 DEF Range
  <2> QED  BY <1>2, <2>2, <2>3, <2>5
<1> QED  BY <1>1, <1>2 DEF Received

LEMMA ReadPageInv ==
    ASSUME Inv, ReadPage
    PROVE  Inv'
<1> DEFINE Reads(full, page) ==
              reader' = [reader EXCEPT !.offset = @ + Len(page),
                                       !.reading = page # << >>,
                                       !.ended = page = << >>,
                                       !.cut = @ \/ page # full,
                                       !.seen = @ \cup Range(page),
                                       !.repeated = @ \cup (Range(page) \cap reader.seen)]
<1>1. PICK limit \in Nat \ {0} :
         \E full \in Pages(rows, reader.listing, limit, reader.offset) :
         \E page \in Received(reader.listing, full) : Reads(full, page)
  <2>1. PICK asked \in (-1)..(MaxLimit + 1) :
           \E limit \in Limits(reader.listing, asked) :
           \E full \in Pages(rows, reader.listing, limit, reader.offset) :
           \E page \in Received(reader.listing, full) : Reads(full, page)
    BY DEF ReadPage
  <2>2. PICK limit \in Limits(reader.listing, asked) :
           \E full \in Pages(rows, reader.listing, limit, reader.offset) :
           \E page \in Received(reader.listing, full) : Reads(full, page)
    BY <2>1
  <2>3. limit \in Nat \ {0}
    BY LimitsPositive
  <2> HIDE DEF Reads
  <2> QED  BY <2>2, <2>3
<1>2. PICK full \in Pages(rows, reader.listing, limit, reader.offset) :
         \E page \in Received(reader.listing, full) : Reads(full, page)
  BY <1>1
<1>3. PICK page \in Received(reader.listing, full) : Reads(full, page)
  BY <1>2
<1> DEFINE offset == reader.offset
<1>4. /\ reader.reading
      /\ rows' = rows /\ metric' = metric /\ clock' = clock
      /\ pushed' = pushed /\ pulled' = pulled /\ tied' = tied
  BY DEF ReadPage
<1>5. /\ TypeOK /\ offset \in Nat
      /\ TiedIn(rows, reader.listing) \subseteq tied
      /\ SeenAhead /\ UnseenBehind
  BY <1>4 DEF Inv, TypeOK
<1>6. PICK n, s : PartOf(full, offset, n, s)
  BY <1>5, PageIsPart
<1>7. /\ n \in Nat /\ full \in Seq(DOMAIN rows) /\ Len(full) \in Nat
      /\ Len(full) = IF offset < n THEN n - offset ELSE 0
      /\ \A i \in 1..Len(full) : full[i] = s[offset + i]
      /\ Sorted(n, s)
  BY <1>6 DEF PartOf, Sorted
<1>8. /\ page \in Seq(DOMAIN rows) /\ Len(page) \in Nat
      /\ Len(page) <= Len(full)
      /\ \A i \in 1..Len(page) : page[i] = full[i]
      /\ reader.listing # "collections" => page = full
      /\ Range(page) = {page[i] : i \in 1..Len(page)}
  BY <1>7, ReceivedIsBeginning
<1>9. /\ reader'.listing = reader.listing /\ reader'.offset = offset + Len(page)
      /\ reader'.reading = (page # << >>) /\ reader'.ended = (page = << >>)
      /\ reader'.cut = (reader.cut \/ page # full)
      /\ reader'.there = reader.there
      /\ reader'.seen = reader.seen \cup Range(page)
      /\ reader'.repeated = reader.repeated \cup (Range(page) \cap reader.seen)
  BY <1>3, <1>5 DEF TypeOK
<1>10. \A i \in 1..Len(page) : offset + i \in 1..n /\ page[i] = s[offset + i]
  BY <1>5, <1>7, <1>8
<1>11. Range(page) \subseteq DOMAIN rows
  BY <1>8
<1>12. TypeOK'
  <2>1. reader'.offset \in Nat /\ reader'.reading \in BOOLEAN /\ reader'.ended \in BOOLEAN
        /\ reader'.cut \in BOOLEAN /\ reader'.seen \subseteq Key /\ reader'.repeated \subseteq Key
    BY <1>5, <1>8, <1>9, <1>11 DEF TypeOK
  <2>2. reader' \in [listing : Listings, offset : Nat, reading : BOOLEAN,
                     ended : BOOLEAN, cut : BOOLEAN, there : SUBSET Key, seen : SUBSET Key,
                     repeated : SUBSET Key]
    BY <1>3, <1>5, <2>1 DEF TypeOK
  <2> QED  BY <1>4, <1>5, <2>2 DEF TypeOK
<1>13. (reader.there \cup reader.seen \subseteq DOMAIN rows)'
  BY <1>4, <1>9, <1>11 DEF Inv
<1>14. (reader.cut => reader.listing = "collections")'
  BY <1>8, <1>9 DEF Inv
<1>15. \A k : Position(k)' = Position(k)
  BY <1>4, <1>9 DEF Position, Ahead
<1> HIDE DEF offset
<1>16. (TiedIn(rows, reader.listing) \subseteq tied)'
  BY <1>4, <1>5, <1>9
<1>17. SeenAhead'
  <2> SUFFICES ASSUME NEW k \in (reader.seen \cup Range(page)) \ pushed
               PROVE  Position(k) < offset + Len(page)
    BY <1>4, <1>9, <1>15 DEF SeenAhead
  <2>1. CASE k \in reader.seen
    BY <1>5, <1>8, <2>1, AheadFinite DEF SeenAhead, offset
  <2>2. CASE k \in Range(page)
    <3>1. PICK i \in 1..Len(page) : k = page[i]
      BY <1>8, <2>2
    <3>2. Position(k) <= offset + i - 1
      BY <1>5, <1>7, <1>10, <3>1, PositionAtMost
    <3> QED  BY <1>5, <1>8, <3>2, AheadFinite
  <2> QED  BY <2>1, <2>2
<1>18. UnseenBehind'
  <2> SUFFICES ASSUME ~reader'.cut,
                      NEW k \in reader'.there \ (reader'.seen \cup pulled' \cup tied')
               PROVE  Position(k)' >= reader'.offset
    BY DEF UnseenBehind
  <2>1. /\ ~reader.cut /\ page = full
        /\ k \in reader.there \ (reader.seen \cup Range(page) \cup pulled \cup tied)
    BY <1>4, <1>9
  <2>2. Position(k) >= offset /\ Position(k) \in Nat
    BY <1>5, <2>1, AheadFinite DEF UnseenBehind, offset
  <2>3. k \in DOMAIN rows /\ ~Tied(k)
    BY <1>5, <2>1 DEF Inv, Tied
  <2>4. ASSUME \A i \in 1..n : s[i] # k PROVE Position(k) >= offset + Len(page)
    <3>1. Position(k) >= n
      BY <1>5, <1>7, <2>3, <2>4, PositionBehind
    <3> QED  BY <1>5, <1>7, <2>1, <2>2, <3>1
  <2>5. ASSUME NEW i \in 1..n, s[i] = k PROVE FALSE
    <3>1. Position(k) <= i - 1
      BY <1>5, <1>7, <2>5, PositionAtMost
    <3>2. i - offset \in 1..Len(full)
      BY <1>5, <1>7, <2>2, <3>1
    <3>3. full[i - offset] = s[offset + (i - offset)] /\ offset + (i - offset) = i
      BY <1>5, <1>7, <3>2
    <3>4. k \in Range(page)
      BY <1>8, <2>1, <2>5, <3>2, <3>3
    <3> QED  BY <2>1, <3>4
  <2>6. Position(k) >= offset + Len(page)
    BY <2>4, <2>5
  <2> QED  BY <1>9, <1>15, <2>6
<1>19. RepeatedOnlyIfMoved'
  <2> SUFFICES ASSUME NEW k \in Range(page) \cap reader.seen, k \notin pushed, k \notin tied
               PROVE  FALSE
    BY <1>4, <1>9 DEF Inv, RepeatedOnlyIfMoved
  <2>1. Position(k) < offset /\ Position(k) \in Nat
    BY <1>5, AheadFinite DEF SeenAhead, offset
  <2>2. ~Tied(k)
    BY <1>5 DEF Tied
  <2>3. PICK i \in 1..Len(page) : k = page[i]
    BY <1>8
  <2>4. Position(k) >= offset + i - 1
    BY <1>5, <1>7, <1>10, <2>2, <2>3, PositionAtLeast
  <2> QED  BY <1>5, <1>8, <2>1, <2>4
<1>20. SkippedOnlyIfMoved'
  <2> SUFFICES ASSUME page = << >>, ~reader.cut, page = full,
                      NEW k \in reader.there \ reader.seen, k \notin pulled, k \notin tied
               PROVE  FALSE
    BY <1>4, <1>8, <1>9, <1>14 DEF SkippedOnlyIfMoved
  <2>1. Position(k) >= offset /\ Position(k) \in Nat
    BY <1>5, AheadFinite DEF UnseenBehind, offset
  <2>2. k \in DOMAIN rows
    BY DEF Inv
  <2>3. PICK i \in 1..n : s[i] = k
    BY <1>6, <2>2 DEF PartOf
  <2>4. Position(k) <= i - 1
    BY <1>5, <1>7, <2>3, PositionAtMost
  <2>5. n <= offset
    BY <1>5, <1>7
  <2> QED  BY <1>5, <1>7, <2>1, <2>4, <2>5
<1> QED  BY <1>12, <1>13, <1>14, <1>16, <1>17, <1>18, <1>19, <1>20 DEF Inv
-----------------------------------------------------------------------------
LEMMA InitInv == Init => Inv
<1> SUFFICES ASSUME Init PROVE Inv
  OBVIOUS
<1>1. TypeOK
  <2>1. 1 \in 1..MaxTime
    BY QueriesAssumption
  <2> QED  BY <2>1 DEF Init, TypeOK, Listings
<1> QED  BY <1>1 DEF Init, Inv, RepeatedOnlyIfMoved, SkippedOnlyIfMoved

LEMMA InvStutters ==
    ASSUME Inv, UNCHANGED <<rows, metric, reader, pushed, pulled, tied>>, clock' \in 1..MaxTime
    PROVE  Inv'
<1>1. TypeOK'
  BY DEF Inv, TypeOK
<1>2. \A k : Position(k)' = Position(k)
  BY DEF Position, Ahead
<1>3. reader.reading => SeenAhead' /\ UnseenBehind'
  BY <1>2 DEF Inv, SeenAhead, UnseenBehind
<1> QED  BY <1>1, <1>3 DEF Inv, RepeatedOnlyIfMoved, SkippedOnlyIfMoved

LEMMA NextInv == Inv /\ [Next]_vars => Inv'
<1> SUFFICES ASSUME Inv, [Next]_vars PROVE Inv'
  OBVIOUS
<1>1. CASE Tick
  <2>1. clock' \in 1..MaxTime
    BY <1>1, QueriesAssumption DEF Tick, Inv, TypeOK
  <2> QED  BY <1>1, <2>1, InvStutters DEF Tick
<1>2. CASE UNCHANGED vars
  BY <1>2, InvStutters DEF vars, Inv, TypeOK
<1> QED  BY <1>1, <1>2, InsertInv, UpdateInv, DeleteInv, StartReadingInv, ReadPageInv DEF Next

LEMMA InvAlways == Spec => []Inv
BY InitInv, NextInv, PTL DEF Spec

(* Every variable keeps its type.                                          *)
THEOREM QueriesTypeOK == Spec => []TypeOK
BY InvAlways, PTL DEF Inv

(* A row that is untied and in front of which nothing was inserted is in   *)
(* one page of documents or collections at most.                           *)
THEOREM QueriesRepeatedOnlyIfMoved == Spec => []RepeatedOnlyIfMoved
BY InvAlways, PTL DEF Inv

(* A row that was there from the beginning to the end of the reading is in *)
(* a page, or was tied or pulled, or a page of collections was cut off.    *)
THEOREM QueriesSkippedOnlyIfMoved == Spec => []SkippedOnlyIfMoved
BY InvAlways, PTL DEF Inv
-----------------------------------------------------------------------------
(***************************************************************************)
(* The searches.                                                           *)
(***************************************************************************)
LEMMA LeastNatural ==
    ASSUME NEW T, T \subseteq Nat, T # {}
    PROVE  \E m \in T : \A k \in T : m <= k
<1>1. \E m \in T : \A k \in T : ~(<<k, m>> \in OpToRel(<, Nat))
  BY NatLessThanWellFounded, WFMin
<1>2. PICK m \in T : \A k \in T : ~(<<k, m>> \in OpToRel(<, Nat))
  BY <1>1
<1>3. ASSUME NEW k \in T PROVE m <= k
  <2>1. k < m => <<k, m>> \in OpToRel(<, Nat)
    BY DEF OpToRel
  <2>2. ~(k < m) /\ k \in Nat /\ m \in Nat
    BY <1>2, <2>1
  <2> QED  BY <2>2
<1> QED  BY <1>3

(* A division by more gives no more.                                       *)
LEMMA DivisionAntitone ==
    ASSUME NEW a \in Nat \ {0}, NEW b \in Nat \ {0}, a <= b
    PROVE  10000 \div a >= 10000 \div b
<1> DEFINE p == 10000 \div a
           q == 10000 \div b
<1>1. p \in Nat /\ q \in Nat
  OBVIOUS
<1>2. 10000 < a * (p + 1)
  OBVIOUS
<1>3. b * q <= 10000
  OBVIOUS
<1> HIDE DEF p, q
<1>4. SUFFICES ASSUME p + 1 <= q PROVE FALSE
  BY <1>1 DEF p, q
<1>5. a * (p + 1) <= a * q
  BY <1>1, <1>4
<1>6. a * q <= b * q
  BY <1>1
<1>7. a * (p + 1) \in Int /\ a * q \in Int /\ b * q \in Int
  BY <1>1
<1> QED  BY <1>2, <1>3, <1>5, <1>6, <1>7

(* Documents that are nearer have no lower a score.                        *)
LEMMA SimilarityAntitone ==
    ASSUME TypeOK, NEW d \in Distances[metric] \ {NaN}, NEW e \in Distances[metric] \ {NaN},
           d <= e
    PROVE  /\ Similarity(metric, d) \in Int /\ Similarity(metric, e) \in Int
           /\ Similarity(metric, d) >= Similarity(metric, e)
<1>1. metric \in {"cosine", "euclidean", "inner_product"}
  BY DEF TypeOK, Metrics
<1>2. d \in Int /\ e \in Int
  BY QueriesAssumption DEF TypeOK
<1>3. CASE metric = "euclidean"
  <2>1. d \in Nat /\ e \in Nat
    BY <1>3, QueriesAssumption
  <2>2. 10000 \div (100 + d) >= 10000 \div (100 + e)
    BY <2>1, DivisionAntitone
  <2>3. 10000 \div (100 + d) \in Int /\ 10000 \div (100 + e) \in Int
    BY <2>1
  <2> QED  BY <1>3, <2>2, <2>3 DEF Similarity
<1>4. CASE metric = "inner_product"
  BY <1>2, <1>4 DEF Similarity
<1>5. CASE metric = "cosine"
  BY <1>2, <1>5 DEF Similarity
<1> QED  BY <1>1, <1>3, <1>4, <1>5

(* What a search asks for, and what an answer to it is.                    *)
Candidates(r) ==
    {d \in Filtered(rows, r.filter) : r.min_threshold > 0 => ~Greater(r.min_threshold, Score(d))}

NumberOf(r) ==
    LET n == Cardinality(Candidates(r))
    IN  IF TopK(r.top_k) < n THEN TopK(r.top_k) ELSE n

Nearest(n, S, s) ==
    /\ s \in [1..n -> S]
    /\ \A i, j \in 1..n : i < j => s[i] # s[j] /\ ~Greater(rows[s[i]].distance, rows[s[j]].distance)
    /\ \A d \in S \ Range(s), i \in 1..n : ~Greater(rows[s[i]].distance, rows[d].distance)

LEMMA Answers ==
    ASSUME NEW r \in Requests, NEW s
    PROVE  s \in Search(rows, metric, r) <=> Nearest(NumberOf(r), Candidates(r), s)
<1>1. r.top_k \in 0..MaxTopK /\ r.min_threshold \in 0..100
  BY DEF Requests
<1>2. Search(rows, metric, r) =
         First(TopK(r.top_k), Candidates(r),
               LAMBDA d, e : Greater(rows[e].distance, rows[d].distance))
  BY <1>1 DEF Search, Candidates, Score
<1> QED  BY <1>2 DEF First, Nearest, NumberOf

LEMMA CandidatesFinite ==
    ASSUME TypeOK, NEW r \in Requests
    PROVE  /\ Candidates(r) \subseteq DOMAIN rows
           /\ IsFiniteSet(Candidates(r))
           /\ Cardinality(Candidates(r)) \in Nat
           /\ TopK(r.top_k) \in Nat
           /\ NumberOf(r) \in Nat
<1>1. Candidates(r) \in SUBSET DOMAIN rows
  BY DEF Candidates, Filtered
<1>2. TopK(r.top_k) \in Nat
  <2>1. r.top_k \in 0..MaxTopK /\ DefaultTopK \in 1..MaxTopK
    BY RankingAssumption DEF Requests
  <2> QED  BY <2>1 DEF TopK
<1> QED  BY <1>1, <1>2, TableFinite, FS_Subset, FS_CardinalityType DEF NumberOf

LEMMA ScoresDescend ==
    ASSUME TypeOK, NEW k \in DOMAIN rows, NEW l \in DOMAIN rows,
           ~Greater(rows[k].distance, rows[l].distance), rows[l].distance # NaN
    PROVE  Score(k) \in Int /\ Score(l) \in Int /\ Score(k) >= Score(l)
<1>1. rows[k].distance \in Distances[metric] /\ rows[l].distance \in Distances[metric]
  BY DEF TypeOK, Row
<1>2. Distances[metric] \subseteq Int \cup {NaN}
  BY QueriesAssumption DEF TypeOK
<1>3. rows[k].distance # NaN
  BY DEF Greater
<1>4. rows[k].distance \in Int /\ rows[l].distance \in Int
  BY <1>1, <1>2, <1>3
<1>5. rows[k].distance <= rows[l].distance
  BY <1>3, <1>4 DEF Greater
<1> QED  BY <1>1, <1>3, <1>5, SimilarityAntitone DEF Score

LEMMA BestFirst ==
    ASSUME TypeOK, NEW r \in Requests, NEW s, Nearest(NumberOf(r), Candidates(r), s),
           NEW i \in DOMAIN s, NEW j \in DOMAIN s, i < j, Score(s[i]) # Score(s[j])
    PROVE  Score(s[j]) = NaN \/ Greater(Score(s[i]), Score(s[j]))
<1>1. /\ s[i] \in DOMAIN rows /\ s[j] \in DOMAIN rows
      /\ ~Greater(rows[s[i]].distance, rows[s[j]].distance)
  BY CandidatesFinite DEF Nearest
<1>2. CASE rows[s[j]].distance = NaN
  BY <1>2 DEF Score, Similarity
<1>3. CASE rows[s[j]].distance # NaN
  <2>1. Score(s[i]) \in Int /\ Score(s[j]) \in Int /\ Score(s[i]) >= Score(s[j])
    BY <1>1, <1>3, ScoresDescend
  <2> QED  BY <2>1, RankingAssumption DEF Greater
<1> QED  BY <1>2, <1>3

(* A part of 1..m that holds what is below its members is a beginning.     *)
LEMMA Beginning ==
    ASSUME NEW m \in Nat, NEW A, A \subseteq 1..m,
           \A i \in A : \A j \in 1..m : j < i => j \in A
    PROVE  \E n \in 0..m : \A i \in 1..m : i \in A <=> i <= n
<1>1. CASE \A i \in 1..m : i \in A
  <2>1. m \in 0..m /\ \A i \in 1..m : i \in A <=> i <= m
    BY <1>1
  <2> QED  BY <2>1
<1>2. CASE \E i \in 1..m : i \notin A
  <2> DEFINE rest == {i \in 1..m : i \notin A}
  <2>1. PICK least \in rest : \A k \in rest : least <= k
    <3>1. rest \subseteq Nat /\ rest # {}
      BY <1>2
    <3> QED  BY <3>1, LeastNatural
  <2>2. least - 1 \in 0..m
    OBVIOUS
  <2>3. ASSUME NEW i \in 1..m PROVE i \in A <=> i <= least - 1
    BY <2>1
  <2> QED  BY <2>2, <2>3
<1> QED  BY <1>1, <1>2

(* A threshold keeps the beginning of the list without it.                 *)
LEMMA CutsOff ==
    ASSUME TypeOK, NoZeroVectors, NEW r \in Requests, r.min_threshold > 0,
           NEW s, Nearest(NumberOf([r EXCEPT !.min_threshold = 0]),
                          Candidates([r EXCEPT !.min_threshold = 0]), s)
    PROVE  \E n \in 0..Len(s) :
              /\ Nearest(NumberOf(r), Candidates(r), SubSeq(s, 1, n))
              /\ \A i \in DOMAIN s : i <= n <=> Score(s[i]) >= r.min_threshold
<1> DEFINE all == [r EXCEPT !.min_threshold = 0]
           C == Candidates(all)
           D == Candidates(r)
           m == NumberOf(all)
           limit == TopK(r.top_k)
           t == r.min_threshold
<1>1. all \in Requests /\ t \in Int
  BY DEF Requests
<1>2. /\ C \subseteq DOMAIN rows /\ IsFiniteSet(C) /\ Cardinality(C) \in Nat
      /\ D \subseteq DOMAIN rows /\ IsFiniteSet(D) /\ Cardinality(D) \in Nat
      /\ limit \in Nat /\ m \in Nat
  BY <1>1, CandidatesFinite
<1>3. /\ m = IF limit < Cardinality(C) THEN limit ELSE Cardinality(C)
      /\ NumberOf(r) = IF limit < Cardinality(D) THEN limit ELSE Cardinality(D)
  <2>1. all.top_k = r.top_k
    BY DEF Requests
  <2> QED  BY <2>1 DEF NumberOf
<1>4. D = {d \in C : Score(d) >= t}
  <2>1. C = Filtered(rows, r.filter)
    BY DEF Candidates, Requests
  <2>2. D = {d \in Filtered(rows, r.filter) : ~Greater(t, Score(d))}
    BY DEF Candidates
  <2>3. ASSUME NEW d \in C PROVE ~Greater(t, Score(d)) <=> Score(d) >= t
    <3>1. d \in DOMAIN rows /\ rows[d].distance # NaN
      BY <1>2, <2>3 DEF NoZeroVectors
    <3>2. Score(d) \in Int
      <4>1. rows[d].distance \in Int
        BY <3>1, QueriesAssumption DEF TypeOK, Row
      <4>2. ~Greater(rows[d].distance, rows[d].distance)
        BY <4>1 DEF Greater
      <4> QED  BY <3>1, <4>2, ScoresDescend
    <3> QED  BY <1>1, <3>2, RankingAssumption DEF Greater
  <2> QED  BY <2>1, <2>2, <2>3
<1>5. /\ s \in [1..m -> C]
      /\ \A i, j \in 1..m : i < j => s[i] # s[j]
                                  /\ ~Greater(rows[s[i]].distance, rows[s[j]].distance)
      /\ \A d \in C \ Range(s), i \in 1..m : ~Greater(rows[s[i]].distance, rows[d].distance)
  BY DEF Nearest
<1> HIDE DEF C, D, m, limit, t
<1>6. \A d, e \in C : ~Greater(rows[d].distance, rows[e].distance) =>
          Score(d) \in Int /\ Score(e) \in Int /\ Score(d) >= Score(e)
  BY <1>2, ScoresDescend DEF NoZeroVectors
<1> DEFINE A == {i \in 1..m : Score(s[i]) >= t}
<1>7. PICK n \in 0..m : \A i \in 1..m : i \in A <=> i <= n
  <2>1. \A i \in A : \A j \in 1..m : j < i => j \in A
    BY <1>1, <1>5, <1>6
  <2>2. A \subseteq 1..m
    OBVIOUS
  <2> HIDE DEF A
  <2> QED  BY <1>2, <2>1, <2>2, Beginning
<1>8. \A i \in 1..m : s[i] \in D <=> i <= n
  BY <1>4, <1>5, <1>7
<1> HIDE DEF A
<1>9. Len(s) = m /\ DOMAIN s = 1..m /\ s \in Seq(C)
  BY <1>2, <1>5
<1> DEFINE u == SubSeq(s, 1, n)
<1>10. u \in [1..n -> D] /\ \A i \in 1..n : u[i] = s[i]
  <2>1. n \in Nat /\ n <= m /\ \A i \in 1..n : i \in 1..m /\ s[i] \in D
    BY <1>2, <1>8
  <2>2. \A i \in 1..n : s[i] \in C
    BY <1>5, <2>1
  <2>3. u \in Seq(C) /\ Len(u) = n /\ \A i \in 1..n : u[i] = s[i]
    BY <1>9, <2>1, <2>2, SubSeqProperties
  <2>4. u \in [1..n -> C]
    BY <2>3, LenProperties
  <2>5. \A i \in 1..n : u[i] \in D
    BY <2>1, <2>3
  <2> HIDE DEF u
  <2> QED  BY <2>3, <2>4, <2>5
<1> HIDE DEF u
<1>11. Range(s) = {s[i] : i \in 1..m} /\ Range(u) = {u[i] : i \in 1..n}
  BY <1>9, <1>10 DEF Range
<1>12. \A i, j \in 1..n : i < j => u[i] # u[j] /\ ~Greater(rows[u[i]].distance, rows[u[j]].distance)
  BY <1>2, <1>5, <1>10
<1>13. ASSUME NEW d \in D \ Range(u), NEW i \in 1..n
       PROVE  ~Greater(rows[u[i]].distance, rows[d].distance)
  <2>1. d \in C \ Range(s)
    BY <1>4, <1>8, <1>10, <1>11, <1>13
  <2> QED  BY <1>2, <1>5, <1>10, <2>1
<1>14. n = NumberOf(r)
  <2>1. n <= Cardinality(D) /\ (n = Cardinality(D) \/ n < Cardinality(D))
    <3>1. \A i, j \in 1..n : i < j => u[i] # u[j]
      BY <1>12
    <3> QED  BY <1>2, <1>10, <3>1, NoLonger
  <2>2. Cardinality(D) <= Cardinality(C)
    BY <1>2, <1>4, FS_Subset
  <2>3. CASE n < m
    <3>1. n + 1 \in 1..m /\ s[n + 1] \in C \ D
      BY <1>2, <1>5, <1>8, <2>3
    <3>2. \A d \in D : \E i \in 1..n : u[i] = d
      <4> SUFFICES ASSUME NEW d \in D, \A i \in 1..n : u[i] # d PROVE FALSE
        OBVIOUS
      <4>1. d \in C \ Range(s)
        BY <1>4, <1>8, <1>10, <1>11
      <4>2. ~Greater(rows[s[n + 1]].distance, rows[d].distance)
        BY <1>5, <3>1, <4>1
      <4>3. /\ Score(s[n + 1]) \in Int /\ Score(d) \in Int /\ Score(s[n + 1]) >= Score(d)
        BY <1>6, <3>1, <4>1, <4>2
      <4>4. Score(d) >= t /\ ~(Score(s[n + 1]) >= t)
        BY <1>4, <3>1
      <4> QED  BY <1>1, <4>3, <4>4 DEF t
    <3>3. Cardinality(D) <= n
      BY <1>2, <1>10, <3>2, NoShorter
    <3> QED  BY <1>2, <1>3, <2>1, <2>3, <3>3
  <2>4. CASE n = m
    BY <1>2, <1>3, <2>1, <2>2, <2>4
  <2> QED  BY <1>2, <2>3, <2>4
<1>15. Nearest(NumberOf(r), Candidates(r), SubSeq(s, 1, n))
  BY <1>10, <1>12, <1>13, <1>14 DEF Nearest, D, u
<1>16. \A i \in DOMAIN s : i <= n <=> Score(s[i]) >= r.min_threshold
  BY <1>7, <1>9 DEF A, t
<1> QED  BY <1>7, <1>9, <1>15, <1>16

LEMMA TypeGivesOrder == TypeOK => SearchRanksBestFirst
<1> SUFFICES ASSUME TypeOK, NEW r \in Requests,
                    NEW s \in Search(rows, metric, [r EXCEPT !.min_threshold = 0])
             PROVE  /\ \A i, j \in DOMAIN s : i < j /\ Score(s[i]) # Score(s[j]) =>
                          Score(s[j]) = NaN \/ Greater(Score(s[i]), Score(s[j]))
                    /\ NoZeroVectors =>
                          \E n \in 0..Len(s) :
                              /\ SubSeq(s, 1, n) \in Search(rows, metric, r)
                              /\ \A i \in DOMAIN s : i <= n <=> Score(s[i]) >= r.min_threshold
                                                             \/ r.min_threshold = 0
  BY DEF SearchRanksBestFirst
<1> DEFINE all == [r EXCEPT !.min_threshold = 0]
<1>1. all \in Requests
  BY DEF Requests
<1>2. Nearest(NumberOf(all), Candidates(all), s)
  BY <1>1, Answers
<1>3. \A i, j \in DOMAIN s : i < j /\ Score(s[i]) # Score(s[j]) =>
         Score(s[j]) = NaN \/ Greater(Score(s[i]), Score(s[j]))
  BY <1>1, <1>2, BestFirst
<1>4. CASE r.min_threshold = 0
  <2>1. all = r
    BY <1>4 DEF Requests
  <2>2. s \in [1..NumberOf(all) -> Candidates(all)] /\ NumberOf(all) \in Nat
    BY <1>1, <1>2, CandidatesFinite DEF Nearest
  <2>3. s \in Seq(Candidates(all)) /\ Len(s) \in 0..Len(s) /\ SubSeq(s, 1, Len(s)) = s
    BY <2>2
  <2>4. \A i \in DOMAIN s : i <= Len(s)
    BY <2>3
  <2> QED  BY <1>3, <1>4, <2>1, <2>3, <2>4
<1>5. CASE r.min_threshold # 0 /\ NoZeroVectors
  <2>1. r.min_threshold > 0
    BY <1>5 DEF Requests
  <2>2. PICK n \in 0..Len(s) :
           /\ Nearest(NumberOf(r), Candidates(r), SubSeq(s, 1, n))
           /\ \A i \in DOMAIN s : i <= n <=> Score(s[i]) >= r.min_threshold
    BY <1>2, <1>5, <2>1, CutsOff
  <2>3. SubSeq(s, 1, n) \in Search(rows, metric, r)
    BY <2>2, Answers
  <2> QED  BY <1>3, <1>5, <2>2, <2>3
<1> QED  BY <1>3, <1>4, <1>5

(* The answers to a search come best first under every metric, whatever    *)
(* the distances are, and a threshold cuts off the end of a list.          *)
THEOREM QueriesSearchRanksBestFirst == Spec => []SearchRanksBestFirst
BY QueriesTypeOK, TypeGivesOrder, PTL
-----------------------------------------------------------------------------
(***************************************************************************)
(* Hybrid search at its edges: two orders that agree on the candidates     *)
(* have the same answers.                                                  *)
(***************************************************************************)
LEMMA NearerScoresHigher ==
    ASSUME TypeOK, NEW k \in DOMAIN rows, NEW l \in DOMAIN rows,
           rows[k].distance # NaN, rows[l].distance # NaN
    PROVE  /\ Score(k) \in Int /\ Score(l) \in Int
           /\ Greater(rows[l].distance, rows[k].distance) <=> Score(k) > Score(l)
<1>1. /\ rows[k].distance \in Distances[metric] \ {NaN}
      /\ rows[l].distance \in Distances[metric] \ {NaN}
  BY DEF TypeOK, Row
<1>2. rows[k].distance \in Int /\ rows[l].distance \in Int
  BY <1>1, QueriesAssumption DEF TypeOK
<1>3. CASE rows[k].distance < rows[l].distance
  <2>1. Score(k) \in Int /\ Score(l) \in Int /\ Score(k) >= Score(l)
    BY <1>1, <1>2, <1>3, SimilarityAntitone DEF Score
  <2>2. Score(k) # Score(l)
    <3>1. CASE metric = "euclidean"
      BY <1>1, <1>2, <1>3, <3>1, ScoresTellApart DEF Score
    <3>2. CASE metric = "inner_product"
      BY <1>1, <1>2, <1>3, <3>2 DEF Score, Similarity
    <3>3. CASE metric = "cosine"
      BY <1>1, <1>2, <1>3, <3>3 DEF Score, Similarity
    <3> QED  BY <3>1, <3>2, <3>3 DEF TypeOK, Metrics
  <2> QED  BY <1>1, <1>2, <1>3, <2>1, <2>2 DEF Greater
<1>4. CASE rows[l].distance <= rows[k].distance
  <2>1. Score(k) \in Int /\ Score(l) \in Int /\ Score(l) >= Score(k)
    BY <1>1, <1>2, <1>4, SimilarityAntitone DEF Score
  <2> QED  BY <1>1, <1>2, <1>4, <2>1 DEF Greater
<1> QED  BY <1>2, <1>3, <1>4

LEMMA Shares ==
    ASSUME NEW r \in HybridRequests
    PROVE  /\ r.vector_weight > 0 \/ r.text_weight = 0 =>
                 Share(r.vector_weight, r.text_weight) \in {50, 100}
           /\ r.vector_weight = 0 /\ r.text_weight > 0 =>
                 /\ Share(r.vector_weight, r.text_weight) = 0
                 /\ Share(r.text_weight, r.vector_weight) = 100
           /\ Share(r.text_weight, r.vector_weight) \in Int
<1>1. r.vector_weight \in {0, 100} /\ r.text_weight \in {0, 100}
  BY DEF HybridRequests
<1>2. Share(0, 0) = 50 /\ Share(0, 100) = 0 /\ Share(100, 0) = 100 /\ Share(100, 100) = 50
  BY DEF Share
<1> QED  BY <1>1, <1>2

LEMMA VectorAlone ==
    ASSUME TypeOK, NoZeroVectors, NEW r \in HybridRequests, r.query_vector, ~r.query_text,
           r.vector_weight > 0 \/ r.text_weight = 0
    PROVE  HybridSearch(rows, metric, r) =
               Search(rows, metric, [filter |-> r.filter, min_threshold |-> 0,
                                     top_k |-> r.top_k])
<1> DEFINE S == Filtered(rows, r.filter)
<1>1. /\ r.top_k \in 0..MaxTopK /\ r.vector_weight \in 0..100 /\ r.text_weight \in 0..100
  BY DEF HybridRequests
<1>2. HybridSearch(rows, metric, r) =
         First(TopK(r.top_k), S, LAMBDA d, e : Greater(Combined(rows[d], metric, r),
                                                       Combined(rows[e], metric, r)))
  BY <1>1 DEF HybridSearch
<1>3. Search(rows, metric, [filter |-> r.filter, min_threshold |-> 0, top_k |-> r.top_k]) =
         First(TopK(r.top_k), S, LAMBDA d, e : Greater(rows[e].distance, rows[d].distance))
  <2> DEFINE q == [filter |-> r.filter, min_threshold |-> 0, top_k |-> r.top_k]
  <2>1. q.filter = r.filter /\ q.min_threshold = 0 /\ q.top_k = r.top_k
    OBVIOUS
  <2> HIDE DEF q
  <2>2. {d \in Filtered(rows, q.filter) :
           q.min_threshold > 0 =>
               ~Greater(q.min_threshold, Similarity(metric, rows[d].distance))} = S
    BY <2>1
  <2>3. q.top_k \in 0..MaxTopK /\ q.min_threshold \in 0..100
    BY <1>1, <2>1
  <2> HIDE DEF S
  <2>4. Search(rows, metric, q) =
           First(TopK(q.top_k), S, LAMBDA d, e : Greater(rows[e].distance, rows[d].distance))
    BY <2>2, <2>3 DEF Search
  <2> QED  BY <2>1, <2>4 DEF q
<1>4. ASSUME NEW d \in S, NEW e \in S
      PROVE  Greater(Combined(rows[d], metric, r), Combined(rows[e], metric, r))
                 <=> Greater(rows[e].distance, rows[d].distance)
  <2>1. /\ d \in DOMAIN rows /\ e \in DOMAIN rows
        /\ rows[d].distance # NaN /\ rows[e].distance # NaN
    BY DEF Filtered, NoZeroVectors
  <2>2. /\ Score(d) \in Int /\ Score(e) \in Int
        /\ Greater(rows[e].distance, rows[d].distance) <=> Score(d) > Score(e)
    BY <2>1, NearerScoresHigher
  <2> DEFINE share == Share(r.vector_weight, r.text_weight)
             other == Share(r.text_weight, r.vector_weight)
  <2>3. share \in {50, 100} /\ other \in Int
    BY Shares
  <2>4. /\ Combined(rows[d], metric, r) = other * 0 + share * Score(d)
        /\ Combined(rows[e], metric, r) = other * 0 + share * Score(e)
    BY <2>2, RankingAssumption DEF Combined, Score
  <2> HIDE DEF share, other
  <2>5. other * 0 = 0
    BY <2>3
  <2>6. share * Score(d) \in Int /\ share * Score(e) \in Int
    BY <2>2, <2>3
  <2>7. share * Score(d) > share * Score(e) <=> Score(d) > Score(e)
    BY <2>2, <2>3
  <2>8. /\ Combined(rows[d], metric, r) = share * Score(d)
        /\ Combined(rows[e], metric, r) = share * Score(e)
    BY <2>4, <2>5, <2>6
  <2> QED  BY <2>2, <2>6, <2>7, <2>8, RankingAssumption DEF Greater
<1> DEFINE n == IF TopK(r.top_k) < Cardinality(S) THEN TopK(r.top_k) ELSE Cardinality(S)
<1> HIDE DEF S, n
<1>5. First(TopK(r.top_k), S, LAMBDA d, e : Greater(Combined(rows[d], metric, r),
                                                    Combined(rows[e], metric, r)))
         = First(TopK(r.top_k), S, LAMBDA d, e : Greater(rows[e].distance, rows[d].distance))
  <2> SUFFICES ASSUME NEW s \in [1..n -> S]
               PROVE  /\ \A i, j \in 1..n :
                            Greater(Combined(rows[s[j]], metric, r), Combined(rows[s[i]], metric, r))
                                <=> Greater(rows[s[i]].distance, rows[s[j]].distance)
                      /\ \A d \in S \ Range(s), i \in 1..n :
                            Greater(Combined(rows[d], metric, r), Combined(rows[s[i]], metric, r))
                                <=> Greater(rows[s[i]].distance, rows[d].distance)
    BY DEF First, n
  <2> QED  BY <1>4
<1> QED  BY <1>2, <1>3, <1>5

LEMMA TextAlone ==
    ASSUME TypeOK, NoZeroVectors, NEW r \in HybridRequests, r.query_vector, r.query_text,
           ~r.filter, r.vector_weight = 0, r.text_weight > 0
    PROVE  HybridSearch(rows, metric, r) =
               FullTextSearch(rows, [limit |-> r.top_k, min_rank |-> 0])
<1> DEFINE S == {d \in DOMAIN rows : rows[d].rank > 0}
<1>1. /\ r.top_k \in 0..MaxTopK /\ r.vector_weight \in 0..100 /\ r.text_weight \in 0..100
  BY DEF HybridRequests
<1>2. HybridSearch(rows, metric, r) =
         First(TopK(r.top_k), S, LAMBDA d, e : Greater(Combined(rows[d], metric, r),
                                                       Combined(rows[e], metric, r)))
  BY <1>1 DEF HybridSearch, Filtered
<1>3. \A d \in DOMAIN rows : rows[d].rank \in 0..100
  BY QueriesAssumption DEF TypeOK, Row
<1>4. FullTextSearch(rows, [limit |-> r.top_k, min_rank |-> 0]) =
         First(TopK(r.top_k), S, LAMBDA d, e : Greater(rows[d].rank, rows[e].rank))
  <2>1. S = {d \in DOMAIN rows : rows[d].rank > 0 /\ rows[d].rank >= 0}
    BY <1>3
  <2>2. r.top_k >= 0
    BY <1>1, RankingAssumption
  <2> HIDE DEF S
  <2> QED  BY <1>1, <2>1, <2>2 DEF FullTextSearch
<1>5. ASSUME NEW d \in S, NEW e \in S
      PROVE  Greater(Combined(rows[d], metric, r), Combined(rows[e], metric, r))
                 <=> Greater(rows[d].rank, rows[e].rank)
  <2>1. /\ d \in DOMAIN rows /\ e \in DOMAIN rows
        /\ rows[d].distance # NaN /\ rows[e].distance # NaN
    BY DEF NoZeroVectors
  <2>2. /\ Score(d) \in Int /\ Score(e) \in Int
    BY <2>1, NearerScoresHigher
  <2>3. /\ Share(r.vector_weight, r.text_weight) = 0
        /\ Share(r.text_weight, r.vector_weight) = 100
    BY Shares
  <2>4. /\ Combined(rows[d], metric, r) = 100 * rows[d].rank + 0 * Score(d)
        /\ Combined(rows[e], metric, r) = 100 * rows[e].rank + 0 * Score(e)
    BY <2>2, <2>3, RankingAssumption DEF Combined, Score
  <2>5. 0 * Score(d) = 0 /\ 0 * Score(e) = 0
    BY <2>2
  <2>6. rows[d].rank \in Int /\ rows[e].rank \in Int
    BY <1>3, <2>1
  <2> QED  BY <2>4, <2>5, <2>6, RankingAssumption DEF Greater
<1> DEFINE n == IF TopK(r.top_k) < Cardinality(S) THEN TopK(r.top_k) ELSE Cardinality(S)
<1> HIDE DEF S, n
<1>6. First(TopK(r.top_k), S, LAMBDA d, e : Greater(Combined(rows[d], metric, r),
                                                    Combined(rows[e], metric, r)))
         = First(TopK(r.top_k), S, LAMBDA d, e : Greater(rows[d].rank, rows[e].rank))
  <2> SUFFICES ASSUME NEW s \in [1..n -> S]
               PROVE  /\ \A i, j \in 1..n :
                            Greater(Combined(rows[s[j]], metric, r), Combined(rows[s[i]], metric, r))
                                <=> Greater(rows[s[j]].rank, rows[s[i]].rank)
                      /\ \A d \in S \ Range(s), i \in 1..n :
                            Greater(Combined(rows[d], metric, r), Combined(rows[s[i]], metric, r))
                                <=> Greater(rows[d].rank, rows[s[i]].rank)
    BY DEF First, n
  <2> QED  BY <1>5
<1> QED  BY <1>2, <1>4, <1>6

LEMMA TypeGivesEdges == TypeOK => HybridAgreesAtTheEdges
BY VectorAlone, TextAlone DEF HybridAgreesAtTheEdges

(* A hybrid search without a text is a vector search, and one that gives   *)
(* vectors no weight is a full-text search, in every table without zero    *)
(* vectors.                                                                *)
THEOREM QueriesHybridAgreesAtTheEdges == Spec => []HybridAgreesAtTheEdges
BY QueriesTypeOK, TypeGivesEdges, PTL
=============================================================================
