--------------------------- MODULE ChunkersProofs ---------------------------
(***************************************************************************)
(* Proofs about Chunkers, for texts of any length and any parameters.  The *)
(* sentence strategy: the search leaves behind it the sentences it has     *)
(* found and letters that are glued to what follows (Search), the loop     *)
(* chunks, the one it is filling being the last, that hold the sentences   *)
(* it has handled (Grouped).  The other strategies: every loop and every   *)
(* separator leave pieces that cut the text up from one end to the other   *)
(* (Cuts), the recursion being one over the separators that follow; of a   *)
(* tidy text these are neither empty nor too long (WellCut).               *)
(***************************************************************************)
EXTENDS Chunkers, SequenceTheorems, WellFoundedInduction, TLAPS

(* A nonempty set of natural numbers has a least one, and Min is that one. *)
LEMMA LeastNatural ==
    ASSUME NEW T, T \subseteq Nat, T # {}
    PROVE  \E m \in T : \A k \in T : m <= k
<1>1. \E m \in T : \A k \in T : ~(<<k, m>> \in OpToRel(<, Nat))
  BY NatLessThanWellFounded, WFMin
<1>2. PICK m \in T : \A k \in T : ~(<<k, m>> \in OpToRel(<, Nat))
  BY <1>1
<1>3. ASSUME NEW k \in T PROVE m <= k
  <2>1. k < m => <<k, m>> \in OpToRel(<, Nat)
    BY DEF OpToRel
  <2>2. ~(k < m) /\ k \in Nat /\ m \in Nat
    BY <1>2, <2>1
  <2> QED  BY <2>2
<1> QED  BY <1>3

LEMMA MinIsLeast ==
    ASSUME NEW T, T \subseteq Nat, T # {}
    PROVE  Min(T) \in T /\ \A k \in T : Min(T) <= k
  BY LeastNatural DEF Min

(* Induction up to N over a set, and the functions that it defines: what a *)
(* loop of N turns makes of m0.                                            *)
LEMMA Induction ==
    ASSUME NEW N \in Nat, NEW T, 0 \in T,
           \A n \in 1..N : n - 1 \in T => n \in T
    PROVE  \A n \in 0..N : n \in T
<1> DEFINE bad == {n \in 0..N : n \notin T}
<1>1. SUFFICES ASSUME bad # {} PROVE FALSE
  OBVIOUS
<1>2. bad \subseteq Nat
  OBVIOUS
<1>3. PICK m \in bad : \A k \in bad : m <= k
  BY <1>1, <1>2, LeastNatural
<1>4. m \in 1..N
  OBVIOUS
<1>5. m - 1 \notin bad /\ m - 1 \in 0..N
  BY <1>3, <1>4
<1> QED  BY <1>4, <1>5

AreSteps(step, N, M) == step \in [1..N -> [M -> M]]

IsLoop(f, N, M, m0, step) ==
    /\ f \in [0..N -> M]
    /\ f[0] = m0
    /\ \A n \in 1..N : f[n] = step[n][f[n - 1]]

LEMMA LoopExists ==
    ASSUME NEW N \in Nat, NEW M, NEW m0 \in M, NEW step, AreSteps(step, N, M)
    PROVE  \E f : IsLoop(f, N, M, m0, step)
<1> DEFINE Done(f, m) == /\ f \in [0..m -> M] /\ f[0] = m0
                         /\ \A n \in 1..m : f[n] = step[n][f[n - 1]]
           T == {m \in 0..N : \E f : Done(f, m)}
<1> USE DEF AreSteps
<1>1. 0 \in T
  <2>1. Done([n \in 0..0 |-> m0], 0)
    OBVIOUS
  <2>2. \E f : Done(f, 0)
    BY <2>1
  <2> HIDE DEF Done
  <2> QED  BY <2>2
<1>2. ASSUME NEW m \in 1..N, m - 1 \in T PROVE m \in T
  <2>1. PICK g : Done(g, m - 1)
    BY <1>2
  <2>2. m - 1 \in 0..(m - 1) /\ g[m - 1] \in M /\ step[m][g[m - 1]] \in M
    BY <2>1
  <2> DEFINE f == [n \in 0..m |-> IF n < m THEN g[n] ELSE step[m][g[m - 1]]]
  <2>3. f \in [0..m -> M]
    BY <2>1, <2>2
  <2>4. f[0] = m0
    BY <2>1
  <2>5. ASSUME NEW n \in 1..m PROVE f[n] = step[n][f[n - 1]]
    <3>1. n - 1 \in 0..m /\ n - 1 < m /\ f[n - 1] = g[n - 1]
      OBVIOUS
    <3>2. CASE n = m
      BY <3>1, <3>2
    <3>3. CASE n < m
      <4>1. n \in 1..(m - 1) /\ f[n] = g[n]
        BY <3>3
      <4> QED  BY <3>1, <4>1, <2>1
    <3> QED  BY <3>2, <3>3
  <2> HIDE DEF f
  <2>6. Done(f, m)
    BY <2>3, <2>4, <2>5
  <2> QED  BY <2>6
<1> HIDE DEF Done
<1>3. \A m \in 0..N : m \in T
  <2> HIDE DEF T
  <2> QED  BY <1>1, <1>2, Induction
<1>4. N \in T
  BY <1>3
<1> QED  BY <1>4 DEF Done, IsLoop
-----------------------------------------------------------------------------
(***************************************************************************)
(* How long a chunk is.                                                    *)
(***************************************************************************)
AreWidths(f, c) ==
    f = [n \in 0..Len(c) |-> IF n = 0 THEN 0 ELSE f[n - 1] + Width(c[n])]

LEMMA WidthType == \A p \in Pieces : Width(p) \in Nat
<1> SUFFICES ASSUME NEW p \in Pieces PROVE Width(p) \in Nat
  OBVIOUS
<1>1. p.from \in Nat /\ p.to \in Nat /\ p.from <= p.to
  BY DEF Pieces
<1> QED  BY <1>1 DEF Width

LEMMA PositiveWidth ==
    ASSUME NEW p \in Pieces, Width(p) > 0
    PROVE  p.from < p.to
<1>1. p.from \in Nat /\ p.to \in Nat
  BY DEF Pieces
<1> QED  BY <1>1 DEF Width

LEMMA WidthSteps ==
    ASSUME NEW c \in Seq(Pieces), NEW f, AreWidths(f, c)
    PROVE  f[0] = 0 /\ \A n \in 1..Len(c) : f[n] = f[n - 1] + Width(c[n])
<1>1. Len(c) \in Nat
  OBVIOUS
<1>2. f[0] = 0
  BY <1>1 DEF AreWidths
<1>3. ASSUME NEW n \in 1..Len(c) PROVE f[n] = f[n - 1] + Width(c[n])
  <2>1. n \in 0..Len(c) /\ n # 0
    BY <1>1
  <2> QED  BY <2>1 DEF AreWidths
<1> QED  BY <1>2, <1>3

(* Chunks that begin alike have the same widths there.                     *)
LEMMA WidthsAgree ==
    ASSUME NEW c \in Seq(Pieces), NEW d \in Seq(Pieces), NEW f, NEW g,
           AreWidths(f, c), AreWidths(g, d),
           Len(c) <= Len(d), \A i \in 1..Len(c) : c[i] = d[i]
    PROVE  \A n \in 0..Len(c) : f[n] = g[n] /\ f[n] \in Nat
<1> DEFINE T == {n \in 0..Len(c) : f[n] = g[n] /\ f[n] \in Nat}
<1>1. Len(c) \in Nat /\ Len(d) \in Nat
  OBVIOUS
<1>2. 0 \in T
  BY <1>1, WidthSteps
<1>3. ASSUME NEW n \in 1..Len(c), n - 1 \in T PROVE n \in T
  <2>1. n \in 1..Len(d) /\ n \in 0..Len(c)
    BY <1>1
  <2>2. f[n - 1] = g[n - 1] /\ f[n - 1] \in Nat
    BY <1>3
  <2>3. c[n] \in Pieces /\ c[n] = d[n]
    OBVIOUS
  <2>4. Width(c[n]) \in Nat
    BY <2>3, WidthType
  <2>5. f[n] = f[n - 1] + Width(c[n]) /\ g[n] = g[n - 1] + Width(d[n])
    BY <2>1, WidthSteps
  <2>6. f[n] = g[n] /\ f[n] \in Nat
    BY <2>2, <2>3, <2>4, <2>5
  <2> QED  BY <2>1, <2>6
<1>4. \A n \in 0..Len(c) : n \in T
  <2> HIDE DEF T
  <2> QED  BY <1>1, <1>2, <1>3, Induction
<1> QED  BY <1>4

LEMMA WidthsExist == \A c \in Seq(Pieces) : \E f : AreWidths(f, c)
<1> SUFFICES ASSUME NEW c \in Seq(Pieces) PROVE \E f : AreWidths(f, c)
  OBVIOUS
<1> DEFINE step == [n \in 1..Len(c) |-> [m \in Nat |-> m + Width(c[n])]]
<1>1. Len(c) \in Nat /\ 0 \in Nat
  OBVIOUS
<1>2. step \in [1..Len(c) -> [Nat -> Nat]]
  <2>1. \A n \in 1..Len(c) : Width(c[n]) \in Nat
    BY WidthType
  <2> QED  BY <2>1
<1>3. \A m \in Nat : \A n \in 1..Len(c) : step[n][m] = m + Width(c[n])
  OBVIOUS
<1> HIDE DEF step
<1>4. AreSteps(step, Len(c), Nat)
  BY <1>2 DEF AreSteps
<1>5. PICK f : IsLoop(f, Len(c), Nat, 0, step)
  BY <1>1, <1>4, LoopExists, Zenon
<1>6. /\ f \in [0..Len(c) -> Nat] /\ f[0] = 0
      /\ \A n \in 1..Len(c) : f[n] = step[n][f[n - 1]]
  BY <1>5 DEF IsLoop
<1>7. ASSUME NEW n \in 1..Len(c) PROVE f[n] = f[n - 1] + Width(c[n])
  <2>1. n - 1 \in 0..Len(c)
    BY <1>1
  <2>2. f[n - 1] \in Nat
    BY <2>1, <1>6
  <2> QED  BY <2>2, <1>3, <1>6
<1>8. \A n \in 0..Len(c) : n = 0 \/ n \in 1..Len(c)
  BY <1>1
<1>9. f = [n \in 0..Len(c) |-> IF n = 0 THEN 0 ELSE f[n - 1] + Width(c[n])]
  BY <1>6, <1>7, <1>8
<1> QED  BY <1>9 DEF AreWidths

LEMMA ChunkLengthIs ==
    ASSUME NEW c \in Seq(Pieces), c # << >>
    PROVE  \E f : AreWidths(f, c) /\ ChunkLength(c) = f[Len(c)] + Len(c) - 1
<1> DEFINE f == CHOOSE f : f = [n \in 0..Len(c) |->
                                   IF n = 0 THEN 0 ELSE f[n - 1] + Width(c[n])]
<1>1. AreWidths(f, c)
  BY WidthsExist DEF AreWidths
<1>2. ChunkLength(c) = f[Len(c)] + Len(c) - 1
  BY Zenon DEF ChunkLength
<1> QED  BY <1>1, <1>2

(* A sentence lengthens a chunk by itself and the space in front of it.    *)
LEMMA ChunkLengthGrows ==
    ASSUME NEW c \in Seq(Pieces), NEW p \in Pieces
    PROVE  /\ ChunkLength(c) \in Nat
           /\ ChunkLength(<<p>>) = Width(p)
           /\ c # << >> => ChunkLength(Append(c, p)) = ChunkLength(c) + 1 + Width(p)
<1>1. Len(c) \in Nat /\ (c # << >> => Len(c) > 0)
  OBVIOUS
<1>2. ASSUME c # << >>
      PROVE  \E f : /\ AreWidths(f, c) /\ f[Len(c)] \in Nat
                    /\ ChunkLength(c) = f[Len(c)] + Len(c) - 1
  BY <1>1, <1>2, ChunkLengthIs, WidthsAgree
<1>3. ChunkLength(c) \in Nat
  <2>1. CASE c = << >>
    BY <2>1 DEF ChunkLength
  <2>2. CASE c # << >>
    BY <2>2, <1>1, <1>2
  <2> QED  BY <2>1, <2>2
<1>4. ChunkLength(<<p>>) = Width(p)
  <2> DEFINE d == <<p>>
  <2>1. d \in Seq(Pieces) /\ d # << >> /\ Len(d) = 1 /\ d[1] = p
    OBVIOUS
  <2> HIDE DEF d
  <2>2. PICK g : AreWidths(g, d) /\ ChunkLength(d) = g[Len(d)] + Len(d) - 1
    BY <2>1, ChunkLengthIs
  <2>3. g[0] = 0 /\ \A n \in 1..Len(d) : g[n] = g[n - 1] + Width(d[n])
    BY <2>1, <2>2, WidthSteps
  <2>4. Width(p) \in Nat
    BY WidthType
  <2>5. ChunkLength(d) = Width(p)
    BY <2>1, <2>2, <2>3, <2>4
  <2> QED  BY <2>5 DEF d
<1>5. ASSUME c # << >> PROVE ChunkLength(Append(c, p)) = ChunkLength(c) + 1 + Width(p)
  <2> DEFINE d == Append(c, p)
  <2>1. /\ d \in Seq(Pieces) /\ d # << >> /\ Len(d) = Len(c) + 1 /\ d[Len(d)] = p
        /\ \A i \in 1..Len(c) : c[i] = d[i]
    OBVIOUS
  <2> HIDE DEF d
  <2>2. PICK g : AreWidths(g, d) /\ ChunkLength(d) = g[Len(d)] + Len(d) - 1
    BY <2>1, ChunkLengthIs
  <2>3. PICK f : /\ AreWidths(f, c) /\ f[Len(c)] \in Nat
                 /\ ChunkLength(c) = f[Len(c)] + Len(c) - 1
    BY <1>2, <1>5
  <2>4. f[Len(c)] = g[Len(c)]
    BY <1>1, <2>1, <2>2, <2>3, WidthsAgree
  <2>5. Len(d) \in 1..Len(d) /\ Len(d) - 1 = Len(c)
    BY <1>1, <2>1
  <2>6. g[Len(d)] = g[Len(c)] + Width(p)
    BY <2>1, <2>2, <2>5, WidthSteps
  <2>7. Width(p) \in Nat
    BY WidthType
  <2>8. ChunkLength(d) = ChunkLength(c) + 1 + Width(p)
    BY <1>1, <2>1, <2>2, <2>3, <2>4, <2>6, <2>7
  <2> QED  BY <2>8 DEF d
<1> QED  BY <1>3, <1>4, <1>5
-----------------------------------------------------------------------------
(***************************************************************************)
(* The search, and what is trimmed from what it finds.                     *)
(***************************************************************************)
TextOK == text \in Seq(Kinds.sentence)

LEMMA KindOf ==
    TextOK => /\ Len(text) \in Nat
              /\ \A i \in Positions : Kind(i) \in {"letter", "stop", "space"}
<1> SUFFICES ASSUME TextOK
             PROVE  /\ Len(text) \in Nat
                    /\ \A i \in Positions : Kind(i) \in {"letter", "stop", "space"}
  OBVIOUS
<1>1. text \in Seq({"letter", "stop", "space"})
  BY DEF TextOK, Kinds
<1>2. Len(text) \in Nat
  BY <1>1
<1>3. ASSUME NEW i \in Positions PROVE i + 1 \in 1..Len(text)
  BY <1>2 DEF Positions
<1> QED  BY <1>1, <1>2, <1>3 DEF Kind

LEMMA SkipFromStops ==
    ASSUME TextOK, NEW a \in 0..Len(text), NEW K
    PROVE  /\ SkipFrom(a, K) \in a..Len(text)
           /\ SkipFrom(a, K) = Len(text) \/ Kind(SkipFrom(a, K)) \notin K
           /\ \A j \in a..(SkipFrom(a, K) - 1) : Kind(j) \in K
<1> DEFINE T == {i \in a..Len(text) : i = Len(text) \/ Kind(i) \notin K}
<1>1. Len(text) \in Nat
  BY KindOf
<1>2. T \subseteq Nat /\ Len(text) \in T
  BY <1>1
<1>3. Min(T) \in T /\ \A k \in T : Min(T) <= k
  BY <1>2, MinIsLeast
<1>4. SkipFrom(a, K) = Min(T)
  BY DEF SkipFrom
<1> HIDE DEF SkipFrom
<1>5. ASSUME NEW j \in a..(Min(T) - 1) PROVE Kind(j) \in K
  <2>1. Min(T) \in a..Len(text) /\ Min(T) \in Nat
    BY <1>2, <1>3
  <2>2. j \in a..Len(text) /\ ~(Min(T) <= j)
    BY <2>1, <1>1
  <2> QED  BY <2>2, <1>3
<1> QED  BY <1>3, <1>4, <1>5

(* From anywhere in between the search stops at the same place.            *)
LEMMA SkipFromWithin ==
    ASSUME TextOK, NEW a \in 0..Len(text), NEW K, NEW b \in a..SkipFrom(a, K)
    PROVE  SkipFrom(b, K) = SkipFrom(a, K)
<1> DEFINE x == SkipFrom(a, K)
           y == SkipFrom(b, K)
<1>1. Len(text) \in Nat
  BY KindOf
<1>2. /\ x \in a..Len(text)
      /\ x = Len(text) \/ Kind(x) \notin K
      /\ \A j \in a..(x - 1) : Kind(j) \in K
  BY SkipFromStops
<1>3. b \in 0..Len(text)
  BY <1>1, <1>2
<1>4. /\ y \in b..Len(text)
      /\ y = Len(text) \/ Kind(y) \notin K
      /\ \A j \in b..(y - 1) : Kind(j) \in K
  BY <1>3, SkipFromStops
<1> HIDE DEF x, y
<1>5. b \in a..x /\ a \in 0..Len(text)
  BY DEF x
<1>6. ~(x < y)
  <2> SUFFICES ASSUME x < y PROVE FALSE
    OBVIOUS
  <2>1. x \in b..(y - 1) /\ x # Len(text)
    BY <1>1, <1>2, <1>3, <1>4, <1>5
  <2> QED  BY <2>1, <1>2, <1>4
<1>7. ~(y < x)
  <2> SUFFICES ASSUME y < x PROVE FALSE
    OBVIOUS
  <2>1. y \in a..(x - 1) /\ y # Len(text)
    BY <1>1, <1>2, <1>3, <1>4, <1>5
  <2> QED  BY <2>1, <1>2, <1>4
<1>8. x = y
  BY <1>1, <1>2, <1>3, <1>4, <1>6, <1>7
<1> QED  BY <1>8 DEF x, y

(* Trimming leaves a piece of the sentence with all of its letters.        *)
LEMMA TrimKeeps ==
    ASSUME TextOK, NEW s \in Pieces
    PROVE  /\ Trim(s) \in Pieces
           /\ s.from <= Trim(s).from /\ Trim(s).to <= s.to
           /\ \A i \in s.from..(s.to - 1) :
                  Kind(i) = "letter" => i \in Trim(s).from..(Trim(s).to - 1)
<1> DEFINE F == {i \in s.from..s.to : i = s.to \/ Kind(i) # "space"}
           f == Min(F)
           T == {i \in f..s.to : \A j \in i..(s.to - 1) : Kind(j) = "space"}
           t == Min(T)
<1>1. /\ Len(text) \in Nat /\ s.from \in 0..Len(text) /\ s.to \in 0..Len(text)
      /\ s.from <= s.to
  BY KindOf DEF Pieces
<1>2. Trim(s) = [from |-> f, to |-> t]
  BY DEF Trim
<1>3. f \in F /\ \A k \in F : f <= k
  <2>1. F \subseteq Nat /\ s.to \in F
    BY <1>1
  <2> QED  BY <2>1, MinIsLeast
<1>4. f \in s.from..s.to
  BY <1>3
<1> HIDE DEF f
<1>5. t \in T /\ \A k \in T : t <= k
  <2>1. T \subseteq Nat /\ s.to \in T
    BY <1>1, <1>4
  <2> QED  BY <2>1, MinIsLeast
<1>6. t \in f..s.to /\ \A j \in t..(s.to - 1) : Kind(j) = "space"
  BY <1>5
<1> HIDE DEF t
<1>7. ASSUME NEW i \in s.from..(s.to - 1), Kind(i) = "letter"
      PROVE  i \in f..(t - 1)
  <2>1. i \in F
    BY <1>1, <1>7
  <2>2. f <= i
    BY <2>1, <1>3
  <2>3. i \notin t..(s.to - 1)
    BY <1>6, <1>7
  <2> QED  BY <2>2, <2>3, <1>1, <1>4, <1>6
<1>8. [from |-> f, to |-> t] \in Pieces
  BY <1>1, <1>4, <1>6 DEF Pieces
<1> QED  BY <1>1, <1>2, <1>4, <1>6, <1>7, <1>8

(* What one search from a finds, and which letters it passes.              *)
LEMMA SearchFrom ==
    ASSUME TextOK, NEW a \in 0..(Len(text) - 1)
    PROVE  LET stops == SkipFrom(a, NoStop)
               rest == SkipFrom(stops, {"stop"})
               next == SkipFrom(rest, {"space"})
           IN  /\ stops \in a..Len(text) /\ rest \in (a + 1)..Len(text)
               /\ rest >= stops /\ next \in rest..Len(text)
               /\ \A i \in stops..(next - 1) : Kind(i) # "letter"
               /\ \A i \in a..(stops - 1) : Glued(i) <=> ~Closed(rest, next)
               /\ ~Closed(rest, next) => rest < Len(text) /\ Kind(rest) = "letter"
               /\ stops = a => Kind(a) = "stop"
<1> DEFINE stops == SkipFrom(a, NoStop)
           rest == SkipFrom(stops, {"stop"})
           next == SkipFrom(rest, {"space"})
<1>1. Len(text) \in Nat /\ \A i \in Positions : Kind(i) \in {"letter", "stop", "space"}
  BY KindOf
<1>2. NoStop = {"letter", "space"}
  BY DEF NoStop, Kinds
<1>3. /\ stops \in a..Len(text) /\ (stops = Len(text) \/ Kind(stops) \notin NoStop)
      /\ \A j \in a..(stops - 1) : SkipFrom(j, NoStop) = stops
  <2>1. a \in 0..Len(text)
    BY <1>1
  <2>2. stops \in a..Len(text) /\ (stops = Len(text) \/ Kind(stops) \notin NoStop)
    BY <2>1, SkipFromStops
  <2>3. \A j \in a..(stops - 1) : j \in a..stops
    BY <1>1, <2>2
  <2> QED  BY <2>1, <2>2, <2>3, SkipFromWithin
<1> HIDE DEF stops
<1>4. /\ rest \in stops..Len(text) /\ (rest = Len(text) \/ Kind(rest) \notin {"stop"})
      /\ \A j \in stops..(rest - 1) : Kind(j) \in {"stop"}
  <2>1. stops \in 0..Len(text)
    BY <1>1, <1>3
  <2> QED  BY <2>1, SkipFromStops
<1>5. \A j \in a..(stops - 1) :
          Glued(j) <=> rest < Len(text) /\ Kind(rest) # "space"
  BY <1>3 DEF Glued
<1> HIDE DEF rest
<1>6. /\ next \in rest..Len(text) /\ (next = Len(text) \/ Kind(next) \notin {"space"})
      /\ \A j \in rest..(next - 1) : Kind(j) \in {"space"}
  <2>1. rest \in 0..Len(text)
    BY <1>1, <1>3, <1>4
  <2> QED  BY <2>1, SkipFromStops
<1> HIDE DEF next
<1>7. Closed(rest, next) <=> rest = Len(text) \/ Kind(rest) = "space"
  <2>1. CASE next > rest
    <3>1. rest \in rest..(next - 1)
      BY <2>1, <1>1, <1>3, <1>4, <1>6
    <3> QED  BY <2>1, <3>1, <1>6 DEF Closed
  <2>2. CASE next = rest
    BY <2>2, <1>1, <1>4, <1>6 DEF Closed
  <2> QED  BY <2>1, <2>2, <1>1, <1>3, <1>4, <1>6
<1>8. stops = a => Kind(a) = "stop"
  BY <1>1, <1>2, <1>3 DEF Positions
<1>9. rest \in (a + 1)..Len(text)
  <2>1. CASE stops > a
    BY <2>1, <1>1, <1>3, <1>4
  <2>2. CASE stops = a
    BY <2>2, <1>1, <1>3, <1>4, <1>8
  <2> QED  BY <2>1, <2>2, <1>1, <1>3
<1>10. ASSUME NEW i \in stops..(next - 1) PROVE Kind(i) # "letter"
  <2>1. i \in stops..(rest - 1) \/ i \in rest..(next - 1)
    BY <1>1, <1>3, <1>4, <1>6
  <2> QED  BY <2>1, <1>4, <1>6
<1>11. ~Closed(rest, next) => rest < Len(text) /\ Kind(rest) = "letter"
  <2> SUFFICES ASSUME ~Closed(rest, next)
               PROVE  rest < Len(text) /\ Kind(rest) = "letter"
    OBVIOUS
  <2>1. rest # Len(text) /\ Kind(rest) # "space" /\ Kind(rest) # "stop"
    BY <1>4, <1>7
  <2>2. rest \in Positions /\ rest < Len(text)
    BY <2>1, <1>1, <1>3, <1>4 DEF Positions
  <2> QED  BY <2>1, <2>2, <1>1
<1>12. ASSUME NEW i \in a..(stops - 1) PROVE Glued(i) <=> ~Closed(rest, next)
  BY <1>1, <1>3, <1>4, <1>5, <1>7
<1>13. rest >= stops
  BY <1>1, <1>3, <1>4
<1> QED
  BY <1>3, <1>6, <1>8, <1>9, <1>10, <1>11, <1>12, <1>13 DEF stops, rest, next
-----------------------------------------------------------------------------
(***************************************************************************)
(* The inductive invariant.                                                *)
(***************************************************************************)
Holds(p, i) == i \in p.from..(p.to - 1)

HeldBy(pieces, i) == \E j \in DOMAIN pieces : Holds(pieces[j], i)

Typed ==
    /\ TextOK
    /\ size \in Nat \ {0}
    /\ at \in 0..Len(text)
    /\ matches \in Seq(Pieces)
    /\ turn \in 0..Len(matches)
    /\ current \in Seq(Pieces)
    /\ chunks \in Seq(Seq(Pieces))

(* Sentences follow one another up to the place of the search, and hold    *)
(* the letters that are not glued.  If there is none yet, no letter has    *)
(* been passed but some that are glued to the next one.                    *)
Search ==
    /\ \A j \in DOMAIN matches : matches[j].to <= at
    /\ \A j, k \in DOMAIN matches : j < k => matches[j].to <= matches[k].from
    /\ \A i \in 0..(at - 1) : Kind(i) = "letter" => (HeldBy(matches, i) <=> ~Glued(i))
    /\ matches = << >> =>
           \/ \A i \in 0..(at - 1) : Kind(i) # "letter"
           \/ at < Len(text) /\ Kind(at) = "letter"

(* The chunks, and behind them the one that is being filled.               *)
AllChunks == Append(chunks, current)

InOrder(cs) ==
    \A i, j \in DOMAIN cs : \A k \in DOMAIN cs[i], l \in DOMAIN cs[j] :
        i < j \/ (i = j /\ k < l) => cs[i][k].to <= cs[j][l].from

(* No sentence larger than n has company in its chunk.                     *)
LargeAlone(cs, n) ==
    \A i \in DOMAIN cs : Len(cs[i]) > 1 => \A k \in DOMAIN cs[i] : Width(cs[i][k]) <= n

(* Every piece in the chunks is within one of the first n sentences.       *)
FromSentences(cs, ms, n) ==
    \A i \in DOMAIN cs : \A k \in DOMAIN cs[i] : \E j \in 1..n :
        ms[j].from <= cs[i][k].from /\ cs[i][k].to <= ms[j].to

LettersKept(cs, n) ==
    \A j \in 1..n : \A x \in matches[j].from..(matches[j].to - 1) :
        Kind(x) = "letter" => \E i \in DOMAIN cs : HeldBy(cs[i], x)

Grouped ==
    /\ InOrder(AllChunks)
    /\ LargeAlone(AllChunks, size)
    /\ FromSentences(AllChunks, matches, turn)
    /\ LettersKept(AllChunks, turn)
    /\ chunks # << >> => current # << >>

Inv ==
    strategy = "sentence" =>
        /\ ~done => Typed /\ Search /\ Grouped
        /\ done => OnlyGluedTextIsLost /\ SentencesInOrder /\ LargeSentencesStandAlone
-----------------------------------------------------------------------------
LEMMA InitInv == Init => Inv
<1> SUFFICES ASSUME Init, strategy = "sentence"
             PROVE  ~done /\ Typed /\ Search /\ Grouped
  BY DEF Inv
<1>1. TextOK
  <2>1. PICK n \in 0..MaxLength : text \in [1..n -> Kinds[strategy]]
    BY DEF Init, Call, Texts
  <2>2. Kinds[strategy] = Kinds.sentence
    BY DEF Kinds
  <2>3. n \in Nat
    BY TextAssumption
  <2> QED  BY <2>1, <2>2, <2>3 DEF TextOK
<1>2. size \in Nat \ {0}
  <2>1. PICK s \in Requested : size = EffectiveSize(s)
    BY DEF Init, Call
  <2>2. s \in Int
    BY TextAssumption
  <2> QED  BY <2>1, <2>2 DEF EffectiveSize, DefaultSize
<1>3. at = 0 /\ matches = << >> /\ turn = 0 /\ current = << >> /\ chunks = << >> /\ ~done
  BY DEF Init, Call
<1>4. Len(text) \in Nat
  BY <1>1, KindOf
<1>5. Typed
  BY <1>1, <1>2, <1>3, <1>4 DEF Typed
<1>6. Search
  BY <1>3 DEF Search, HeldBy
<1>7. Grouped
  <2>1. AllChunks = << << >> >> /\ DOMAIN AllChunks = {1} /\ DOMAIN AllChunks[1] = {}
        /\ Len(AllChunks) = 1 /\ Len(AllChunks[1]) = 0
    BY <1>3 DEF AllChunks
  <2>2. InOrder(AllChunks)
    BY <2>1 DEF InOrder
  <2>3. LargeAlone(AllChunks, size)
    BY <2>1 DEF LargeAlone
  <2>4. FromSentences(AllChunks, matches, turn)
    BY <2>1 DEF FromSentences
  <2>5. LettersKept(AllChunks, turn)
    BY <1>3 DEF LettersKept
  <2> QED  BY <2>2, <2>3, <2>4, <2>5, <1>3 DEF Grouped
<1> QED  BY <1>3, <1>5, <1>6, <1>7

(* Operators that look at nothing but the text do not change with a step.  *)
LEMMA SameText ==
    ASSUME UNCHANGED callVars
    PROVE  /\ strategy' = strategy /\ text' = text /\ size' = size
           /\ Pieces' = Pieces /\ Positions' = Positions
           /\ TextOK' <=> TextOK
           /\ \A i : Kind(i)' = Kind(i)
           /\ \A i : Glued(i)' <=> Glued(i)
<1>1. strategy' = strategy /\ text' = text /\ size' = size
  BY DEF callVars
<1>2. Pieces' = Pieces
  BY <1>1 DEF Pieces
<1>3. Positions' = Positions
  BY <1>1 DEF Positions
<1>4. TextOK' <=> TextOK
  BY <1>1 DEF TextOK
<1>5. \A i : Kind(i)' = Kind(i)
  BY <1>1 DEF Kind
<1>6. \A i : Glued(i)' <=> Glued(i)
  BY <1>1 DEF Glued, SkipFrom, Kind
<1> QED  BY <1>1, <1>2, <1>3, <1>4, <1>5, <1>6

LEMMA FindSentenceInv ==
    ASSUME Typed, Search, Grouped, FindSentence
    PROVE  Typed' /\ Search' /\ Grouped'
<1> DEFINE stops == SkipFrom(at, NoStop)
           rest == SkipFrom(stops, {"stop"})
           next == SkipFrom(rest, {"space"})
           found == stops > at /\ Closed(rest, next)
           s == [from |-> at, to |-> next]
<1>1. /\ at < Len(text)
      /\ UNCHANGED callVars /\ chunks' = chunks /\ turn' = turn /\ current' = current
      /\ \/ found /\ matches' = Append(matches, s) /\ at' = next
         \/ ~found /\ matches' = matches /\ at' = rest
  BY DEF FindSentence
<1>2. Len(text) \in Nat /\ TextOK /\ at \in 0..(Len(text) - 1)
  BY <1>1, KindOf DEF Typed
<1>3. /\ stops \in at..Len(text) /\ rest \in (at + 1)..Len(text)
      /\ rest >= stops /\ next \in rest..Len(text)
      /\ \A i \in stops..(next - 1) : Kind(i) # "letter"
      /\ \A i \in at..(stops - 1) : Glued(i) <=> ~Closed(rest, next)
      /\ ~Closed(rest, next) => rest < Len(text) /\ Kind(rest) = "letter"
      /\ stops = at => Kind(at) = "stop"
  BY <1>2, SearchFrom
<1> HIDE DEF stops, rest, next
<1>4. s \in Pieces
  BY <1>2, <1>3 DEF Pieces
<1>5. Typed'
  <2>1. at' \in 0..Len(text)
    BY <1>1, <1>2, <1>3
  <2>2. matches \in Seq(Pieces) /\ turn \in 0..Len(matches)
    BY DEF Typed
  <2>3. CASE found
    <3>1. /\ Append(matches, s) \in Seq(Pieces)
          /\ Len(Append(matches, s)) = Len(matches) + 1
      BY <2>2, <1>4
    <3>2. turn \in 0..Len(matches')
      BY <2>2, <2>3, <3>1, <1>1
    <3> QED  BY <2>1, <2>3, <3>1, <3>2, <1>1, SameText DEF Typed
  <2>4. CASE ~found
    BY <2>1, <2>4, <1>1, SameText DEF Typed
  <2> QED  BY <2>3, <2>4
<1>6. \A j \in DOMAIN matches : j \in DOMAIN matches' /\ matches'[j] = matches[j]
  <2>1. matches \in Seq(Pieces)
    BY DEF Typed
  <2> HIDE DEF s, found
  <2>2. \A j \in DOMAIN matches : /\ j \in DOMAIN Append(matches, s)
                                  /\ Append(matches, s)[j] = matches[j]
    BY <2>1
  <2> QED  BY <2>2, <1>1
<1>7. Search'
  <2>1. CASE found
    <3> DEFINE n == Len(matches) + 1
    <3>1. /\ at' = next /\ n \in DOMAIN matches' /\ matches'[n] = s /\ n \in Nat
          /\ \A j \in DOMAIN matches' : j = n \/ (j \in DOMAIN matches /\ j < n)
          /\ matches' # << >>
      BY <2>1, <1>1 DEF Typed
    <3> HIDE DEF n
    <3>2. ASSUME NEW j \in DOMAIN matches' PROVE matches'[j].to <= at'
      <4>1. CASE j = n
        BY <4>1, <3>1, <1>2, <1>3
      <4>2. CASE j \in DOMAIN matches
        <5>1. matches[j].to <= at /\ matches[j].to \in Nat
          BY <4>2, <1>2 DEF Search, Typed, Pieces
        <5> QED  BY <5>1, <4>2, <1>2, <1>3, <1>6, <3>1
      <4> QED  BY <4>1, <4>2, <3>1
    <3>3. ASSUME NEW j \in DOMAIN matches', NEW k \in DOMAIN matches', j < k
          PROVE  matches'[j].to <= matches'[k].from
      <4>1. j \in DOMAIN matches
        BY <3>1, <3>3 DEF Typed
      <4>2. CASE k = n
        BY <4>1, <4>2, <3>1, <1>6 DEF Search
      <4>3. CASE k \in DOMAIN matches
        BY <4>1, <4>3, <3>3, <1>6 DEF Search
      <4> QED  BY <4>2, <4>3, <3>1
    <3>4. ASSUME NEW i \in 0..(at' - 1), Kind(i) = "letter"
          PROVE  HeldBy(matches', i) <=> ~Glued(i)
      <4>1. CASE i < at
        <5>1. i \in 0..(at - 1)
          BY <4>1, <1>2, <1>3, <3>1
        <5>2. HeldBy(matches, i) <=> ~Glued(i)
          BY <5>1, <3>4 DEF Search
        <5>3. ~Holds(s, i)
          BY <4>1, <1>2, <1>3, <3>1 DEF Holds
        <5>4. HeldBy(matches', i) <=> HeldBy(matches, i)
          BY <5>3, <3>1, <1>6 DEF HeldBy
        <5> QED  BY <5>2, <5>4
      <4>2. CASE i >= at
        <5>1. i \in at..(next - 1)
          BY <4>2, <1>2, <1>3, <3>1
        <5>2. HeldBy(matches', i)
          BY <5>1, <3>1 DEF HeldBy, Holds
        <5>3. i \in at..(stops - 1)
          BY <5>1, <1>2, <1>3, <3>4
        <5> QED  BY <5>2, <5>3, <1>3, <2>1
      <4> QED  BY <4>1, <4>2, <1>2, <1>3, <3>1
    <3> QED  BY <3>1, <3>2, <3>3, <3>4, <1>1, SameText DEF Search
  <2>2. CASE ~found
    <3>1. at' = rest /\ matches' = matches /\ at < rest
      BY <2>2, <1>1, <1>2, <1>3
    <3>2. ASSUME NEW j \in DOMAIN matches PROVE matches[j].to <= at'
      <4>1. matches[j].to <= at /\ matches[j].to \in Nat
        BY <1>2 DEF Search, Typed, Pieces
      <4> QED  BY <4>1, <3>1, <1>2, <1>3
    <3>3. ASSUME NEW i \in 0..(at' - 1), Kind(i) = "letter"
          PROVE  HeldBy(matches, i) <=> ~Glued(i)
      <4>1. CASE i < at
        <5>1. i \in 0..(at - 1)
          BY <4>1, <1>2, <1>3, <3>1
        <5> QED  BY <5>1, <3>3 DEF Search
      <4>2. CASE i >= at
        <5>1. i \in at..(next - 1)
          BY <4>2, <1>2, <1>3, <3>1
        <5>2. i \in at..(stops - 1)
          BY <5>1, <1>2, <1>3, <3>3
        <5>3. stops > at
          BY <5>2, <1>2, <1>3
        <5>4. Glued(i)
          BY <5>2, <5>3, <1>3, <2>2
        <5>5. ASSUME NEW j \in DOMAIN matches PROVE ~Holds(matches[j], i)
          <6>1. matches[j].to <= at /\ matches[j].to \in Nat /\ matches[j].from \in Nat
            BY <1>2 DEF Search, Typed, Pieces
          <6> QED  BY <6>1, <5>1, <1>2 DEF Holds
        <5> QED  BY <5>4, <5>5 DEF HeldBy
      <4> QED  BY <4>1, <4>2, <1>2, <1>3, <3>1
    <3>4. ASSUME matches = << >>
          PROVE  \/ \A i \in 0..(at' - 1) : Kind(i) # "letter"
                 \/ at' < Len(text) /\ Kind(at') = "letter"
      <4>1. CASE stops > at
        BY <4>1, <2>2, <1>3, <3>1
      <4>2. CASE stops = at
        <5>1. \A i \in 0..(at - 1) : Kind(i) # "letter"
          BY <4>2, <3>4, <1>3 DEF Search
        <5>2. ASSUME NEW i \in 0..(at' - 1) PROVE Kind(i) # "letter"
          <6>1. i \in 0..(at - 1) \/ i \in stops..(next - 1)
            BY <4>2, <3>1, <1>2, <1>3
          <6> QED  BY <6>1, <5>1, <1>3
        <5> QED  BY <5>2
      <4> QED  BY <4>1, <4>2, <1>2, <1>3
    <3> QED  BY <3>1, <3>2, <3>3, <3>4, <1>1, SameText DEF Search
  <2> QED  BY <2>1, <2>2
<1>8. Grouped'
  <2>1. AllChunks' = AllChunks
    BY <1>1 DEF AllChunks
  <2>2. \A j \in 1..turn : j \in DOMAIN matches
    BY DEF Typed
  <2>3. FromSentences(AllChunks', matches', turn')
    BY <2>1, <2>2, <1>1, <1>6 DEF Grouped, FromSentences
  <2>4. LettersKept(AllChunks, turn)'
    BY <2>1, <2>2, <1>1, <1>6, SameText DEF Grouped, LettersKept
  <2> QED  BY <2>1, <2>3, <2>4, <1>1, SameText DEF Grouped
<1> QED  BY <1>5, <1>7, <1>8

(* No sentence has been found in a text without letters only, which is     *)
(* therefore no loss as its only chunk.                                    *)
LEMMA ReturnTextInv ==
    ASSUME Typed, Search, ReturnText
    PROVE  OnlyGluedTextIsLost' /\ SentencesInOrder' /\ LargeSentencesStandAlone'
<1>1. /\ UNCHANGED callVars /\ at = Len(text) /\ matches = << >>
      /\ chunks' = << >> \/ chunks' = << <<WholeText>> >>
  BY DEF ReturnText, Searched
<1>2. \A i \in Positions : Kind(i) # "letter"
  <2>1. Len(text) \in Nat
    BY KindOf DEF Typed
  <2> QED  BY <1>1, <2>1 DEF Search, Positions
<1>3. OnlyGluedTextIsLost'
  BY <1>1, <1>2, SameText DEF OnlyGluedTextIsLost
<1>4. SentencesInOrder' /\ LargeSentencesStandAlone'
  <2>1. CASE chunks' = << >>
    BY <2>1 DEF SentencesInOrder, LargeSentencesStandAlone, Range
  <2>2. CASE chunks' = << <<WholeText>> >>
    <3>1. /\ DOMAIN chunks' = {1} /\ DOMAIN chunks'[1] = {1}
          /\ Len(chunks') = 1 /\ Len(chunks'[1]) = 1
      BY <2>2
    <3>2. SentencesInOrder'
      BY <3>1 DEF SentencesInOrder
    <3>3. \A c \in Range(chunks') : Len(c) = 1
      BY <3>1 DEF Range
    <3>4. LargeSentencesStandAlone'
      BY <3>3 DEF LargeSentencesStandAlone
    <3> QED  BY <3>2, <3>4
  <2> QED  BY <2>1, <2>2, <1>1
<1> QED  BY <1>3, <1>4

LEMMA Lengths ==
    ASSUME NEW S, NEW s \in Seq(S)
    PROVE  /\ Len(s) \in Nat
           /\ s # << >> => Len(s) > 0
           /\ Len(s) = 1 => s = <<s[1]>> /\ s[1] \in S
<1>1. Len(s) \in Nat /\ DOMAIN s = 1..Len(s) /\ \A i \in 1..Len(s) : s[i] \in S
  OBVIOUS
<1>2. s # << >> => Len(s) > 0
  OBVIOUS
<1>3. ASSUME Len(s) = 1 PROVE s = <<s[1]>> /\ s[1] \in S
  <2> DEFINE r == <<s[1]>>
  <2>1. Len(r) = 1 /\ r[1] = s[1] /\ r \in Seq({s[1]})
    OBVIOUS
  <2>2. s[1] \in S
    BY <1>1, <1>3
  <2>3. r \in Seq(S)
    BY <2>1, <2>2
  <2> HIDE DEF r
  <2>4. s = r
    BY <1>3, <2>1, <2>3
  <2> QED  BY <2>2, <2>4 DEF r
<1> QED  BY <1>1, <1>2, <1>3

LEMMA MoreThanOne == \A n \in Nat : n > 0 => n = 1 \/ n > 1
  OBVIOUS

LEMMA LargeAloneMeans ==
    ASSUME NEW cs \in Seq(Seq(Pieces)), NEW n \in Nat, LargeAlone(cs, n)
    PROVE  \A c \in Range(cs) : \A p \in Range(c) : Width(p) > n => Len(c) = 1
<1> SUFFICES ASSUME NEW c \in Range(cs), NEW p \in Range(c), Width(p) > n, Len(c) # 1
             PROVE  FALSE
  OBVIOUS
<1>1. PICK i \in DOMAIN cs : c = cs[i]
  BY DEF Range
<1>2. PICK k \in DOMAIN c : p = c[k]
  BY DEF Range
<1>3. c \in Seq(Pieces) /\ p \in Pieces /\ Len(c) > 1
  <2>1. c \in Seq(Pieces)
    BY <1>1
  <2>2. p \in Pieces /\ Len(c) > 0
    BY <2>1, <1>2
  <2>3. Len(c) \in Nat
    BY <2>1
  <2>4. Len(c) > 1
    BY <2>2, <2>3, MoreThanOne
  <2> QED  BY <2>1, <2>2, <2>4
<1>4. Width(p) \in Nat /\ Width(p) <= n
  BY <1>1, <1>2, <1>3, WidthType DEF LargeAlone
<1> QED  BY <1>4

(* What holds with a chunk still to be filled holds of the chunks that are *)
(* returned.                                                               *)
LEMMA FinishInv ==
    ASSUME Typed, Search, Grouped, Finish
    PROVE  OnlyGluedTextIsLost' /\ SentencesInOrder' /\ LargeSentencesStandAlone'
<1>1. /\ UNCHANGED callVars /\ at = Len(text) /\ turn = Len(matches)
      /\ chunks' = IF current = << >> THEN chunks ELSE AllChunks
  BY DEF Finish, Searched, AllChunks
<1>2. Len(text) \in Nat /\ matches \in Seq(Pieces)
  BY KindOf DEF Typed
<1>3. /\ InOrder(chunks') /\ LargeAlone(chunks', size)
      /\ \A i : (\E k \in DOMAIN chunks' : HeldBy(chunks'[k], i))
                    <=> (\E k \in DOMAIN AllChunks : HeldBy(AllChunks[k], i))
  <2>1. CASE current # << >>
    BY <2>1, <1>1 DEF Grouped
  <2>2. CASE current = << >>
    <3>1. chunks = << >> /\ chunks' = << >>
      BY <2>2, <1>1 DEF Grouped
    <3>2. DOMAIN chunks' = {} /\ DOMAIN AllChunks = {1} /\ DOMAIN AllChunks[1] = {}
          /\ Len(chunks') = 0
      BY <2>2, <3>1 DEF AllChunks
    <3>3. InOrder(chunks') /\ LargeAlone(chunks', size)
      BY <3>2 DEF InOrder, LargeAlone
    <3>4. \A i : ~\E k \in DOMAIN chunks' : HeldBy(chunks'[k], i)
      BY <3>2
    <3>5. \A i : ~\E k \in DOMAIN AllChunks : HeldBy(AllChunks[k], i)
      BY <3>2 DEF HeldBy
    <3> QED  BY <3>3, <3>4, <3>5
  <2> QED  BY <2>1, <2>2
<1>4. SentencesInOrder'
  BY <1>3 DEF SentencesInOrder, InOrder
<1>5. LargeSentencesStandAlone'
  <2>1. chunks' \in Seq(Seq(Pieces)) /\ size \in Nat /\ Pieces' = Pieces
    BY <1>1, SameText DEF Typed, AllChunks
  <2>2. \A c \in Range(chunks') : \A p \in Range(c) : Width(p) > size => Len(c) = 1
    BY <2>1, <1>3, LargeAloneMeans
  <2> QED  BY <2>2, <1>1, SameText DEF LargeSentencesStandAlone
<1>6. ASSUME NEW i \in Positions, Kind(i) = "letter"
      PROVE  Kept(i)' <=> ~Glued(i)
  <2>1. i \in 0..(at - 1)
    BY <1>1, <1>2 DEF Positions
  <2>2. HeldBy(matches, i) <=> ~Glued(i)
    BY <2>1, <1>6 DEF Search
  <2>3. Kept(i)' <=> \E k \in DOMAIN AllChunks : HeldBy(AllChunks[k], i)
    <3>1. Kept(i)' <=> \E k \in DOMAIN chunks' : HeldBy(chunks'[k], i)
      BY DEF Kept, Range, HeldBy, Holds
    <3> QED  BY <3>1, <1>3
  <2>4. ASSUME NEW k \in DOMAIN AllChunks, HeldBy(AllChunks[k], i)
        PROVE  HeldBy(matches, i)
    <3>1. PICK l \in DOMAIN AllChunks[k] : Holds(AllChunks[k][l], i)
      BY <2>4 DEF HeldBy
    <3>2. PICK j \in 1..turn : /\ matches[j].from <= AllChunks[k][l].from
                               /\ AllChunks[k][l].to <= matches[j].to
      BY DEF Grouped, FromSentences
    <3>3. j \in DOMAIN matches
      BY <1>1, <1>2
    <3>4. AllChunks[k][l] \in Pieces /\ matches[j] \in Pieces
      <4>1. AllChunks \in Seq(Seq(Pieces))
        BY DEF AllChunks, Typed
      <4> QED  BY <4>1, <3>3, <1>2
    <3>5. Holds(matches[j], i)
      BY <3>1, <3>2, <3>4, <1>2 DEF Holds, Pieces
    <3> QED  BY <3>3, <3>5 DEF HeldBy
  <2>5. ASSUME HeldBy(matches, i)
        PROVE  \E k \in DOMAIN AllChunks : HeldBy(AllChunks[k], i)
    <3>1. PICK j \in DOMAIN matches : i \in matches[j].from..(matches[j].to - 1)
      BY <2>5 DEF HeldBy, Holds
    <3>2. j \in 1..turn
      BY <1>1, <1>2
    <3> QED  BY <3>1, <3>2, <1>6 DEF Grouped, LettersKept
  <2> QED  BY <2>2, <2>3, <2>4, <2>5
<1>7. OnlyGluedTextIsLost'
  BY <1>1, <1>6, SameText DEF OnlyGluedTextIsLost
<1> QED  BY <1>4, <1>5, <1>7

(* The pieces of the sentences that had their turn end before the next     *)
(* sentence begins.                                                        *)
LEMMA EarlierPieces ==
    ASSUME Typed, Search, turn + 1 \in DOMAIN matches,
           NEW cs \in Seq(Seq(Pieces)), FromSentences(cs, matches, turn),
           NEW i \in DOMAIN cs, NEW k \in DOMAIN cs[i]
    PROVE  /\ cs[i][k].to \in Nat /\ cs[i][k].from \in Nat
           /\ cs[i][k].to <= Trim(matches[turn + 1]).from
<1>1. PICK j \in 1..turn : cs[i][k].to <= matches[j].to
  BY DEF FromSentences
<1>2. matches \in Seq(Pieces) /\ turn \in Nat
  BY DEF Typed
<1>3. j \in DOMAIN matches /\ j < turn + 1
  BY <1>2
<1>4. matches[j] \in Pieces /\ matches[turn + 1] \in Pieces
  BY <1>2, <1>3
<1>5. cs[i] \in Seq(Pieces)
  OBVIOUS
<1>6. cs[i][k] \in Pieces
  BY <1>5
<1>7. matches[j].to <= matches[turn + 1].from
  BY <1>3 DEF Search
<1>8. /\ cs[i][k].to \in Nat /\ cs[i][k].from \in Nat /\ matches[j].to \in Nat
      /\ matches[turn + 1].from \in Nat
  BY <1>4, <1>6 DEF Pieces
<1>9. TextOK
  BY KindOf DEF Typed
<1>10. /\ matches[turn + 1].from <= Trim(matches[turn + 1]).from
       /\ Trim(matches[turn + 1]).from \in Nat
  <2>1. /\ Trim(matches[turn + 1]) \in Pieces
        /\ matches[turn + 1].from <= Trim(matches[turn + 1]).from
    BY <1>4, <1>9, TrimKeeps
  <2> QED  BY <2>1 DEF Pieces
<1> QED  BY <1>1, <1>7, <1>8, <1>10

(* The next sentence becomes the last piece (b of chunk a) of the chunks.  *)
LEMMA ExtendKeeps ==
    ASSUME Typed, Search, turn + 1 \in DOMAIN matches,
           NEW cs \in Seq(Seq(Pieces)), NEW ds \in Seq(Seq(Pieces)),
           NEW a \in DOMAIN ds, NEW b \in DOMAIN ds[a],
           ds[a][b] = Trim(matches[turn + 1]),
           \A i \in DOMAIN cs : \A k \in DOMAIN cs[i] :
               i \in DOMAIN ds /\ k \in DOMAIN ds[i] /\ ds[i][k] = cs[i][k],
           \A i \in DOMAIN ds : \A k \in DOMAIN ds[i] :
               \/ i = a /\ k = b
               \/ /\ i \in DOMAIN cs /\ k \in DOMAIN cs[i]
                  /\ i < a \/ (i = a /\ k < b),
           InOrder(cs), FromSentences(cs, matches, turn), LettersKept(cs, turn)
    PROVE  /\ InOrder(ds)
           /\ FromSentences(ds, matches, turn + 1)
           /\ LettersKept(ds, turn + 1)
<1> DEFINE m == matches[turn + 1]
           s == Trim(m)
<1>1. /\ matches \in Seq(Pieces) /\ turn \in Nat /\ Len(matches) \in Nat
      /\ Len(text) \in Nat /\ TextOK /\ m \in Pieces
  BY KindOf DEF Typed
<1>2. /\ s \in Pieces /\ m.from <= s.from /\ s.to <= m.to
      /\ \A i \in m.from..(m.to - 1) : Kind(i) = "letter" => i \in s.from..(s.to - 1)
  BY <1>1, TrimKeeps
<1>3. /\ m.from \in Nat /\ m.to \in Nat /\ s.from \in Nat /\ s.to \in Nat
      /\ m.from <= s.from
  BY <1>1, <1>2 DEF Pieces
<1>4. ds[a][b] = s
  OBVIOUS
<1> HIDE DEF s
<1>5. \A i \in DOMAIN cs : \A k \in DOMAIN cs[i] :
          /\ cs[i][k].to \in Nat /\ cs[i][k].from \in Nat
          /\ cs[i][k].to <= s.from
  BY EarlierPieces DEF s
<1>6. InOrder(ds)
  <2> SUFFICES ASSUME NEW i \in DOMAIN ds, NEW j \in DOMAIN ds,
                      NEW k \in DOMAIN ds[i], NEW l \in DOMAIN ds[j],
                      i < j \/ (i = j /\ k < l)
               PROVE  ds[i][k].to <= ds[j][l].from
    BY DEF InOrder
  <2>1. /\ i \in Nat /\ j \in Nat /\ a \in Nat /\ k \in Nat /\ l \in Nat /\ b \in Nat
    OBVIOUS
  <2>2. ~(i = a /\ k = b)
    <3>1. (j = a /\ l = b) \/ j < a \/ (j = a /\ l < b)
      OBVIOUS
    <3> QED  BY <2>1, <3>1
  <2>3. i \in DOMAIN cs /\ k \in DOMAIN cs[i] /\ ds[i][k] = cs[i][k]
    BY <2>2
  <2>4. CASE j = a /\ l = b
    BY <2>3, <2>4, <1>4, <1>5
  <2>5. CASE ~(j = a /\ l = b)
    <3>1. j \in DOMAIN cs /\ l \in DOMAIN cs[j] /\ ds[j][l] = cs[j][l]
      BY <2>5
    <3> QED  BY <2>3, <3>1 DEF InOrder
  <2> QED  BY <2>4, <2>5
<1>7. FromSentences(ds, matches, turn + 1)
  <2> SUFFICES ASSUME NEW i \in DOMAIN ds, NEW k \in DOMAIN ds[i]
               PROVE  \E j \in 1..(turn + 1) :
                          matches[j].from <= ds[i][k].from /\ ds[i][k].to <= matches[j].to
    BY DEF FromSentences
  <2>1. CASE i = a /\ k = b
    <3>1. ds[i][k] = s /\ turn + 1 \in 1..(turn + 1)
      BY <2>1, <1>1, <1>4
    <3>2. /\ matches[turn + 1].from <= ds[i][k].from
          /\ ds[i][k].to <= matches[turn + 1].to
      BY <3>1, <1>2
    <3> QED  BY <3>1, <3>2
  <2>2. CASE ~(i = a /\ k = b)
    <3>1. i \in DOMAIN cs /\ k \in DOMAIN cs[i] /\ ds[i][k] = cs[i][k]
      BY <2>2
    <3>2. PICK j \in 1..turn :
              matches[j].from <= cs[i][k].from /\ cs[i][k].to <= matches[j].to
      BY <3>1 DEF FromSentences
    <3>3. j \in 1..(turn + 1)
      BY <1>1
    <3> QED  BY <3>1, <3>2, <3>3
  <2> QED  BY <2>1, <2>2
<1>8. LettersKept(ds, turn + 1)
  <2> SUFFICES ASSUME NEW j \in 1..(turn + 1),
                      NEW x \in matches[j].from..(matches[j].to - 1),
                      Kind(x) = "letter"
               PROVE  \E i \in DOMAIN ds : HeldBy(ds[i], x)
    BY DEF LettersKept
  <2>1. CASE j = turn + 1
    <3>1. Holds(ds[a][b], x)
      BY <2>1, <1>2, <1>4 DEF Holds
    <3> QED  BY <3>1 DEF HeldBy
  <2>2. CASE j \in 1..turn
    <3>1. PICK i \in DOMAIN cs : HeldBy(cs[i], x)
      BY <2>2 DEF LettersKept
    <3>2. PICK k \in DOMAIN cs[i] : Holds(cs[i][k], x)
      BY <3>1 DEF HeldBy
    <3>3. i \in DOMAIN ds /\ k \in DOMAIN ds[i] /\ ds[i][k] = cs[i][k]
      OBVIOUS
    <3> QED  BY <3>2, <3>3 DEF HeldBy
  <2> QED  BY <2>1, <2>2, <1>1
<1> QED  BY <1>6, <1>7, <1>8

LEMMA Appended ==
    ASSUME NEW S, NEW q \in Seq(S), NEW e \in S
    PROVE  /\ Append(q, e) \in Seq(S)
           /\ Len(Append(q, e)) = Len(q) + 1
           /\ Len(q) \in Nat /\ DOMAIN q = 1..Len(q)
           /\ Len(q) + 1 \in DOMAIN Append(q, e)
           /\ Append(q, e)[Len(q) + 1] = e
           /\ \A i \in DOMAIN q : i \in DOMAIN Append(q, e) /\ Append(q, e)[i] = q[i]
           /\ \A i \in DOMAIN Append(q, e) :
                  i = Len(q) + 1 \/ (i \in DOMAIN q /\ i < Len(q) + 1)
           /\ q # << >> => Head(Append(q, e)) = Head(q)
  OBVIOUS

LEMMA GroupInv ==
    ASSUME Typed, Search, Grouped, Group
    PROVE  Typed' /\ Search' /\ Grouped'
<1> DEFINE s == Trim(matches[turn + 1])
<1>1. /\ UNCHANGED callVars /\ at' = at /\ matches' = matches /\ turn' = turn + 1
      /\ turn < Len(matches) /\ turn' \in 1..Len(matches)
      /\ \/ Blank(s) /\ chunks' = chunks /\ current' = current
         \/ /\ ~Blank(s) /\ Overflows(s)
            /\ chunks' = AllChunks /\ current' = <<s>>
         \/ /\ ~Blank(s) /\ ~Overflows(s)
            /\ chunks' = chunks /\ current' = Append(current, s)
  BY DEF Group, AllChunks, StartWith, Typed
<1>2. /\ matches \in Seq(Pieces) /\ turn \in Nat /\ TextOK /\ turn + 1 \in DOMAIN matches
      /\ matches[turn + 1] \in Pieces
      /\ chunks \in Seq(Seq(Pieces)) /\ current \in Seq(Pieces) /\ size \in Nat
      /\ AllChunks \in Seq(Seq(Pieces)) /\ Len(AllChunks) = Len(chunks) + 1
      /\ AllChunks[Len(AllChunks)] = current /\ Len(chunks) \in Nat /\ Len(current) \in Nat
      /\ \A i \in DOMAIN chunks : AllChunks[i] = chunks[i]
  BY <1>1 DEF Typed, AllChunks
<1>3. s \in Pieces
  BY <1>2, TrimKeeps
<1>4. \A i \in matches[turn + 1].from..(matches[turn + 1].to - 1) :
          Kind(i) = "letter" => i \in s.from..(s.to - 1)
  BY <1>2, TrimKeeps
<1> HIDE DEF s
<1>5. Typed'
  <2>1. Append(current, s) \in Seq(Pieces) /\ <<s>> \in Seq(Pieces)
    BY <1>2, <1>3
  <2>2. /\ chunks' \in Seq(Seq(Pieces)) /\ current' \in Seq(Pieces)
    BY <2>1, <1>1, <1>2
  <2> QED  BY <2>2, <1>1, SameText DEF Typed
<1>6. Search'
  BY <1>1, SameText DEF Search
<1>7. SUFFICES /\ InOrder(AllChunks') /\ LargeAlone(AllChunks', size)
               /\ FromSentences(AllChunks', matches, turn + 1)
               /\ LettersKept(AllChunks', turn + 1)
               /\ chunks' # << >> => current' # << >>
  <2>1. LettersKept(AllChunks', turn + 1) => LettersKept(AllChunks, turn)'
    BY <1>1, SameText DEF LettersKept
  <2> QED  BY <2>1, <1>1, <1>5, <1>6, SameText DEF Grouped
<1>8. CASE Blank(s) /\ chunks' = chunks /\ current' = current
  <2>1. AllChunks' = AllChunks
    BY <1>8 DEF AllChunks
  <2>2. FromSentences(AllChunks, matches, turn + 1)
    <3>1. \A j \in 1..turn : j \in 1..(turn + 1)
      BY <1>2
    <3> QED  BY <3>1 DEF Grouped, FromSentences
  <2>3. LettersKept(AllChunks, turn + 1)
    <3> SUFFICES ASSUME NEW j \in 1..(turn + 1),
                        NEW x \in matches[j].from..(matches[j].to - 1),
                        Kind(x) = "letter"
                 PROVE  \E i \in DOMAIN AllChunks : HeldBy(AllChunks[i], x)
      BY DEF LettersKept
    <3>1. CASE j = turn + 1
      <4>1. x \in s.from..(s.to - 1) /\ s.to = s.from /\ s.from \in Nat
        BY <3>1, <1>3, <1>4, <1>8 DEF Blank, Width, Pieces
      <4> QED  BY <4>1
    <3>2. CASE j \in 1..turn
      BY <3>2 DEF Grouped, LettersKept
    <3> QED  BY <3>1, <3>2, <1>2
  <2> QED  BY <2>1, <2>2, <2>3, <1>8 DEF Grouped
<1>9. CASE /\ ~Blank(s) /\ Overflows(s)
           /\ chunks' = AllChunks /\ current' = <<s>>
  <2> DEFINE ds == Append(AllChunks, <<s>>)
             a == Len(AllChunks) + 1
  <2>1. AllChunks' = ds /\ chunks' # << >> /\ current' # << >>
    BY <1>2, <1>9 DEF AllChunks
  <2>2. /\ ds \in Seq(Seq(Pieces)) /\ a \in DOMAIN ds /\ ds[a] = <<s>> /\ a \in Nat
        /\ \A i \in DOMAIN AllChunks : i \in DOMAIN ds /\ ds[i] = AllChunks[i]
        /\ \A i \in DOMAIN ds : i = a \/ (i \in DOMAIN AllChunks /\ i < a)
        /\ Len(ds) = a /\ DOMAIN AllChunks = 1..(a - 1)
    BY <1>2, <1>3
  <2>3. 1 \in DOMAIN ds[a] /\ ds[a][1] = s /\ DOMAIN ds[a] = {1}
        /\ Len(ds[a]) = 1 /\ Head(ds[a]) = s
    BY <2>2
  <2> HIDE DEF ds, a
  <2>4. /\ InOrder(ds) /\ FromSentences(ds, matches, turn + 1)
        /\ LettersKept(ds, turn + 1)
    <3>1. \A i \in DOMAIN AllChunks : \A k \in DOMAIN AllChunks[i] :
              i \in DOMAIN ds /\ k \in DOMAIN ds[i] /\ ds[i][k] = AllChunks[i][k]
      BY <2>2
    <3>2. \A i \in DOMAIN ds : \A k \in DOMAIN ds[i] :
              \/ i = a /\ k = 1
              \/ /\ i \in DOMAIN AllChunks /\ k \in DOMAIN AllChunks[i]
                 /\ i < a \/ (i = a /\ k < 1)
      BY <2>2, <2>3
    <3>3. ds[a][1] = Trim(matches[turn + 1])
      BY <2>3 DEF s
    <3>4. /\ InOrder(AllChunks) /\ FromSentences(AllChunks, matches, turn)
          /\ LettersKept(AllChunks, turn)
      BY DEF Grouped
    <3> QED  BY <1>2, <2>2, <2>3, <3>1, <3>2, <3>3, <3>4, ExtendKeeps
  <2>5. LargeAlone(ds, size)
    <3>1. ASSUME NEW i \in DOMAIN ds, Len(ds[i]) > 1 PROVE i # a
      BY <2>3, <3>1
    <3>2. \A i \in DOMAIN ds : i # a => i \in DOMAIN AllChunks /\ ds[i] = AllChunks[i]
      BY <2>2
    <3> QED  BY <3>1, <3>2 DEF Grouped, LargeAlone
  <2> QED  BY <2>1, <2>4, <2>5
<1>10. CASE /\ ~Blank(s) /\ ~Overflows(s)
            /\ chunks' = chunks /\ current' = Append(current, s)
  <2> DEFINE c == Append(current, s)
             ds == Append(chunks, c)
             a == Len(chunks) + 1
             b == Len(current) + 1
  <2>1. AllChunks' = ds /\ current' # << >>
    <3>1. current' # << >> /\ AllChunks' = Append(chunks', current')
      <4> HIDE DEF s
      <4>1. s \in Pieces /\ current \in Seq(Pieces)
        BY <1>2, <1>3
      <4>2. current' = Append(current, s)
        BY <1>10
      <4>3. current' # << >>
        BY <4>1, <4>2
      <4> QED  BY <4>3 DEF AllChunks
    <3> QED  BY <3>1, <1>10
  <2>2. /\ c \in Seq(Pieces) /\ Len(c) = b /\ b \in DOMAIN c /\ c[b] = s /\ b \in Nat
        /\ \A k \in DOMAIN current : k \in DOMAIN c /\ c[k] = current[k]
        /\ \A k \in DOMAIN c : k = b \/ (k \in DOMAIN current /\ k < b)
        /\ current # << >> => Head(c) = Head(current)
    <3>1. current \in Seq(Pieces) /\ s \in Pieces /\ Len(current) \in Nat
      BY <1>2, <1>3
    <3> HIDE DEF s
    <3>2. c \in Seq(Pieces) /\ Len(c) = b /\ b \in Nat /\ c[b] = s
      BY <3>1
    <3>3. DOMAIN c = 1..b /\ DOMAIN current = 1..(b - 1)
      BY <3>1, <3>2
    <3>4. \A k \in 1..(b - 1) : c[k] = current[k]
      BY <3>1
    <3>5. ASSUME current # << >> PROVE Head(c) = Head(current)
      <4>1. 1 \in 1..(b - 1)
        BY <3>1, <3>2, <3>5
      <4> QED  BY <4>1, <3>1, <3>2, <3>4
    <3> QED  BY <3>2, <3>3, <3>4, <3>5
  <2> HIDE DEF c
  <2>3. /\ ds \in Seq(Seq(Pieces)) /\ a \in DOMAIN ds /\ ds[a] = c /\ a \in Nat
        /\ \A i \in DOMAIN chunks : i \in DOMAIN ds /\ ds[i] = chunks[i]
        /\ \A i \in DOMAIN ds : i = a \/ (i \in DOMAIN chunks /\ i < a)
        /\ Len(ds) = a /\ DOMAIN chunks = 1..(a - 1)
    <3>1. chunks \in Seq(Seq(Pieces)) /\ c \in Seq(Pieces)
      BY <1>2, <2>2
    <3>2. Len(chunks) \in Nat /\ a - 1 = Len(chunks)
      BY <1>2
    <3> QED  BY <3>1, <3>2, Appended
  <2>4. DOMAIN AllChunks = 1..a /\ AllChunks[a] = current /\ Len(AllChunks) = a
    BY <1>2
  <2> HIDE DEF ds, a, b
  <2>5. /\ InOrder(ds) /\ FromSentences(ds, matches, turn + 1)
        /\ LettersKept(ds, turn + 1)
    <3>1. ASSUME NEW i \in DOMAIN AllChunks, NEW k \in DOMAIN AllChunks[i]
          PROVE  i \in DOMAIN ds /\ k \in DOMAIN ds[i] /\ ds[i][k] = AllChunks[i][k]
      <4>1. CASE i = a
        BY <4>1, <2>2, <2>3, <2>4
      <4>2. CASE i \in DOMAIN chunks
        BY <4>2, <1>2, <2>3
      <4> QED  BY <4>1, <4>2, <2>3, <2>4
    <3>2. ASSUME NEW i \in DOMAIN ds, NEW k \in DOMAIN ds[i]
          PROVE  \/ i = a /\ k = b
                 \/ /\ i \in DOMAIN AllChunks /\ k \in DOMAIN AllChunks[i]
                    /\ i < a \/ (i = a /\ k < b)
      <4>1. CASE i = a
        BY <4>1, <2>2, <2>3, <2>4
      <4>2. CASE i \in DOMAIN chunks /\ i < a
        <5>1. i \in DOMAIN AllChunks /\ AllChunks[i] = ds[i]
          BY <4>2, <1>2, <2>3, <2>4
        <5> QED  BY <5>1, <4>2
      <4>3. i = a \/ (i \in DOMAIN chunks /\ i < a)
        BY <2>3
      <4> QED  BY <4>1, <4>2, <4>3
    <3>3. b \in DOMAIN ds[a] /\ ds[a][b] = Trim(matches[turn + 1])
      BY <2>2, <2>3 DEF s
    <3>4. /\ InOrder(AllChunks) /\ FromSentences(AllChunks, matches, turn)
          /\ LettersKept(AllChunks, turn)
      BY DEF Grouped
    <3> QED  BY <1>2, <2>3, <3>1, <3>2, <3>3, <3>4, ExtendKeeps
  <2>6. LargeAlone(ds, size)
    <3>1. ASSUME NEW i \in DOMAIN chunks, Len(ds[i]) > 1, NEW k \in DOMAIN ds[i]
          PROVE  Width(ds[i][k]) <= size
      <4>1. i \in DOMAIN AllChunks /\ AllChunks[i] = ds[i]
        BY <1>2, <2>3, <2>4
      <4> QED  BY <4>1, <3>1 DEF Grouped, LargeAlone
    <3>2. ASSUME current # << >>, NEW k \in DOMAIN c PROVE Width(c[k]) <= size
      <4>1. ~(ChunkLength(current) + Width(s) > size)
        BY <3>2, <1>10 DEF Overflows
      <4>2. /\ current \in Seq(Pieces) /\ size \in Nat
            /\ ChunkLength(current) \in Nat /\ Width(s) \in Nat
        BY <1>2, <1>3, ChunkLengthGrows, WidthType
      <4>3. CASE k = b
        BY <4>1, <4>2, <4>3, <1>2, <2>2
      <4>4. CASE k \in DOMAIN current /\ Len(current) > 1
        <5>1. a \in DOMAIN AllChunks /\ AllChunks[a] = current
          BY <2>3, <2>4
        <5>2. Width(current[k]) <= size
          BY <4>4, <5>1 DEF Grouped, LargeAlone
        <5> QED  BY <4>4, <5>2, <2>2
      <4>5. CASE k \in DOMAIN current /\ Len(current) = 1
        <5>1. current = <<current[1]>> /\ k = 1 /\ current[1] \in Pieces
          BY <4>2, <4>5, Lengths
        <5>2. ChunkLength(current) = Width(current[1])
          BY <4>2, <5>1, ChunkLengthGrows
        <5>3. c[k] = current[1]
          BY <4>5, <5>1, <2>2
        <5> QED  BY <4>1, <4>2, <5>2, <5>3
      <4>6. Len(current) > 1 \/ Len(current) = 1
        <5>1. Len(current) \in Nat
          BY <4>2, Lengths
        <5>2. Len(current) > 0
          BY <3>2, <4>2, Lengths
        <5> QED  BY <5>1, <5>2, MoreThanOne
      <4> QED  BY <4>3, <4>4, <4>5, <4>6, <2>2
    <3>3. Len(c) > 1 => current # << >>
      BY <2>2, <1>2 DEF b
    <3>4. \A i \in DOMAIN ds : i = a \/ i \in DOMAIN chunks
      BY <2>3
    <3> QED  BY <3>1, <3>2, <3>3, <3>4, <2>3 DEF LargeAlone
  <2> QED  BY <2>1, <2>5, <2>6
<1> QED  BY <1>1, <1>8, <1>9, <1>10
-----------------------------------------------------------------------------
LEMMA NextInv == Inv /\ [Next]_vars => Inv'
<1> SUFFICES ASSUME Inv, [Next]_vars, strategy' = "sentence"
             PROVE  /\ ~done' => Typed' /\ Search' /\ Grouped'
                    /\ done' => OnlyGluedTextIsLost' /\ SentencesInOrder' /\ LargeSentencesStandAlone'
  BY DEF Inv
<1>1. CASE UNCHANGED vars
  <2>1. UNCHANGED callVars /\ UNCHANGED <<chunks, done, sentenceVars>>
    BY <1>1 DEF vars, callVars
  <2>2. strategy = "sentence"
    BY <2>1, SameText
  <2>3. CASE ~done
    <3>1. Typed'
      BY <2>1, <2>2, <2>3, SameText DEF Inv, Typed, sentenceVars
    <3>2. Search'
      BY <2>1, <2>2, <2>3, SameText DEF Inv, Search, sentenceVars
    <3>3. AllChunks' = AllChunks
      BY <2>1 DEF AllChunks, sentenceVars
    <3>4. LettersKept(AllChunks, turn)'
      BY <2>1, <2>2, <2>3, <3>3, SameText DEF Inv, Grouped, LettersKept, sentenceVars
    <3>5. Grouped'
      BY <2>1, <2>2, <2>3, <3>3, <3>4, SameText DEF Inv, Grouped, sentenceVars
    <3> QED  BY <2>1, <2>3, <3>1, <3>2, <3>5
  <2>4. CASE done
    <3>1. OnlyGluedTextIsLost'
      BY <2>1, <2>2, <2>4, SameText DEF Inv, OnlyGluedTextIsLost, Kept
    <3>2. SentencesInOrder'
      BY <2>1, <2>2, <2>4 DEF Inv, SentencesInOrder
    <3>3. LargeSentencesStandAlone'
      BY <2>1, <2>2, <2>4, SameText DEF Inv, LargeSentencesStandAlone
    <3> QED  BY <2>1, <2>4, <3>1, <3>2, <3>3
  <2> QED  BY <2>3, <2>4
<1>2. CASE Next
  <2>1. CASE strategy = "sentence" /\ SentenceChunk
    <3>1. ~done /\ UNCHANGED callVars
      BY <2>1 DEF SentenceChunk, FindSentence, ReturnText, Group, Finish
    <3>2. Typed /\ Search /\ Grouped
      BY <2>1, <3>1 DEF Inv
    <3>3. CASE FindSentence
      BY <3>1, <3>2, <3>3, FindSentenceInv DEF FindSentence
    <3>4. CASE ReturnText
      BY <3>2, <3>4, ReturnTextInv DEF ReturnText
    <3>5. CASE Group
      BY <3>1, <3>2, <3>5, GroupInv DEF Group
    <3>6. CASE Finish
      BY <3>2, <3>6, FinishInv DEF Finish
    <3> QED  BY <2>1, <3>3, <3>4, <3>5, <3>6 DEF SentenceChunk
  <2>2. CASE strategy \in {"fixed", "recursive"} /\ UNCHANGED callVars
    BY <2>2, SameText
  <2> QED  BY <1>2, <2>1, <2>2 DEF Next, FixedSizeChunk, RecursiveChunk
<1> QED  BY <1>1, <1>2

LEMMA Invariant == Spec => []Inv
<1>1. Init => Inv
  BY InitInv
<1>2. Inv /\ [Next]_vars => Inv'
  BY NextInv
<1> QED  BY <1>1, <1>2, PTL DEF Spec

(* SentenceChunker.Chunk loses the letters in front of stops that glue     *)
(* them to what follows, and no others.                                    *)
THEOREM SentencesLoseOnlyGluedText == Spec => []OnlyGluedTextIsLost
<1>1. Inv => OnlyGluedTextIsLost
  BY DEF Inv, OnlyGluedTextIsLost
<1> QED  BY <1>1, Invariant, PTL

(* Its chunks hold the sentences in the order of the text, each one once.  *)
THEOREM SentencesStayInOrder == Spec => []SentencesInOrder
<1>1. Inv => SentencesInOrder
  <2> SUFFICES ASSUME Inv, strategy = "sentence", ~done PROVE SentencesInOrder
    BY DEF Inv, SentencesInOrder
  <2>1. InOrder(AllChunks) /\ chunks \in Seq(Seq(Pieces)) /\ current \in Seq(Pieces)
    BY DEF Inv, Grouped, Typed
  <2>2. \A i \in DOMAIN chunks : i \in DOMAIN AllChunks /\ AllChunks[i] = chunks[i]
    BY <2>1, Appended DEF AllChunks
  <2> QED  BY <2>1, <2>2 DEF InOrder, SentencesInOrder
<1> QED  BY <1>1, Invariant, PTL

(* A sentence larger than the size is the only one of its chunk.           *)
THEOREM LargeSentencesAreAlone == Spec => []LargeSentencesStandAlone
<1>1. Inv => LargeSentencesStandAlone
  <2> SUFFICES ASSUME Inv, strategy = "sentence", ~done PROVE LargeSentencesStandAlone
    BY DEF Inv, LargeSentencesStandAlone
  <2>1. /\ LargeAlone(AllChunks, size) /\ size \in Nat
        /\ chunks \in Seq(Seq(Pieces)) /\ current \in Seq(Pieces)
    BY DEF Inv, Grouped, Typed
  <2>2. \A i \in DOMAIN chunks : i \in DOMAIN AllChunks /\ AllChunks[i] = chunks[i]
    BY <2>1, Appended DEF AllChunks
  <2>3. LargeAlone(chunks, size)
    BY <2>1, <2>2 DEF LargeAlone
  <2> QED  BY <2>1, <2>3, LargeAloneMeans DEF LargeSentencesStandAlone
<1> QED  BY <1>1, Invariant, PTL
-----------------------------------------------------------------------------
(***************************************************************************)
(* The strategies that cut a piece of the text into pieces.  Cuts: from a  *)
(* to b, each advancing on those before it and leaving no letter between   *)
(* it and the one before.  Apart: and none touches another, as the parts   *)
(* between separators.                                                     *)
(***************************************************************************)
NoLetter(a, b) == \A i \in a..(b - 1) : Kind(i) # "letter"

Before(x, y) == x.from <= y.from /\ x.to < y.to

Reaches(ds, a, b) ==
    /\ ds \in Seq(Pieces)
    /\ ds # << >>
    /\ ds[1].from = a
    /\ ds[Len(ds)].to = b
    /\ \A i \in 2..Len(ds) : NoLetter(ds[i - 1].to, ds[i].from)

Cuts(ds, a, b) ==
    /\ Reaches(ds, a, b)
    /\ \A i, j \in 1..Len(ds) : i < j => Before(ds[i], ds[j])

Apart(ds, a, b) ==
    /\ Reaches(ds, a, b)
    /\ \A i, j \in 1..Len(ds) : i < j => ds[i].to < ds[j].from

LEMMA PieceEnds ==
    ASSUME NEW p \in Pieces
    PROVE  /\ p.from \in Int /\ p.to \in Int /\ p.from <= p.to
           /\ 0 <= p.from /\ p.to <= Len(text)
  BY DEF Pieces

LEMMA BeforeTransitive ==
    ASSUME NEW x \in Pieces, NEW y \in Pieces, NEW z \in Pieces,
           Before(x, y), Before(y, z)
    PROVE  Before(x, z)
  BY PieceEnds DEF Before

LEMMA BehindIsBefore ==
    ASSUME NEW x \in Pieces, NEW y \in Pieces, x.to < y.from
    PROVE  Before(x, y)
  BY PieceEnds DEF Before

LEMMA ApartCuts ==
    ASSUME Len(text) \in Nat, NEW ds, NEW a, NEW b, Apart(ds, a, b)
    PROVE  Cuts(ds, a, b)
<1>1. ASSUME NEW i \in 1..Len(ds), NEW j \in 1..Len(ds), i < j
      PROVE  Before(ds[i], ds[j])
  <2>1. ds \in Seq(Pieces)
    BY DEF Apart, Reaches
  <2>2. ds[i] \in Pieces /\ ds[j] \in Pieces
    BY <2>1
  <2>3. ds[i].to < ds[j].from
    BY <1>1 DEF Apart
  <2> QED  BY <2>2, <2>3, BehindIsBefore
<1> QED  BY <1>1 DEF Cuts, Apart

LEMMA OnePiece ==
    ASSUME NEW p \in Pieces
    PROVE  Apart(<<p>>, p.from, p.to)
<1> DEFINE ds == <<p>>
<1>1. ds \in Seq(Pieces) /\ ds # << >> /\ Len(ds) = 1 /\ ds[1] = p
  OBVIOUS
<1> HIDE DEF ds
<1>2. Apart(ds, p.from, p.to)
  BY <1>1 DEF Apart, Reaches
<1> QED  BY <1>2 DEF ds

(* A sequence reaches on when something is appended to it.                 *)
LEMMA AppendReaches ==
    ASSUME NEW ds, NEW a, NEW b, Reaches(ds, a, b),
           NEW p \in Pieces, NoLetter(b, p.from)
    PROVE  Reaches(Append(ds, p), a, p.to)
<1> DEFINE es == Append(ds, p)
           n == Len(ds)
<1>1. ds \in Seq(Pieces) /\ ds # << >>
  BY DEF Reaches
<1>2. /\ es \in Seq(Pieces) /\ es # << >> /\ Len(es) = n + 1 /\ n \in Nat /\ n > 0
      /\ es[n + 1] = p /\ \A i \in 1..n : es[i] = ds[i]
  BY <1>1
<1> HIDE DEF es, n
<1>3. n = Len(ds)
  BY DEF n
<1>4. es[1].from = a /\ es[Len(es)].to = p.to
  BY <1>2, <1>3 DEF Reaches
<1>5. ASSUME NEW i \in 2..Len(es) PROVE NoLetter(es[i - 1].to, es[i].from)
  <2>1. CASE i = n + 1
    <3>1. n \in 1..n /\ i - 1 = n
      BY <2>1, <1>2
    <3>2. es[i - 1].to = b /\ es[i] = p
      BY <2>1, <3>1, <1>2, <1>3 DEF Reaches
    <3> QED  BY <3>2
  <2>2. CASE i \in 2..n
    <3>1. i \in 1..n /\ i - 1 \in 1..n
      BY <2>2, <1>2
    <3>2. es[i] = ds[i] /\ es[i - 1] = ds[i - 1]
      BY <3>1, <1>2
    <3> QED  BY <2>2, <3>2, <1>3 DEF Reaches
  <2> QED  BY <2>1, <2>2, <1>2
<1>6. Reaches(es, a, p.to)
  BY <1>2, <1>4, <1>5 DEF Reaches
<1> QED  BY <1>6 DEF es

LEMMA AppendCuts ==
    ASSUME Len(text) \in Nat, NEW ds, NEW a, NEW b, Cuts(ds, a, b),
           NEW p \in Pieces, Before(ds[Len(ds)], p), NoLetter(b, p.from)
    PROVE  Cuts(Append(ds, p), a, p.to)
<1> DEFINE es == Append(ds, p)
           n == Len(ds)
<1>1. ds \in Seq(Pieces) /\ ds # << >>
  BY DEF Cuts, Reaches
<1>2. /\ es \in Seq(Pieces) /\ Len(es) = n + 1 /\ n \in Nat /\ n > 0
      /\ es[n + 1] = p /\ \A i \in 1..n : es[i] = ds[i] /\ ds[i] \in Pieces
  BY <1>1
<1>3. Reaches(es, a, p.to)
  BY AppendReaches DEF Cuts
<1>4. n = Len(ds)
  OBVIOUS
<1> HIDE DEF es, n
<1>5. ASSUME NEW i \in 1..Len(es), NEW j \in 1..Len(es), i < j
      PROVE  Before(es[i], es[j])
  <2>1. i \in 1..n /\ es[i] = ds[i]
    BY <1>2, <1>5
  <2>2. CASE j \in 1..n
    <3>1. es[j] = ds[j]
      BY <2>2, <1>2
    <3> QED  BY <2>1, <2>2, <3>1, <1>4, <1>5 DEF Cuts
  <2>3. CASE j = n + 1
    <3>1. es[j] = p /\ n \in 1..n
      BY <2>3, <1>2
    <3>2. i = n \/ Before(ds[i], ds[n])
      BY <2>1, <3>1, <1>4 DEF Cuts
    <3>3. Before(ds[n], p)
      BY <1>4
    <3>4. CASE i = n
      BY <2>1, <3>1, <3>3, <3>4
    <3>5. CASE Before(ds[i], ds[n])
      <4>1. ds[i] \in Pieces /\ ds[n] \in Pieces
        BY <2>1, <3>1, <1>2
      <4>2. Before(ds[i], p)
        BY <4>1, <3>3, <3>5, BeforeTransitive
      <4> QED  BY <2>1, <3>1, <4>2
    <3> QED  BY <3>2, <3>4, <3>5
  <2> QED  BY <2>2, <2>3, <1>2
<1>6. Cuts(es, a, p.to)
  BY <1>3, <1>5 DEF Cuts
<1> QED  BY <1>6 DEF es

LEMMA AppendApart ==
    ASSUME Len(text) \in Nat, NEW ds, NEW a, NEW b, Apart(ds, a, b),
           NEW p \in Pieces, b < p.from, NoLetter(b, p.from)
    PROVE  Apart(Append(ds, p), a, p.to)
<1> DEFINE es == Append(ds, p)
           n == Len(ds)
<1>1. ds \in Seq(Pieces) /\ ds # << >> /\ ds[n].to = b
  BY DEF Apart, Reaches
<1>2. /\ es \in Seq(Pieces) /\ Len(es) = n + 1 /\ n \in Nat /\ n > 0
      /\ es[n + 1] = p /\ \A i \in 1..n : es[i] = ds[i] /\ ds[i] \in Pieces
  BY <1>1
<1>3. Reaches(es, a, p.to)
  BY AppendReaches DEF Apart
<1>4. n = Len(ds)
  OBVIOUS
<1> HIDE DEF es, n
<1>5. ASSUME NEW i \in 1..Len(es), NEW j \in 1..Len(es), i < j
      PROVE  es[i].to < es[j].from
  <2>1. i \in 1..n /\ es[i] = ds[i]
    BY <1>2, <1>5
  <2>2. CASE j \in 1..n
    <3>1. es[j] = ds[j]
      BY <2>2, <1>2
    <3> QED  BY <2>1, <2>2, <3>1, <1>4, <1>5 DEF Apart
  <2>3. CASE j = n + 1
    <3>1. es[j] = p /\ n \in 1..n
      BY <2>3, <1>2
    <3>2. i = n \/ ds[i].to < ds[n].from
      BY <2>1, <3>1, <1>4 DEF Apart
    <3>3. /\ ds[i].to \in Int /\ ds[n].from \in Int /\ ds[n].to \in Int
          /\ ds[n].from <= ds[n].to /\ p.from \in Int
      BY <2>1, <3>1, <1>2, PieceEnds
    <3> QED  BY <2>1, <3>1, <3>2, <3>3, <1>1
  <2> QED  BY <2>2, <2>3, <1>2
<1>6. Apart(es, a, p.to)
  BY <1>3, <1>5 DEF Apart
<1> QED  BY <1>6 DEF es

(* What is left when k pieces are removed from the front.                  *)
LEMMA SuffixApart ==
    ASSUME Len(text) \in Nat, NEW ds, NEW a, NEW b, Apart(ds, a, b),
           NEW k \in 0..(Len(ds) - 1)
    PROVE  /\ Apart(SubSeq(ds, k + 1, Len(ds)), ds[k + 1].from, b)
           /\ a <= ds[k + 1].from /\ ds[k + 1].from <= b
<1> DEFINE es == SubSeq(ds, k + 1, Len(ds))
           n == Len(ds)
<1>1. ds \in Seq(Pieces) /\ ds # << >> /\ ds[n].to = b /\ ds[1].from = a
  BY DEF Apart, Reaches
<1>2. n \in Nat /\ n > 0 /\ k \in Nat /\ k < n /\ \A i \in 1..n : ds[i] \in Pieces
  BY <1>1
<1>3. /\ es \in Seq(Pieces) /\ Len(es) = n - k
      /\ \A i \in 1..(n - k) : es[i] = ds[i + k]
  BY <1>1, <1>2
<1>4. n = Len(ds)
  OBVIOUS
<1> HIDE DEF es, n
<1>5. es # << >> /\ es[1].from = ds[k + 1].from /\ es[Len(es)].to = b
  <2>1. 1 \in 1..(n - k) /\ n - k \in 1..(n - k) /\ n - k + k = n /\ Len(es) # 0
    BY <1>2, <1>3
  <2> QED  BY <2>1, <1>1, <1>3
<1>6. ASSUME NEW i \in 2..Len(es) PROVE NoLetter(es[i - 1].to, es[i].from)
  <2>1. /\ i \in 1..(n - k) /\ i - 1 \in 1..(n - k) /\ i + k \in 2..n
        /\ (i - 1) + k = (i + k) - 1
    BY <1>2, <1>3
  <2>2. es[i] = ds[i + k] /\ es[i - 1] = ds[(i + k) - 1]
    BY <2>1, <1>3
  <2> QED  BY <2>1, <2>2, <1>4 DEF Apart, Reaches
<1>7. ASSUME NEW i \in 1..Len(es), NEW j \in 1..Len(es), i < j
      PROVE  es[i].to < es[j].from
  <2>1. /\ i + k \in 1..n /\ j + k \in 1..n /\ i + k < j + k
        /\ es[i] = ds[i + k] /\ es[j] = ds[j + k]
    BY <1>2, <1>3, <1>7
  <2> QED  BY <2>1, <1>4 DEF Apart
<1>8. a <= ds[k + 1].from /\ ds[k + 1].from <= b
  <2>1. 1 \in 1..n /\ k + 1 \in 1..n /\ n \in 1..n
    BY <1>2
  <2>2. k = 0 \/ ds[1].to < ds[k + 1].from
    BY <2>1, <1>4 DEF Apart
  <2>3. k + 1 = n \/ ds[k + 1].to < ds[n].from
    BY <2>1, <1>2, <1>4 DEF Apart
  <2>4. /\ ds[1].from \in Int /\ ds[1].to \in Int /\ ds[1].from <= ds[1].to
        /\ ds[k + 1].from \in Int /\ ds[k + 1].to \in Int
        /\ ds[k + 1].from <= ds[k + 1].to
        /\ ds[n].from \in Int /\ ds[n].to \in Int /\ ds[n].from <= ds[n].to
    BY <2>1, <1>2, PieceEnds
  <2> QED  BY <2>2, <2>3, <2>4, <1>1
<1>9. Apart(es, ds[k + 1].from, b)
  BY <1>3, <1>5, <1>6, <1>7 DEF Apart, Reaches
<1> QED  BY <1>8, <1>9 DEF es

(* The last piece may become a longer one.                                 *)
LEMMA LongerLast ==
    ASSUME Len(text) \in Nat, NEW ds \in Seq(Pieces), NEW x \in Pieces,
           NEW y \in Pieces, NEW a, NEW b, Cuts(Append(ds, x), a, b),
           y.from = x.from, x.to <= y.to
    PROVE  Cuts(Append(ds, y), a, y.to)
<1> DEFINE es == Append(ds, x)
           fs == Append(ds, y)
           n == Len(ds)
<1>1. n \in Nat /\ \A i \in 1..n : ds[i] \in Pieces
  OBVIOUS
<1>2. /\ es \in Seq(Pieces) /\ Len(es) = n + 1 /\ es[n + 1] = x
      /\ \A i \in 1..n : es[i] = ds[i]
  OBVIOUS
<1>3. /\ fs \in Seq(Pieces) /\ Len(fs) = n + 1 /\ fs[n + 1] = y /\ fs # << >>
      /\ \A i \in 1..n : fs[i] = ds[i]
  OBVIOUS
<1>4. Cuts(es, a, b)
  OBVIOUS
<1> HIDE DEF es, fs, n
<1>5. \A i \in 1..(n + 1) : i = n + 1 \/ i \in 1..n
  BY <1>1
<1>6. /\ x.from \in Int /\ x.to \in Int /\ y.from \in Int /\ y.to \in Int
      /\ \A i \in 1..n : ds[i].from \in Int /\ ds[i].to \in Int
  BY <1>1, PieceEnds
<1>7. \A i \in 1..(n + 1) : fs[i].from = es[i].from
  BY <1>2, <1>3, <1>5
<1>8. fs[1].from = a /\ fs[Len(fs)].to = y.to
  <2>1. 1 \in 1..(n + 1)
    BY <1>1
  <2> QED  BY <2>1, <1>3, <1>4, <1>7 DEF Cuts, Reaches
<1>9. ASSUME NEW i \in 2..Len(fs) PROVE NoLetter(fs[i - 1].to, fs[i].from)
  <2>1. i \in 1..(n + 1) /\ i - 1 \in 1..n /\ i \in 2..Len(es)
    BY <1>1, <1>2, <1>3
  <2>2. fs[i - 1] = es[i - 1] /\ fs[i].from = es[i].from
    BY <2>1, <1>2, <1>3, <1>7
  <2> QED  BY <2>1, <2>2, <1>4 DEF Cuts, Reaches
<1>10. ASSUME NEW i \in 1..Len(fs), NEW j \in 1..Len(fs), i < j
       PROVE  Before(fs[i], fs[j])
  <2>1. i \in 1..n /\ j \in 1..(n + 1) /\ fs[i] = ds[i] /\ es[i] = ds[i]
    BY <1>1, <1>2, <1>3, <1>10
  <2>2. Before(es[i], es[j])
    BY <2>1, <1>1, <1>2, <1>4, <1>10 DEF Cuts
  <2>3. CASE j \in 1..n
    BY <2>1, <2>2, <2>3, <1>2, <1>3
  <2>4. CASE j = n + 1
    BY <2>1, <2>2, <2>4, <1>2, <1>3, <1>6 DEF Before
  <2> QED  BY <2>1, <2>3, <2>4, <1>5
<1>11. Cuts(fs, a, y.to)
  BY <1>3, <1>8, <1>9, <1>10 DEF Cuts, Reaches
<1> QED  BY <1>11 DEF fs

(* The pieces of one part, behind those of the parts before it.            *)
LEMMA ConcatCuts ==
    ASSUME Len(text) \in Nat, NEW ds, NEW a, NEW b, Cuts(ds, a, b),
           NEW es, NEW c, NEW d, Cuts(es, c, d), b < c, NoLetter(b, c)
    PROVE  Cuts(ds \o es, a, d)
<1> DEFINE fs == ds \o es
           n == Len(ds)
           m == Len(es)
<1>1. /\ ds \in Seq(Pieces) /\ ds # << >> /\ ds[1].from = a /\ ds[n].to = b
      /\ es \in Seq(Pieces) /\ es # << >> /\ es[1].from = c /\ es[m].to = d
  BY DEF Cuts, Reaches
<1>2. /\ n \in Nat /\ n > 0 /\ \A i \in 1..n : ds[i] \in Pieces
      /\ m \in Nat /\ m > 0 /\ \A i \in 1..m : es[i] \in Pieces
  BY <1>1
<1>3. /\ fs \in Seq(Pieces) /\ Len(fs) = n + m
      /\ \A i \in 1..n : fs[i] = ds[i]
      /\ \A i \in 1..m : fs[n + i] = es[i]
  BY <1>1, <1>2
<1>4. n = Len(ds) /\ m = Len(es)
  OBVIOUS
<1> HIDE DEF fs, n, m
<1>5. fs # << >> /\ fs[1].from = a /\ fs[Len(fs)].to = d
  <2>1. 1 \in 1..n /\ m \in 1..m /\ Len(fs) # 0
    BY <1>2, <1>3
  <2> QED  BY <2>1, <1>1, <1>3
<1>6. ASSUME NEW i \in 2..Len(fs) PROVE NoLetter(fs[i - 1].to, fs[i].from)
  <2>1. CASE i \in 2..n
    <3>1. i \in 1..n /\ i - 1 \in 1..n
      BY <2>1, <1>2
    <3>2. fs[i] = ds[i] /\ fs[i - 1] = ds[i - 1]
      BY <3>1, <1>3
    <3> QED  BY <2>1, <3>2, <1>4 DEF Cuts, Reaches
  <2>2. CASE i = n + 1
    <3>1. n \in 1..n /\ 1 \in 1..m /\ i - 1 = n
      BY <2>2, <1>2
    <3>2. fs[i] = es[1] /\ fs[i - 1] = ds[n]
      BY <2>2, <3>1, <1>3
    <3> QED  BY <3>2, <1>1
  <2>3. CASE i \in (n + 2)..(n + m)
    <3>1. /\ i - n \in 2..m /\ i - n \in 1..m /\ (i - n) - 1 \in 1..m
          /\ n + (i - n) = i /\ n + ((i - n) - 1) = i - 1
      BY <2>3, <1>2
    <3>2. fs[i] = es[i - n] /\ fs[i - 1] = es[(i - n) - 1]
      BY <3>1, <1>3
    <3> QED  BY <3>1, <3>2, <1>4 DEF Cuts, Reaches
  <2> QED  BY <2>1, <2>2, <2>3, <1>2, <1>3
<1>7. ASSUME NEW i \in 1..n, NEW j \in 1..m PROVE Before(ds[i], es[j])
  <2>1. i = n \/ Before(ds[i], ds[n])
    BY <1>2, <1>4 DEF Cuts
  <2>2. j = 1 \/ Before(es[1], es[j])
    BY <1>2, <1>4 DEF Cuts
  <2>3. 1 \in 1..m /\ n \in 1..n
    BY <1>2
  <2>4. ds[i] \in Pieces /\ ds[n] \in Pieces /\ es[1] \in Pieces /\ es[j] \in Pieces
    BY <2>3, <1>2
  <2>5. ds[n].to < es[1].from
    BY <1>1
  <2>6. Before(ds[n], es[1])
    BY <2>4, <2>5, BehindIsBefore
  <2>7. Before(ds[i], es[1])
    BY <2>1, <2>4, <2>6, BeforeTransitive
  <2> QED  BY <2>2, <2>4, <2>7, BeforeTransitive
<1>8. ASSUME NEW i \in 1..Len(fs), NEW j \in 1..Len(fs), i < j
      PROVE  Before(fs[i], fs[j])
  <2>1. CASE j \in 1..n
    <3>1. i \in 1..n /\ fs[i] = ds[i] /\ fs[j] = ds[j]
      BY <2>1, <1>2, <1>3, <1>8
    <3> QED  BY <2>1, <3>1, <1>4, <1>8 DEF Cuts
  <2>2. CASE j \in (n + 1)..(n + m)
    <3>1. j - n \in 1..m /\ n + (j - n) = j
      BY <2>2, <1>2
    <3>2. fs[j] = es[j - n]
      BY <3>1, <1>3
    <3>3. CASE i \in 1..n
      BY <3>1, <3>2, <3>3, <1>3, <1>7
    <3>4. CASE i \in (n + 1)..(n + m)
      <4>1. i - n \in 1..m /\ n + (i - n) = i /\ i - n < j - n
        BY <3>4, <2>2, <1>2, <1>8
      <4>2. fs[i] = es[i - n]
        BY <4>1, <1>3
      <4> QED  BY <3>1, <3>2, <4>1, <4>2, <1>4 DEF Cuts
    <3> QED  BY <3>3, <3>4, <1>2, <1>3
  <2> QED  BY <2>1, <2>2, <1>2, <1>3
<1>9. Cuts(fs, a, d)
  BY <1>3, <1>5, <1>6, <1>8 DEF Cuts, Reaches
<1> QED  BY <1>9 DEF fs
-----------------------------------------------------------------------------
(***************************************************************************)
(* mergeDocs.  What a turn of its loop leaves is well formed whatever the  *)
(* parts are; of parts that lie apart it makes pieces that cut the text up *)
(* to the last part, the one joined from the block being the last.         *)
(***************************************************************************)
Parameters ==
    /\ text \in Seq({"letter", "space", "newline"})
    /\ Len(text) \in Nat
    /\ size \in Nat \ {0}
    /\ overlap \in 0..(size - 1)

Spans == [from : 0..Len(text), to : 0..Len(text)]

MergeStates == [merged : Seq(Spans), block : Seq(Spans), length : Int]

NothingMerged == [merged |-> << >>, block |-> << >>, length |-> 0]

LEMMA RemovedType ==
    ASSUME NEW block, Len(block) \in Nat, NEW length, NEW width
    PROVE  Removed(block, length, width) \in 0..Len(block)
<1> DEFINE T == {k \in 0..Len(block) :
                    k = Len(block) \/ LengthWithout(k, block, length, width) <= overlap}
<1>1. Len(block) \in T /\ T \subseteq Nat
  OBVIOUS
<1>2. Min(T) \in T
  BY <1>1, MinIsLeast
<1>3. Removed(block, length, width) = Min(T)
  BY DEF Removed
<1> QED  BY <1>2, <1>3

LEMMA JoinType ==
    ASSUME NEW block \in Seq(Spans), block # << >>
    PROVE  Join(block) \in Spans
<1>1. block[1] \in Spans /\ block[Len(block)] \in Spans
  OBVIOUS
<1>2. block[1].from \in 0..Len(text) /\ block[Len(block)].to \in 0..Len(text)
  BY <1>1 DEF Spans
<1>3. Join(block) = [from |-> block[1].from, to |-> block[Len(block)].to]
  BY DEF Join, Last
<1> QED  BY <1>2, <1>3 DEF Spans

LEMMA LengthWithoutType ==
    ASSUME Parameters, NEW block \in Seq(Spans), NEW length \in Int, NEW width \in Nat,
           NEW k \in 0..Len(block)
    PROVE  LengthWithout(k, block, length, width) \in Int
<1>1. CASE k = 0
  BY <1>1 DEF LengthWithout
<1>2. CASE k # 0
  <2>1. k \in 1..Len(block) /\ 1 \in 1..Len(block)
    BY <1>2
  <2>2. block[k] \in Spans /\ block[1] \in Spans
    BY <2>1
  <2>3. block[k].to \in Int /\ block[1].from \in Int
    BY <2>2 DEF Spans, Parameters
  <2> QED  BY <1>2, <2>3 DEF LengthWithout
<1> QED  BY <1>1, <1>2

LEMMA PiecesAreSpans == Pieces \subseteq Spans /\ \A p \in Pieces : Width(p) \in Nat
  BY WidthType DEF Pieces, Spans

LEMMA MergeDocType ==
    ASSUME Parameters, NEW m \in MergeStates, NEW doc \in Pieces, NEW width \in Nat
    PROVE  MergeDoc(m, doc, width) \in MergeStates
<1> DEFINE full == Exceeds(m.length, doc, width) /\ m.block # << >>
           k == IF full THEN Removed(m.block, m.length, width) ELSE 0
           length == LengthWithout(k, m.block, m.length, width)
           merged == IF full THEN Append(m.merged, Join(m.block)) ELSE m.merged
           block == Append(SubSeq(m.block, k + 1, Len(m.block)), doc)
           longer == IF length = 0 THEN Width(doc) ELSE length + Width(doc) + width
<1>1. m.merged \in Seq(Spans) /\ m.block \in Seq(Spans) /\ m.length \in Int
  BY DEF MergeStates
<1>2. Len(m.block) \in Nat /\ doc \in Spans /\ Width(doc) \in Nat
  BY <1>1, PiecesAreSpans
<1>3. k \in 0..Len(m.block)
  BY <1>2, RemovedType
<1>4. MergeDoc(m, doc, width) = [merged |-> merged, block |-> block, length |-> longer]
  BY DEF MergeDoc
<1>5. merged \in Seq(Spans)
  <2>1. CASE full
    <3>1. Join(m.block) \in Spans
      BY <2>1, <1>1, JoinType
    <3> QED  BY <2>1, <3>1, <1>1
  <2>2. CASE ~full
    BY <2>2, <1>1
  <2> QED  BY <2>1, <2>2
<1> HIDE DEF full, merged, k
<1>6. block \in Seq(Spans)
  BY <1>1, <1>2, <1>3
<1>7. length \in Int
  BY <1>1, <1>3, LengthWithoutType
<1> HIDE DEF length
<1>8. longer \in Int
  BY <1>2, <1>7
<1> HIDE DEF block, longer
<1> QED  BY <1>4, <1>5, <1>6, <1>8 DEF MergeStates

AreMerges(f, docs, width) ==
    f = [n \in 0..Len(docs) |->
            IF n = 0 THEN [merged |-> << >>, block |-> << >>, length |-> 0]
            ELSE MergeDoc(f[n - 1], docs[n], width)]

LEMMA MergesExist ==
    ASSUME Parameters, NEW docs \in Seq(Pieces), NEW width \in Nat
    PROVE  \E f : AreMerges(f, docs, width)
<1> DEFINE step == [n \in 1..Len(docs) |->
                       [m \in MergeStates |-> MergeDoc(m, docs[n], width)]]
<1>1. Len(docs) \in Nat /\ NothingMerged \in MergeStates
  BY DEF NothingMerged, MergeStates
<1>2. \A n \in 1..Len(docs) : docs[n] \in Pieces
  OBVIOUS
<1>3. AreSteps(step, Len(docs), MergeStates)
  BY <1>2, MergeDocType DEF AreSteps
<1>4. \A m \in MergeStates : \A n \in 1..Len(docs) : step[n][m] = MergeDoc(m, docs[n], width)
  OBVIOUS
<1> HIDE DEF step
<1>5. PICK f : IsLoop(f, Len(docs), MergeStates, NothingMerged, step)
  BY <1>1, <1>3, LoopExists, Zenon
<1>6. /\ f \in [0..Len(docs) -> MergeStates] /\ f[0] = NothingMerged
      /\ \A n \in 1..Len(docs) : f[n] = step[n][f[n - 1]]
  BY <1>5 DEF IsLoop
<1>7. ASSUME NEW n \in 1..Len(docs) PROVE f[n] = MergeDoc(f[n - 1], docs[n], width)
  <2>1. n - 1 \in 0..Len(docs)
    BY <1>1
  <2>2. f[n - 1] \in MergeStates
    BY <2>1, <1>6
  <2> QED  BY <2>2, <1>4, <1>6
<1>8. \A n \in 0..Len(docs) : n = 0 \/ n \in 1..Len(docs)
  BY <1>1
<1>9. f = [n \in 0..Len(docs) |->
              IF n = 0 THEN NothingMerged ELSE MergeDoc(f[n - 1], docs[n], width)]
  BY <1>6, <1>7, <1>8
<1> QED  BY <1>9 DEF AreMerges, NothingMerged

LEMMA MergeLoopIs ==
    ASSUME Parameters, NEW docs \in Seq(Pieces), NEW width \in Nat
    PROVE  \E f : /\ f[0] = NothingMerged
                  /\ \A n \in 1..Len(docs) : f[n] = MergeDoc(f[n - 1], docs[n], width)
                  /\ MergeLoop(docs, width) = f[Len(docs)]
<1> DEFINE f == CHOOSE f : AreMerges(f, docs, width)
<1>1. AreMerges(f, docs, width)
  BY MergesExist
<1>2. MergeLoop(docs, width) = f[Len(docs)]
  BY Zenon DEF MergeLoop, AreMerges
<1> HIDE DEF f
<1>3. Len(docs) \in Nat
  OBVIOUS
<1>4. f[0] = NothingMerged
  BY <1>1, <1>3 DEF AreMerges, NothingMerged
<1>5. ASSUME NEW n \in 1..Len(docs) PROVE f[n] = MergeDoc(f[n - 1], docs[n], width)
  <2>1. n \in 0..Len(docs) /\ n # 0
    BY <1>3
  <2> QED  BY <2>1, <1>1 DEF AreMerges
<1> QED  BY <1>2, <1>4, <1>5

LEMMA MergeType ==
    ASSUME Parameters, NEW docs \in Seq(Pieces), NEW width \in Nat
    PROVE  Merge(docs, width) \in Seq(Spans)
<1>1. PICK f : /\ f[0] = NothingMerged
               /\ \A n \in 1..Len(docs) : f[n] = MergeDoc(f[n - 1], docs[n], width)
               /\ MergeLoop(docs, width) = f[Len(docs)]
  BY MergeLoopIs
<1> DEFINE T == {n \in 0..Len(docs) : f[n] \in MergeStates}
<1>2. Len(docs) \in Nat /\ 0 \in T
  <2>1. NothingMerged \in MergeStates
    BY DEF NothingMerged, MergeStates
  <2> QED  BY <2>1, <1>1
<1>3. ASSUME NEW n \in 1..Len(docs), n - 1 \in T PROVE n \in T
  <2>1. docs[n] \in Pieces
    OBVIOUS
  <2>2. MergeDoc(f[n - 1], docs[n], width) \in MergeStates
    BY <1>3, <2>1, MergeDocType
  <2>3. n \in 0..Len(docs)
    BY <1>2
  <2> QED  BY <2>2, <2>3, <1>1
<1>4. \A n \in 0..Len(docs) : n \in T
  <2> HIDE DEF T
  <2> QED  BY <1>2, <1>3, Induction
<1> DEFINE m == MergeLoop(docs, width)
<1>5. m \in MergeStates
  BY <1>1, <1>2, <1>4
<1>6. Merge(docs, width) =
        IF m.block = << >> THEN m.merged ELSE Append(m.merged, Join(m.block))
  BY DEF Merge
<1> HIDE DEF m
<1>7. m.merged \in Seq(Spans) /\ m.block \in Seq(Spans)
  BY <1>5 DEF MergeStates
<1>8. m.block # << >> => Join(m.block) \in Spans
  BY <1>7, JoinType
<1> QED  BY <1>6, <1>7, <1>8

LEMMA JoinApart ==
    ASSUME Len(text) \in Nat, NEW block, NEW c, NEW d, Apart(block, c, d)
    PROVE  /\ Join(block) \in Pieces
           /\ Join(block).from = c /\ Join(block).to = d /\ c <= d
<1>1. block \in Seq(Pieces) /\ block # << >> /\ block[1].from = c /\ block[Len(block)].to = d
  BY DEF Apart, Reaches
<1>2. 0 \in 0..(Len(block) - 1)
  BY <1>1
<1>3. c <= d
  BY <1>1, <1>2, SuffixApart
<1>4. Join(block) = [from |-> c, to |-> d]
  BY <1>1 DEF Join, Last
<1>5. block[1] \in Pieces /\ block[Len(block)] \in Pieces
  BY <1>1
<1>6. c \in 0..Len(text) /\ d \in 0..Len(text)
  BY <1>1, <1>5 DEF Pieces
<1>7. [from |-> c, to |-> d] \in Pieces
  BY <1>3, <1>6 DEF Pieces
<1> QED  BY <1>3, <1>4, <1>7

(* The parts from a to d have been handled.                                *)
Blocked(m, a, d) ==
    /\ Apart(m.block, m.block[1].from, d)
    /\ m.merged \in Seq(Pieces)
    /\ Cuts(Append(m.merged, Join(m.block)), a, d)

LEMMA FirstDoc ==
    ASSUME Parameters, NEW doc \in Pieces, NEW width \in Nat
    PROVE  Blocked(MergeDoc(NothingMerged, doc, width), doc.from, doc.to)
<1> DEFINE r == MergeDoc(NothingMerged, doc, width)
           x == LengthWithout(0, << >>, 0, width)
<1>1. r = [merged |-> << >>, block |-> Append(SubSeq(<< >>, 1, 0), doc),
           length |-> IF x = 0 THEN Width(doc) ELSE x + Width(doc) + width]
  BY DEF MergeDoc, NothingMerged
<1> HIDE DEF r, x
<1>2. Append(SubSeq(<< >>, 1, 0), doc) = <<doc>>
  <2> DEFINE q == SubSeq(<< >>, 1, 0)
  <2>1. q = << >>
    BY SubSeqEmpty
  <2> HIDE DEF q
  <2>2. Append(q, doc) = <<doc>>
    BY <2>1
  <2> QED  BY <2>2 DEF q
<1>3. r.merged = << >> /\ r.block = <<doc>>
  BY <1>1, <1>2
<1>4. Apart(<<doc>>, doc.from, doc.to)
  BY OnePiece
<1>5. Join(<<doc>>) = doc
  <2>1. doc = [from |-> doc.from, to |-> doc.to]
    BY DEF Pieces
  <2>2. Join(<<doc>>) = [from |-> doc.from, to |-> doc.to]
    BY DEF Join, Last
  <2> QED  BY <2>1, <2>2
<1>6. Append(<< >>, doc) = <<doc>> /\ <<doc>>[1] = doc
  OBVIOUS
<1>7. Cuts(<<doc>>, doc.from, doc.to)
  BY <1>4, ApartCuts DEF Parameters
<1>8. Blocked(r, doc.from, doc.to)
  BY <1>3, <1>4, <1>5, <1>6, <1>7 DEF Blocked
<1> QED  BY <1>8 DEF r

LEMMA NextDoc ==
    ASSUME Parameters, NEW m, NEW a, NEW d, Blocked(m, a, d), NEW width \in Nat,
           NEW doc \in Pieces, d < doc.from, NoLetter(d, doc.from)
    PROVE  Blocked(MergeDoc(m, doc, width), a, doc.to)
<1> DEFINE r == MergeDoc(m, doc, width)
           full == Exceeds(m.length, doc, width) /\ m.block # << >>
           k == IF full THEN Removed(m.block, m.length, width) ELSE 0
           n == Len(m.block)
           rest == SubSeq(m.block, k + 1, n)
           c == m.block[1].from
           x == Join(m.block)
<1>1. /\ r.merged = IF full THEN Append(m.merged, x) ELSE m.merged
      /\ r.block = Append(rest, doc)
  BY DEF MergeDoc
<1>2. /\ Len(text) \in Nat /\ m.block \in Seq(Pieces) /\ m.block # << >>
      /\ Apart(m.block, c, d) /\ m.merged \in Seq(Pieces)
      /\ Cuts(Append(m.merged, x), a, d)
  BY DEF Blocked, Parameters, Apart, Reaches
<1>3. n \in Nat /\ n > 0 /\ k \in 0..n
  BY <1>2, RemovedType
<1>4. x \in Pieces /\ x.from = c /\ x.to = d /\ c <= d
  BY <1>2, JoinApart
<1>5. /\ c \in Int /\ d \in Int /\ doc.from \in Int /\ doc.to \in Int
      /\ doc.from <= doc.to
  BY <1>4, PieceEnds
<1>6. ~full => k = 0
  OBVIOUS
<1> HIDE DEF r, full, k, x
<1>7. PICK e : Apart(r.block, e, doc.to) /\ c <= e /\ (k = 0 => e = c)
               /\ (e <= d \/ e = doc.from) /\ e \in Int
  <2>1. CASE k = n
    <3>1. r.block = <<doc>>
      <4>1. rest = << >>
        BY <2>1, <1>3, SubSeqEmpty
      <4> HIDE DEF rest
      <4> QED  BY <4>1, <1>1
    <3>2. Apart(r.block, doc.from, doc.to)
      BY <3>1, OnePiece
    <3> QED  BY <3>2, <2>1, <1>3, <1>4, <1>5
  <2>2. CASE k < n
    <3>1. k \in 0..(n - 1)
      BY <2>2, <1>3
    <3> DEFINE e == m.block[k + 1].from
    <3>2. Apart(rest, e, d) /\ c <= e /\ e <= d
      BY <3>1, <1>2, SuffixApart
    <3>3. k + 1 \in 1..n
      BY <3>1, <1>3
    <3>4. e \in Int
      BY <3>3, <1>2, PieceEnds
    <3>5. k = 0 => e = c
      BY <1>3
    <3> HIDE DEF e, rest
    <3>6. Apart(Append(rest, doc), e, doc.to)
      BY <3>2, <1>2, AppendApart
    <3> QED  BY <3>2, <3>4, <3>5, <3>6, <1>1
  <2> QED  BY <2>1, <2>2, <1>3
<1> HIDE DEF rest, c, n
<1> DEFINE y == Join(r.block)
<1>8. y \in Pieces /\ y.from = e /\ y.to = doc.to
  BY <1>2, <1>7, JoinApart
<1> HIDE DEF y
<1>9. CASE ~full
  <2>1. Cuts(Append(m.merged, y), a, y.to)
    BY <1>2, <1>4, <1>5, <1>6, <1>7, <1>8, <1>9, LongerLast
  <2> QED  BY <2>1, <1>1, <1>2, <1>7, <1>8, <1>9 DEF Blocked, Apart, Reaches, r, y
<1>10. CASE full
  <2> DEFINE ds == Append(m.merged, x)
  <2>1. ds \in Seq(Pieces) /\ ds[Len(ds)] = x
    BY <1>2, <1>4
  <2>2. Before(x, y)
    BY <1>4, <1>5, <1>7, <1>8 DEF Before
  <2>3. NoLetter(d, y.from)
    BY <1>5, <1>7, <1>8 DEF NoLetter
  <2>4. r.merged = ds
    BY <1>1, <1>10
  <2> HIDE DEF ds
  <2>5. Cuts(ds, a, d)
    BY <1>2 DEF ds
  <2>6. Cuts(Append(ds, y), a, y.to)
    BY <2>1, <2>2, <2>3, <2>5, <1>2, <1>8, AppendCuts
  <2> QED  BY <2>1, <2>4, <2>6, <1>7, <1>8 DEF Blocked, Apart, Reaches, r, y
<1> QED  BY <1>9, <1>10

LEMMA MergeCuts ==
    ASSUME Parameters, NEW docs, NEW a, NEW b, Apart(docs, a, b), NEW width \in Nat
    PROVE  Cuts(Merge(docs, width), a, b)
<1>1. /\ docs \in Seq(Pieces) /\ docs # << >> /\ docs[1].from = a
      /\ docs[Len(docs)].to = b
  BY DEF Apart, Reaches
<1>2. PICK f : /\ f[0] = NothingMerged
               /\ \A n \in 1..Len(docs) : f[n] = MergeDoc(f[n - 1], docs[n], width)
               /\ MergeLoop(docs, width) = f[Len(docs)]
  BY <1>1, MergeLoopIs
<1> DEFINE T == {n \in 0..Len(docs) : n # 0 => Blocked(f[n], a, docs[n].to)}
<1>3. Len(docs) \in Nat /\ Len(docs) > 0 /\ 0 \in T
  BY <1>1
<1>4. ASSUME NEW n \in 1..Len(docs), n - 1 \in T PROVE n \in T
  <2>1. docs[n] \in Pieces /\ n \in 0..Len(docs)
    BY <1>1
  <2>2. f[n] = MergeDoc(f[n - 1], docs[n], width)
    BY <1>2
  <2>3. CASE n = 1
    BY <2>1, <2>2, <2>3, <1>1, <1>2, FirstDoc
  <2>4. CASE n # 1
    <3>1. n - 1 \in 1..Len(docs) /\ n - 1 < n /\ n - 1 # 0 /\ n \in 2..Len(docs)
      BY <2>4
    <3>2. Blocked(f[n - 1], a, docs[n - 1].to)
      BY <1>4, <3>1
    <3>3. docs[n - 1].to < docs[n].from /\ NoLetter(docs[n - 1].to, docs[n].from)
      BY <3>1 DEF Apart, Reaches
    <3>4. Blocked(f[n], a, docs[n].to)
      BY <2>1, <2>2, <3>2, <3>3, NextDoc
    <3> QED  BY <2>1, <3>4
  <2> QED  BY <2>3, <2>4
<1>5. \A n \in 0..Len(docs) : n \in T
  <2> HIDE DEF T
  <2> QED  BY <1>3, <1>4, Induction
<1> DEFINE m == MergeLoop(docs, width)
<1>6. Blocked(m, a, b)
  BY <1>1, <1>2, <1>3, <1>5
<1>7. m.block # << >> => Merge(docs, width) = Append(m.merged, Join(m.block))
  BY DEF Merge
<1> HIDE DEF m
<1> QED  BY <1>6, <1>7 DEF Blocked, Apart, Reaches
-----------------------------------------------------------------------------
(***************************************************************************)
(* strings.Split: every cut leaves parts that lie apart, the rest being    *)
(* the last of them.                                                       *)
(***************************************************************************)
IsSeparator(sep) ==
    /\ sep \in Seq({"space", "newline"})
    /\ sep # << >>

LEMMA OccurrenceIs ==
    ASSUME Parameters, NEW p \in Pieces, NEW sep, IsSeparator(sep),
           NEW i \in Occurrences(p, sep)
    PROVE  /\ i \in Int /\ p.from <= i /\ i + Len(sep) <= p.to
           /\ NoLetter(i, i + Len(sep))
<1>1. p.from \in Int /\ p.to \in Int /\ Len(sep) \in Nat /\ 0 <= p.from
  BY PieceEnds DEF IsSeparator
<1>2. i \in p.from..(p.to - Len(sep)) /\ SubSeq(text, i + 1, i + Len(sep)) = sep
  BY DEF Occurrences
<1>3. i \in Nat /\ p.from <= i /\ i + Len(sep) <= p.to
  BY <1>1, <1>2
<1>4. i + Len(sep) <= Len(text)
  BY <1>1, <1>3, PieceEnds DEF Parameters
<1>5. ASSUME NEW x \in i..(i + Len(sep) - 1) PROVE Kind(x) # "letter"
  <2>1. x - i + 1 \in 1..Len(sep) /\ x - i + 1 \in 1..((i + Len(sep)) - (i + 1) + 1)
    BY <1>1, <1>3
  <2>2. sep[x - i + 1] \in {"space", "newline"}
    BY <2>1 DEF IsSeparator
  <2>3. SubSeq(text, i + 1, i + Len(sep))[x - i + 1] = text[(i + 1) + (x - i + 1) - 1]
    <3>1. text \in Seq({"letter", "space", "newline"})
      BY DEF Parameters
    <3>2. i + 1 \in 1..(Len(text) + 1) /\ i + Len(sep) \in 0..Len(text)
      BY <1>1, <1>3, <1>4 DEF Parameters
    <3> QED  BY <2>1, <3>1, <3>2, SubSeqProperties
  <2>4. (i + 1) + (x - i + 1) - 1 = x + 1
    BY <1>3
  <2>5. text[x + 1] = sep[x - i + 1]
    BY <1>2, <2>3, <2>4
  <2> QED  BY <2>2, <2>5 DEF Kind
<1> QED  BY <1>3, <1>5 DEF NoLetter

(* The end of the last part plays no role for those before it.             *)
LEMMA OtherLast ==
    ASSUME Len(text) \in Nat, NEW ds \in Seq(Pieces), NEW x \in Pieces,
           NEW y \in Pieces, NEW a, NEW b, Apart(Append(ds, x), a, b),
           y.from = x.from
    PROVE  Apart(Append(ds, y), a, y.to)
<1> DEFINE es == Append(ds, x)
           fs == Append(ds, y)
           n == Len(ds)
<1>1. n \in Nat /\ \A i \in 1..n : ds[i] \in Pieces
  OBVIOUS
<1>2. /\ es \in Seq(Pieces) /\ Len(es) = n + 1 /\ es[n + 1] = x
      /\ \A i \in 1..n : es[i] = ds[i]
  OBVIOUS
<1>3. /\ fs \in Seq(Pieces) /\ Len(fs) = n + 1 /\ fs[n + 1] = y /\ fs # << >>
      /\ \A i \in 1..n : fs[i] = ds[i]
  OBVIOUS
<1>4. Apart(es, a, b)
  OBVIOUS
<1> HIDE DEF es, fs, n
<1>5. \A i \in 1..(n + 1) : i = n + 1 \/ i \in 1..n
  BY <1>1
<1>6. \A i \in 1..(n + 1) : fs[i].from = es[i].from
  BY <1>2, <1>3, <1>5
<1>7. fs[1].from = a /\ fs[Len(fs)].to = y.to
  <2>1. 1 \in 1..(n + 1)
    BY <1>1
  <2> QED  BY <2>1, <1>3, <1>4, <1>6 DEF Apart, Reaches
<1>8. ASSUME NEW i \in 2..Len(fs) PROVE NoLetter(fs[i - 1].to, fs[i].from)
  <2>1. i \in 1..(n + 1) /\ i - 1 \in 1..n /\ i \in 2..Len(es)
    BY <1>1, <1>2, <1>3
  <2>2. fs[i - 1] = es[i - 1] /\ fs[i].from = es[i].from
    BY <2>1, <1>2, <1>3, <1>6
  <2> QED  BY <2>1, <2>2, <1>4 DEF Apart, Reaches
<1>9. ASSUME NEW i \in 1..Len(fs), NEW j \in 1..Len(fs), i < j
      PROVE  fs[i].to < fs[j].from
  <2>1. i \in 1..n /\ j \in 1..(n + 1) /\ fs[i] = es[i] /\ fs[j].from = es[j].from
    BY <1>1, <1>2, <1>3, <1>6, <1>9
  <2>2. es[i].to < es[j].from
    BY <2>1, <1>1, <1>2, <1>4, <1>9 DEF Apart
  <2> QED  BY <2>1, <2>2
<1>10. Apart(fs, a, y.to)
  BY <1>3, <1>7, <1>8, <1>9 DEF Apart, Reaches
<1> QED  BY <1>10 DEF fs

CutStates == [parts : Seq(Pieces), rest : Pieces]

LEMMA CutOffKeeps ==
    ASSUME Parameters, NEW s \in CutStates, NEW sep, IsSeparator(sep)
    PROVE  /\ CutOff(s, sep) \in CutStates
           /\ \A a, b : Apart(Append(s.parts, s.rest), a, b)
                 => Apart(Append(CutOff(s, sep).parts, CutOff(s, sep).rest), a, b)
<1> DEFINE found == Occurrences(s.rest, sep)
           m == Min(found)
           x == [from |-> s.rest.from, to |-> m]
           y == [from |-> m + Len(sep), to |-> s.rest.to]
<1>1. s.parts \in Seq(Pieces) /\ s.rest \in Pieces /\ Len(text) \in Nat
  BY DEF CutStates, Parameters
<1>2. CASE found = {}
  <2>1. CutOff(s, sep) = s
    BY <1>2 DEF CutOff
  <2> QED  BY <2>1
<1>3. CASE found # {}
  <2>1. CutOff(s, sep) = [parts |-> Append(s.parts, x), rest |-> y]
    BY <1>3 DEF CutOff
  <2>2. found \subseteq Nat
    BY <1>1, OccurrenceIs, PieceEnds
  <2>3. m \in found
    BY <1>3, <2>2, MinIsLeast
  <2>4. /\ m \in Int /\ s.rest.from <= m /\ m + Len(sep) <= s.rest.to
        /\ NoLetter(m, m + Len(sep))
    BY <1>1, <2>3, OccurrenceIs
  <2>5. Len(sep) \in Nat /\ Len(sep) > 0
    BY DEF IsSeparator
  <2> HIDE DEF found, m
  <2>6. /\ s.rest.from \in 0..Len(text) /\ s.rest.to \in 0..Len(text)
        /\ m \in 0..Len(text) /\ m + Len(sep) \in 0..Len(text)
    BY <1>1, <2>4, <2>5 DEF Pieces
  <2>7. x \in Pieces /\ y \in Pieces
    BY <2>4, <2>6 DEF Pieces
  <2>8. CutOff(s, sep) \in CutStates
    BY <1>1, <2>1, <2>7 DEF CutStates
  <2>9. /\ x.from = s.rest.from /\ x.to = m /\ y.from = m + Len(sep)
        /\ y.to = s.rest.to
    OBVIOUS
  <2> HIDE DEF x, y
  <2>10. ASSUME NEW a, NEW b, Apart(Append(s.parts, s.rest), a, b)
         PROVE  Apart(Append(Append(s.parts, x), y), a, b)
    <3>1. Apart(Append(s.parts, x), a, m)
      BY <1>1, <2>7, <2>9, <2>10, OtherLast
    <3>2. Apart(Append(Append(s.parts, x), y), a, y.to)
      BY <1>1, <2>4, <2>5, <2>7, <2>9, <3>1, AppendApart
    <3> DEFINE es == Append(s.parts, s.rest)
    <3>3. es[Len(es)] = s.rest
      BY <1>1
    <3> HIDE DEF es
    <3>4. Apart(es, a, b)
      BY <2>10 DEF es
    <3>5. b = y.to
      BY <2>9, <3>3, <3>4 DEF Apart, Reaches
    <3> QED  BY <3>2, <3>5
  <2>11. CutOff(s, sep).parts = Append(s.parts, x) /\ CutOff(s, sep).rest = y
    BY <2>1
  <2> QED  BY <2>8, <2>10, <2>11
<1> QED  BY <1>2, <1>3

AreCutsOf(f, p, sep) ==
    f = [n \in 0..Width(p) |->
            IF n = 0 THEN [parts |-> << >>, rest |-> p] ELSE CutOff(f[n - 1], sep)]

LEMMA CutsExist ==
    ASSUME Parameters, NEW p \in Pieces, NEW sep, IsSeparator(sep)
    PROVE  \E f : AreCutsOf(f, p, sep)
<1> DEFINE step == [n \in 1..Width(p) |-> [s \in CutStates |-> CutOff(s, sep)]]
           start == [parts |-> << >>, rest |-> p]
<1>1. Width(p) \in Nat /\ start \in CutStates
  BY WidthType DEF CutStates
<1>2. AreSteps(step, Width(p), CutStates)
  BY CutOffKeeps DEF AreSteps
<1>3. \A s \in CutStates : \A n \in 1..Width(p) : step[n][s] = CutOff(s, sep)
  OBVIOUS
<1> HIDE DEF step, start
<1>4. PICK f : IsLoop(f, Width(p), CutStates, start, step)
  BY <1>1, <1>2, LoopExists, Zenon
<1>5. /\ f \in [0..Width(p) -> CutStates] /\ f[0] = start
      /\ \A n \in 1..Width(p) : f[n] = step[n][f[n - 1]]
  BY <1>4 DEF IsLoop
<1>6. ASSUME NEW n \in 1..Width(p) PROVE f[n] = CutOff(f[n - 1], sep)
  <2>1. n - 1 \in 0..Width(p)
    BY <1>1
  <2>2. f[n - 1] \in CutStates
    BY <2>1, <1>5
  <2> QED  BY <2>2, <1>3, <1>5
<1>7. \A n \in 0..Width(p) : n = 0 \/ n \in 1..Width(p)
  BY <1>1
<1>8. f = [n \in 0..Width(p) |-> IF n = 0 THEN start ELSE CutOff(f[n - 1], sep)]
  BY <1>5, <1>6, <1>7
<1> QED  BY <1>8 DEF AreCutsOf, start

LEMMA SplitApart ==
    ASSUME Parameters, NEW p \in Pieces, NEW sep, IsSeparator(sep)
    PROVE  Apart(Split(p, sep), p.from, p.to)
<1> DEFINE f == CHOOSE f : AreCutsOf(f, p, sep)
           start == [parts |-> << >>, rest |-> p]
<1>1. AreCutsOf(f, p, sep)
  BY CutsExist
<1>2. Split(p, sep) = Append(f[Width(p)].parts, f[Width(p)].rest)
  BY Zenon DEF Split, AreCutsOf
<1> HIDE DEF f
<1>3. Width(p) \in Nat /\ start \in CutStates
  BY WidthType DEF CutStates
<1>4. f[0] = start
  BY <1>1, <1>3 DEF AreCutsOf
<1>5. ASSUME NEW n \in 1..Width(p) PROVE f[n] = CutOff(f[n - 1], sep)
  <2>1. n \in 0..Width(p) /\ n # 0
    BY <1>3
  <2> QED  BY <2>1, <1>1 DEF AreCutsOf
<1> DEFINE T == {n \in 0..Width(p) :
                    /\ f[n] \in CutStates
                    /\ Apart(Append(f[n].parts, f[n].rest), p.from, p.to)}
<1>6. 0 \in T
  <2>1. Append(<< >>, p) = <<p>>
    OBVIOUS
  <2>2. Apart(Append(start.parts, start.rest), p.from, p.to)
    BY <2>1, OnePiece
  <2> HIDE DEF start
  <2>3. Apart(Append(f[0].parts, f[0].rest), p.from, p.to) /\ f[0] \in CutStates
    BY <2>2, <1>3, <1>4, Zenon
  <2> QED  BY <2>3, <1>3
<1>7. ASSUME NEW n \in 1..Width(p), n - 1 \in T PROVE n \in T
  <2>1. n \in 0..Width(p)
    BY <1>3
  <2>2. /\ f[n - 1] \in CutStates
        /\ Apart(Append(f[n - 1].parts, f[n - 1].rest), p.from, p.to)
    BY <1>7
  <2>3. /\ CutOff(f[n - 1], sep) \in CutStates
        /\ Apart(Append(CutOff(f[n - 1], sep).parts, CutOff(f[n - 1], sep).rest),
                 p.from, p.to)
    BY <2>2, CutOffKeeps
  <2> QED  BY <2>1, <2>3, <1>5
<1>8. \A n \in 0..Width(p) : n \in T
  <2> HIDE DEF T
  <2> QED  BY <1>3, <1>6, <1>7, Induction
<1> QED  BY <1>2, <1>3, <1>8
-----------------------------------------------------------------------------
(***************************************************************************)
(* splitText, given that what follows (deeper) cuts up every piece of the  *)
(* text.                                                                   *)
(***************************************************************************)
CutsUp(split) == \A p \in Pieces : Cuts(split[p], p.from, p.to)

TakeStates == [final : Seq(Spans), docs : Seq(Pieces)]

NothingTaken == [final |-> << >>, docs |-> << >>]

LEMMA TakePartType ==
    ASSUME Parameters, NEW deeper, CutsUp(deeper), NEW s \in TakeStates,
           NEW part \in Pieces, NEW width \in Nat
    PROVE  TakePart(s, part, width, deeper) \in TakeStates
<1>1. s.final \in Seq(Spans) /\ s.docs \in Seq(Pieces)
      /\ s = [final |-> s.final, docs |-> s.docs]
  BY DEF TakeStates
<1>2. CASE Width(part) > size
  <2>1. deeper[part] \in Seq(Pieces)
    BY DEF CutsUp, Cuts, Reaches
  <2>2. deeper[part] \in Seq(Spans)
    BY <2>1, PiecesAreSpans
  <2>3. Merge(s.docs, width) \in Seq(Spans)
    BY <1>1, MergeType
  <2>4. TakePart(s, part, width, deeper)
          = [final |-> s.final \o Merge(s.docs, width) \o deeper[part], docs |-> << >>]
    BY <1>2 DEF TakePart
  <2>5. s.final \o Merge(s.docs, width) \o deeper[part] \in Seq(Spans)
    BY <1>1, <2>2, <2>3
  <2> QED  BY <2>4, <2>5 DEF TakeStates
<1>3. CASE ~(Width(part) > size)
  <2>1. TakePart(s, part, width, deeper) = [s EXCEPT !.docs = Append(@, part)]
    BY <1>3 DEF TakePart
  <2>2. Append(s.docs, part) \in Seq(Pieces)
    BY <1>1
  <2> QED  BY <1>1, <2>1, <2>2 DEF TakeStates
<1> QED  BY <1>2, <1>3

AreTakes(f, parts, width, deeper) ==
    f = [n \in 0..Len(parts) |->
            IF n = 0 THEN [final |-> << >>, docs |-> << >>]
            ELSE TakePart(f[n - 1], parts[n], width, deeper)]

LEMMA TakesExist ==
    ASSUME Parameters, NEW deeper, CutsUp(deeper), NEW parts \in Seq(Pieces),
           NEW width \in Nat
    PROVE  \E f : AreTakes(f, parts, width, deeper)
<1> DEFINE step == [n \in 1..Len(parts) |->
                       [s \in TakeStates |-> TakePart(s, parts[n], width, deeper)]]
<1>1. Len(parts) \in Nat /\ NothingTaken \in TakeStates
  BY DEF NothingTaken, TakeStates
<1>2. \A n \in 1..Len(parts) : parts[n] \in Pieces
  OBVIOUS
<1>3. AreSteps(step, Len(parts), TakeStates)
  BY <1>2, TakePartType DEF AreSteps
<1>4. \A s \in TakeStates : \A n \in 1..Len(parts) :
          step[n][s] = TakePart(s, parts[n], width, deeper)
  OBVIOUS
<1> HIDE DEF step
<1>5. PICK f : IsLoop(f, Len(parts), TakeStates, NothingTaken, step)
  BY <1>1, <1>3, LoopExists, Zenon
<1>6. /\ f \in [0..Len(parts) -> TakeStates] /\ f[0] = NothingTaken
      /\ \A n \in 1..Len(parts) : f[n] = step[n][f[n - 1]]
  BY <1>5 DEF IsLoop
<1>7. ASSUME NEW n \in 1..Len(parts)
      PROVE  f[n] = TakePart(f[n - 1], parts[n], width, deeper)
  <2>1. n - 1 \in 0..Len(parts)
    BY <1>1
  <2>2. f[n - 1] \in TakeStates
    BY <2>1, <1>6
  <2> QED  BY <2>2, <1>4, <1>6
<1>8. \A n \in 0..Len(parts) : n = 0 \/ n \in 1..Len(parts)
  BY <1>1
<1>9. f = [n \in 0..Len(parts) |->
              IF n = 0 THEN NothingTaken
              ELSE TakePart(f[n - 1], parts[n], width, deeper)]
  BY <1>6, <1>7, <1>8
<1> QED  BY <1>9 DEF AreTakes, NothingTaken

(* The chunks so far end before x, or there is none and x is the start.    *)
EndsBefore(cs, a, x) ==
    IF cs = << >> THEN x = a
    ELSE \E e : Cuts(cs, a, e) /\ e < x /\ NoLetter(e, x)

(* The parts from a to d have been taken.                                  *)
Taken(s, a, d) ==
    IF s.docs = << >> THEN Cuts(s.final, a, d)
    ELSE /\ Apart(s.docs, s.docs[1].from, d)
         /\ EndsBefore(s.final, a, s.docs[1].from)

LEMMA ConcatBehind ==
    ASSUME Len(text) \in Nat, NEW cs, NEW a, NEW x, EndsBefore(cs, a, x),
           NEW ds, NEW b, Cuts(ds, x, b)
    PROVE  Cuts(cs \o ds, a, b)
<1>1. CASE cs = << >>
  <2>1. ds \in Seq(Pieces) /\ x = a
    BY <1>1 DEF Cuts, Reaches, EndsBefore
  <2>2. << >> \o ds = ds
    BY <2>1
  <2> QED  BY <1>1, <2>1, <2>2
<1>2. CASE cs # << >>
  <2>1. PICK e : Cuts(cs, a, e) /\ e < x /\ NoLetter(e, x)
    BY <1>2 DEF EndsBefore
  <2> QED  BY <2>1, ConcatCuts
<1> QED  BY <1>1, <1>2

LEMMA MergeNothing == ASSUME NEW width PROVE Merge(<< >>, width) = << >>
<1> DEFINE f == CHOOSE f : AreMerges(f, << >>, width)
           g == [n \in 0..0 |-> NothingMerged]
<1>1. AreMerges(g, << >>, width)
  <2>1. g = [n \in 0..0 |->
              IF n = 0 THEN [merged |-> << >>, block |-> << >>, length |-> 0]
              ELSE MergeDoc(g[n - 1], << >>[n], width)]
    BY DEF NothingMerged
  <2>2. Len(<< >>) = 0
    OBVIOUS
  <2> QED  BY <2>1, <2>2 DEF AreMerges
<1>2. AreMerges(f, << >>, width)
  BY <1>1
<1>3. MergeLoop(<< >>, width) = f[Len(<< >>)]
  BY Zenon DEF MergeLoop, AreMerges
<1> HIDE DEF f, g
<1>4. Len(<< >>) = 0 /\ 0 \in 0..0
  OBVIOUS
<1>5. f[0] = NothingMerged
  BY <1>2, <1>4 DEF AreMerges, NothingMerged
<1>6. MergeLoop(<< >>, width) = NothingMerged
  BY <1>3, <1>4, <1>5
<1> QED  BY <1>6 DEF Merge, NothingMerged

LEMMA FlushCuts ==
    ASSUME Parameters, NEW s \in TakeStates, NEW a, NEW d, Taken(s, a, d),
           NEW width \in Nat
    PROVE  Cuts(s.final \o Merge(s.docs, width), a, d)
<1>1. s.final \in Seq(Spans) /\ s.docs \in Seq(Pieces) /\ Len(text) \in Nat
  BY DEF TakeStates, Parameters
<1>2. CASE s.docs = << >>
  <2>1. Merge(s.docs, width) = << >>
    BY <1>2, MergeNothing
  <2>2. s.final \o << >> = s.final
    BY <1>1
  <2> QED  BY <1>2, <2>1, <2>2 DEF Taken
<1>3. CASE s.docs # << >>
  <2>1. /\ Apart(s.docs, s.docs[1].from, d)
        /\ EndsBefore(s.final, a, s.docs[1].from)
    BY <1>3 DEF Taken
  <2>2. Cuts(Merge(s.docs, width), s.docs[1].from, d)
    BY <2>1, MergeCuts
  <2> QED  BY <1>1, <2>1, <2>2, ConcatBehind
<1> QED  BY <1>2, <1>3

LEMMA FirstPart ==
    ASSUME Parameters, NEW deeper, CutsUp(deeper), NEW part \in Pieces, NEW width \in Nat
    PROVE  Taken(TakePart(NothingTaken, part, width, deeper), part.from, part.to)
<1> DEFINE r == TakePart(NothingTaken, part, width, deeper)
<1>1. Len(text) \in Nat
  BY DEF Parameters
<1>2. CASE Width(part) > size
  <2>1. r = [final |-> << >> \o Merge(<< >>, width) \o deeper[part], docs |-> << >>]
    BY <1>2 DEF TakePart, NothingTaken
  <2>2. Cuts(deeper[part], part.from, part.to) /\ deeper[part] \in Seq(Pieces)
    BY DEF CutsUp, Cuts, Reaches
  <2> DEFINE q == Merge(<< >>, width)
             e == deeper[part]
  <2>3. q = << >>
    BY MergeNothing
  <2>4. r.final = deeper[part] /\ r.docs = << >>
    <3> HIDE DEF q, e, r
    <3>1. e \in Seq(Pieces)
      BY <2>2 DEF e
    <3>2. << >> \o q \o e = e
      BY <2>3, <3>1
    <3>3. r = [final |-> << >> \o q \o e, docs |-> << >>]
      BY <2>1 DEF q, e
    <3> QED  BY <3>2, <3>3 DEF e
  <2> HIDE DEF r
  <2>5. Taken(r, part.from, part.to)
    BY <2>2, <2>4 DEF Taken
  <2> QED  BY <2>5 DEF r
<1>3. CASE ~(Width(part) > size)
  <2>1. r = [NothingTaken EXCEPT !.docs = Append(@, part)]
    BY <1>3 DEF TakePart
  <2>2. r.final = << >> /\ r.docs = <<part>>
    BY <2>1 DEF NothingTaken
  <2> HIDE DEF r
  <2>3. Apart(<<part>>, part.from, part.to) /\ <<part>>[1] = part /\ <<part>> # << >>
    BY OnePiece
  <2>4. Taken(r, part.from, part.to)
    BY <2>2, <2>3 DEF Taken, EndsBefore
  <2> QED  BY <2>4 DEF r
<1> QED  BY <1>2, <1>3

LEMMA NextPart ==
    ASSUME Parameters, NEW deeper, CutsUp(deeper), NEW part \in Pieces, NEW width \in Nat,
           NEW s \in TakeStates, NEW a, NEW d, Taken(s, a, d),
           d < part.from, NoLetter(d, part.from)
    PROVE  Taken(TakePart(s, part, width, deeper), a, part.to)
<1> DEFINE r == TakePart(s, part, width, deeper)
<1>1. Len(text) \in Nat /\ s.docs \in Seq(Pieces) /\ s.final \in Seq(Spans)
  BY DEF Parameters, TakeStates
<1>2. CASE Width(part) > size
  <2> DEFINE cs == s.final \o Merge(s.docs, width)
  <2>1. Cuts(cs, a, d)
    BY FlushCuts
  <2>2. r = [final |-> cs \o deeper[part], docs |-> << >>]
    BY <1>2 DEF TakePart
  <2> HIDE DEF cs
  <2>3. Cuts(deeper[part], part.from, part.to)
    BY DEF CutsUp
  <2>4. Cuts(cs \o deeper[part], a, part.to)
    BY <1>1, <2>1, <2>3, ConcatCuts
  <2>5. r.final = cs \o deeper[part] /\ r.docs = << >>
    BY <2>2
  <2> HIDE DEF r
  <2>6. Taken(r, a, part.to)
    BY <2>4, <2>5 DEF Taken
  <2> QED  BY <2>6 DEF r
<1>3. CASE ~(Width(part) > size)
  <2>1. r = [s EXCEPT !.docs = Append(@, part)]
    BY <1>3 DEF TakePart
  <2>2. r.final = s.final /\ r.docs = Append(s.docs, part)
    BY <2>1 DEF TakeStates
  <2> HIDE DEF r
  <2>3. CASE s.docs = << >>
    <3>1. r.docs = <<part>>
      BY <2>2, <2>3
    <3>2. Apart(<<part>>, part.from, part.to) /\ <<part>>[1] = part /\ <<part>> # << >>
      BY OnePiece
    <3>3. Cuts(s.final, a, d)
      BY <2>3 DEF Taken
    <3>4. EndsBefore(s.final, a, part.from)
      <4>1. s.final # << >>
        BY <3>3 DEF Cuts, Reaches
      <4> QED  BY <4>1, <3>3 DEF EndsBefore
    <3>5. Taken(r, a, part.to)
      BY <2>2, <3>1, <3>2, <3>4 DEF Taken
    <3> QED  BY <3>5 DEF r
  <2>4. CASE s.docs # << >>
    <3> DEFINE es == Append(s.docs, part)
               c == s.docs[1].from
    <3>1. Apart(s.docs, c, d) /\ EndsBefore(s.final, a, c)
      BY <2>4 DEF Taken
    <3>2. es # << >> /\ es[1].from = c
      <4>1. Len(s.docs) \in Nat /\ Len(s.docs) > 0
        BY <1>1, <2>4
      <4>2. Len(es) = Len(s.docs) + 1 /\ es[1] = s.docs[1]
        BY <1>1, <4>1
      <4>3. es # << >>
        BY <4>1, <4>2
      <4> QED  BY <4>2, <4>3
    <3> HIDE DEF c
    <3>3. Apart(es, c, part.to)
      BY <1>1, <3>1, AppendApart
    <3> HIDE DEF es
    <3>4. r.docs = es
      BY <2>2 DEF es
    <3>5. Taken(r, a, part.to)
      BY <2>2, <3>1, <3>2, <3>3, <3>4 DEF Taken
    <3> QED  BY <3>5 DEF r
  <2> QED  BY <2>3, <2>4
<1> QED  BY <1>2, <1>3

LEMMA TakePartsCuts ==
    ASSUME Parameters, NEW deeper, CutsUp(deeper), NEW width \in Nat,
           NEW parts, NEW a, NEW b, Apart(parts, a, b)
    PROVE  Cuts(TakeParts(parts, width, deeper), a, b)
<1> DEFINE f == CHOOSE f : AreTakes(f, parts, width, deeper)
           N == Len(parts)
<1>1. /\ parts \in Seq(Pieces) /\ parts # << >> /\ parts[1].from = a
      /\ parts[N].to = b
  BY DEF Apart, Reaches
<1>2. AreTakes(f, parts, width, deeper)
  BY <1>1, TakesExist
<1>3. TakeParts(parts, width, deeper) = f[N].final \o Merge(f[N].docs, width)
  BY Zenon DEF TakeParts, AreTakes
<1> HIDE DEF f
<1>4. N \in Nat /\ N > 0
  BY <1>1
<1>5. f[0] = NothingTaken
  BY <1>2, <1>4 DEF AreTakes, NothingTaken
<1>6. ASSUME NEW n \in 1..N PROVE f[n] = TakePart(f[n - 1], parts[n], width, deeper)
  <2>1. n \in 0..N /\ n # 0
    BY <1>4
  <2> QED  BY <2>1, <1>2 DEF AreTakes
<1> DEFINE T == {n \in 0..N : /\ f[n] \in TakeStates
                              /\ n # 0 => Taken(f[n], a, parts[n].to)}
<1>7. 0 \in T
  <2>1. NothingTaken \in TakeStates
    BY DEF NothingTaken, TakeStates
  <2> QED  BY <2>1, <1>4, <1>5
<1>8. ASSUME NEW n \in 1..N, n - 1 \in T PROVE n \in T
  <2>1. parts[n] \in Pieces /\ n \in 0..N
    BY <1>1, <1>4
  <2>2. f[n] = TakePart(f[n - 1], parts[n], width, deeper)
    BY <1>6
  <2>3. f[n - 1] \in TakeStates
    BY <1>8
  <2>4. f[n] \in TakeStates
    BY <2>1, <2>2, <2>3, TakePartType
  <2>5. Taken(f[n], a, parts[n].to)
    <3>1. CASE n = 1
      BY <2>1, <2>2, <3>1, <1>1, <1>5, FirstPart
    <3>2. CASE n # 1
      <4>1. n - 1 \in 1..N /\ n - 1 < n /\ n - 1 # 0 /\ n \in 2..N
        BY <3>2, <1>4
      <4>2. Taken(f[n - 1], a, parts[n - 1].to)
        BY <1>8, <4>1
      <4>3. parts[n - 1].to < parts[n].from /\ NoLetter(parts[n - 1].to, parts[n].from)
        BY <4>1 DEF Apart, Reaches
      <4> HIDE DEF N
      <4> QED  BY <2>1, <2>2, <2>3, <4>2, <4>3, NextPart
    <3> QED  BY <3>1, <3>2
  <2> QED  BY <2>1, <2>4, <2>5
<1>9. \A n \in 0..N : n \in T
  <2> HIDE DEF T
  <2> QED  BY <1>4, <1>7, <1>8, Induction
<1>10. f[N] \in TakeStates /\ Taken(f[N], a, b)
  BY <1>1, <1>4, <1>9
<1> QED  BY <1>3, <1>10, FlushCuts

LEMMA SplitAtCuts ==
    ASSUME Parameters, NEW sep, IsSeparator(sep), NEW deeper, CutsUp(deeper)
    PROVE  CutsUp(SplitAt(sep, deeper))
<1> SUFFICES ASSUME NEW p \in Pieces PROVE Cuts(SplitAt(sep, deeper)[p], p.from, p.to)
  BY DEF CutsUp
<1>1. SplitAt(sep, deeper)[p] =
        IF Width(p) <= size THEN <<p>>
        ELSE IF Occurrences(p, sep) = {} THEN deeper[p]
        ELSE TakeParts(Split(p, sep), Len(sep), deeper)
  BY DEF SplitAt
<1>2. Cuts(<<p>>, p.from, p.to)
  BY OnePiece, ApartCuts DEF Parameters
<1>3. Cuts(deeper[p], p.from, p.to)
  BY DEF CutsUp
<1>4. Cuts(TakeParts(Split(p, sep), Len(sep), deeper), p.from, p.to)
  <2>1. Apart(Split(p, sep), p.from, p.to) /\ Len(sep) \in Nat
    BY SplitApart DEF IsSeparator
  <2> QED  BY <2>1, TakePartsCuts
<1> QED  BY <1>1, <1>2, <1>3, <1>4
-----------------------------------------------------------------------------
(***************************************************************************)
(* FixedSizeChunker on a piece: the starts are "size - overlap" apart.     *)
(***************************************************************************)
LEMMA Steps ==
    ASSUME NEW i \in Nat, NEW j \in Nat, i < j, NEW s \in Nat \ {0}
    PROVE  i * s \in Nat /\ j * s \in Nat /\ i * s + s <= j * s /\ j <= j * s
<1>1. \A a, b \in Nat : (a + b) * s = a * s + b * s /\ a * s \in Nat
  OBVIOUS
<1> DEFINE d == j - i - 1
<1>2. d \in Nat /\ j = i + (d + 1) /\ j # 0
  OBVIOUS
<1>3. j * s = i * s + (d + 1) * s /\ (d + 1) * s = d * s + 1 * s /\ 1 * s = s
  BY <1>1, <1>2
<1>4. d * s \in Nat /\ i * s \in Nat /\ j * s \in Nat
  BY <1>1, <1>2
<1>5. \A a \in Nat : a <= a * s
  OBVIOUS
<1> HIDE DEF d
<1> QED  BY <1>2, <1>3, <1>4, <1>5

LEMMA FixedSizeCuts ==
    ASSUME Parameters, NEW p \in Pieces, NEW ds, ds = FixedSizeChunks(p)
    PROVE  /\ Cuts(ds, p.from, p.to)
           /\ p.from < p.to =>
                  \A i \in 1..Len(ds) : ds[i].from < ds[i].to /\ ds[i].to - ds[i].from <= size
           /\ \A i \in 2..Len(ds) : ds[i].from = ds[i - 1].to - overlap
<1> DEFINE s == size - overlap
           Start(i) == p.from + (i - 1) * s
           T == {i \in 1..(Width(p) + 1) : ReachesEnd(Start(i), p)}
           n == Min(T)
           piece(i) == [from |-> Start(i), to |-> IF i = n THEN p.to ELSE Start(i) + size]
<1>1. ds = [i \in 1..n |-> piece(i)]
  BY Zenon DEF FixedSizeChunks
<1>2. /\ p.from \in Nat /\ p.to \in Nat /\ p.from <= p.to /\ p.to <= Len(text)
      /\ Len(text) \in Nat /\ size \in Nat /\ s \in Nat \ {0} /\ s <= size
      /\ Width(p) = p.to - p.from
  BY PieceEnds DEF Parameters, Width
<1> HIDE DEF s
<1>3. Start(1) = p.from
  <2>1. 1 - 1 = 0 /\ 0 * s = 0
    BY <1>2
  <2> QED  BY <2>1, <1>2
<1>4. \A i, j \in Nat \ {0} : i < j => /\ Start(i) \in Nat /\ Start(j) \in Nat
                                       /\ Start(i) + s <= Start(j)
                                       /\ p.from <= Start(i)
  <2> SUFFICES ASSUME NEW i \in Nat \ {0}, NEW j \in Nat \ {0}, i < j
               PROVE  /\ Start(i) \in Nat /\ Start(j) \in Nat
                      /\ Start(i) + s <= Start(j) /\ p.from <= Start(i)
    OBVIOUS
  <2>1. i - 1 \in Nat /\ j - 1 \in Nat /\ i - 1 < j - 1
    OBVIOUS
  <2>2. /\ (i - 1) * s \in Nat /\ (j - 1) * s \in Nat
        /\ (i - 1) * s + s <= (j - 1) * s
    BY <2>1, <1>2, Steps
  <2> QED  BY <2>2, <1>2
<1>5. T \subseteq Nat /\ T # {}
  <2>1. ReachesEnd(Start(Width(p) + 1), p)
    <3>1. Width(p) \in Nat /\ Width(p) + 1 - 1 = Width(p)
      BY <1>2
    <3>2. Width(p) <= Width(p) * s /\ Width(p) * s \in Nat
      <4>1. CASE Width(p) = 0
        BY <4>1, <1>2
      <4>2. CASE Width(p) # 0
        <5>1. 0 \in Nat /\ 0 < Width(p)
          BY <4>2, <3>1
        <5> QED  BY <5>1, <3>1, <1>2, Steps
      <4> QED  BY <4>1, <4>2
    <3>3. Start(Width(p) + 1) = p.from + Width(p) * s
      BY <3>1
    <3> DEFINE x == Start(Width(p) + 1)
               y == Width(p) * s
    <3> HIDE DEF Start, x, y
    <3>4. p.to - p.from <= y /\ y \in Nat /\ x = p.from + y
      BY <3>2, <3>3, <1>2 DEF x, y
    <3>5. ReachesEnd(x, p)
      BY <3>4, <1>2 DEF ReachesEnd
    <3> QED  BY <3>5 DEF x
  <2>2. Width(p) + 1 \in 1..(Width(p) + 1) /\ 1..(Width(p) + 1) \subseteq Nat
    BY <1>2
  <2> HIDE DEF Start
  <2>3. Width(p) + 1 \in T /\ T \subseteq 1..(Width(p) + 1)
    BY <2>1, <2>2
  <2> QED  BY <2>2, <2>3
<1>6. n \in T /\ \A k \in T : n <= k
  BY <1>5, MinIsLeast
<1> HIDE DEF n
<1>7. n \in Nat \ {0} /\ n <= Width(p) + 1 /\ ReachesEnd(Start(n), p)
  BY <1>6, <1>2
<1>8. ASSUME NEW i \in 1..n, i # n
      PROVE  Start(i) + size < p.to /\ Start(i) \in Nat /\ p.from <= Start(i)
  <2>1. i \in 1..(Width(p) + 1) /\ i \in Nat \ {0} /\ i < n
    BY <1>2, <1>7, <1>8
  <2>2. ~ReachesEnd(Start(i), p)
    BY <2>1, <1>6
  <2>3. Start(i) \in Nat /\ p.from <= Start(i)
    BY <2>1, <1>4, <1>7
  <2> HIDE DEF Start
  <2> QED  BY <2>2, <2>3, <1>2 DEF ReachesEnd
<1>9. /\ Start(n) \in Nat /\ p.from <= Start(n) /\ Start(n) <= p.to
      /\ p.from < p.to => Start(n) < p.to
  <2>1. CASE n = 1
    BY <2>1, <1>2, <1>3
  <2>2. CASE n # 1
    <3>1. n - 1 \in 1..n /\ n - 1 # n /\ n - 1 \in Nat \ {0} /\ n - 1 < n
      BY <2>2, <1>7
    <3>2. Start(n - 1) + size < p.to /\ Start(n - 1) \in Nat /\ p.from <= Start(n - 1)
      BY <3>1, <1>8
    <3>3. n = (n - 1) + 1 /\ Start(n) = Start(n - 1) + s
      <4>1. ((n - 1) - 1 + 1) * s = ((n - 1) - 1) * s + 1 * s /\ 1 * s = s
        BY <3>1, <1>2
      <4>2. (n - 1) - 1 + 1 = n - 1
        BY <3>1
      <4>3. ((n - 1) - 1) * s \in Int
        BY <3>1, <1>2
      <4>4. n = (n - 1) + 1
        BY <1>7
      <4>5. Start(n) = Start(n - 1) + s
        BY <4>1, <4>2, <4>3, <1>2
      <4> QED  BY <4>4, <4>5
    <3> HIDE DEF Start
    <3> QED  BY <3>2, <3>3, <1>2
  <2> QED  BY <2>1, <2>2
<1> HIDE DEF Start
<1>10. ASSUME NEW i \in 1..n PROVE piece(i) \in Pieces
  <2>1. CASE i = n
    BY <2>1, <1>2, <1>9 DEF Pieces
  <2>2. CASE i # n
    <3>1. Start(i) + size < p.to /\ Start(i) \in Nat
      BY <2>2, <1>8
    <3> QED  BY <2>2, <3>1, <1>2 DEF Pieces
  <2> QED  BY <2>1, <2>2
<1>11. ds \in Seq(Pieces) /\ Len(ds) = n /\ ds # << >>
  BY <1>1, <1>7, <1>10
<1>12. \A i \in 1..n : ds[i] = piece(i)
  BY <1>1
<1>13. \A i \in 1..n : /\ ds[i].from = Start(i)
                       /\ ds[i].to = IF i = n THEN p.to ELSE Start(i) + size
  <2>1. \A i : /\ piece(i).from = Start(i)
               /\ piece(i).to = IF i = n THEN p.to ELSE Start(i) + size
    OBVIOUS
  <2> HIDE DEF piece
  <2> QED  BY <2>1, <1>12
<1> HIDE DEF piece
<1>14. ds[1].from = p.from /\ ds[Len(ds)].to = p.to
  <2>1. 1 \in 1..n /\ n \in 1..n
    BY <1>7
  <2> QED  BY <2>1, <1>3, <1>11, <1>13
<1>15. ASSUME NEW i \in 1..n, NEW j \in 1..n, i < j PROVE Before(ds[i], ds[j])
  <2>1. i \in Nat \ {0} /\ j \in Nat \ {0} /\ i # n
    BY <1>7, <1>15
  <2>2. Start(i) + s <= Start(j) /\ Start(i) \in Nat /\ Start(j) \in Nat
    BY <2>1, <1>4, <1>15
  <2>3. Start(i) + size < p.to
    BY <2>1, <1>8
  <2>4. /\ ds[i].from = Start(i) /\ ds[j].from = Start(j)
        /\ ds[i].to = Start(i) + size
        /\ ds[j].to = p.to \/ ds[j].to = Start(j) + size
    BY <2>1, <1>13
  <2> QED  BY <2>2, <2>3, <2>4, <1>2 DEF Before
<1>16. ASSUME NEW i \in 2..n
       PROVE  ds[i - 1].to = Start(i - 1) + size /\ ds[i].from = Start(i - 1) + s
              /\ Start(i - 1) \in Nat
  <2>1. /\ i \in 1..n /\ i - 1 \in 1..n /\ i - 1 # n /\ i - 1 \in Nat \ {0}
        /\ i \in Nat \ {0} /\ i - 1 < i
    BY <1>7
  <2>2. ds[i - 1].to = Start(i - 1) + size /\ ds[i].from = Start(i)
    BY <2>1, <1>13
  <2>3. Start(i) = Start(i - 1) + s
    <3>1. ((i - 1) - 1 + 1) * s = ((i - 1) - 1) * s + 1 * s /\ 1 * s = s
      BY <2>1, <1>2
    <3>2. (i - 1) - 1 + 1 = i - 1
      BY <2>1
    <3>3. ((i - 1) - 1) * s \in Int
      BY <2>1, <1>2
    <3> QED  BY <3>1, <3>2, <3>3, <1>2 DEF Start
  <2>4. Start(i - 1) \in Nat
    BY <2>1, <1>4
  <2> QED  BY <2>2, <2>3, <2>4
<1>17. ASSUME NEW i \in 2..Len(ds)
       PROVE  ds[i].from = ds[i - 1].to - overlap /\ NoLetter(ds[i - 1].to, ds[i].from)
  <2>1. i \in 2..n
    BY <1>11
  <2>2. /\ ds[i - 1].to = Start(i - 1) + size /\ ds[i].from = Start(i - 1) + s
        /\ Start(i - 1) \in Nat
    BY <2>1, <1>16
  <2>3. s = size - overlap /\ overlap \in Nat
    BY DEF s, Parameters
  <2>4. /\ ds[i].from = ds[i - 1].to - overlap /\ ds[i].from <= ds[i - 1].to
        /\ ds[i].from \in Int /\ ds[i - 1].to \in Int
    BY <2>2, <2>3, <1>2
  <2> QED  BY <2>4 DEF NoLetter
<1>18. Cuts(ds, p.from, p.to)
  BY <1>11, <1>14, <1>15, <1>17 DEF Cuts, Reaches
<1>19. ASSUME p.from < p.to, NEW i \in 1..Len(ds)
       PROVE  ds[i].from < ds[i].to /\ ds[i].to - ds[i].from <= size
  <2>1. i \in 1..n
    BY <1>11
  <2>2. CASE i = n
    <3>1. ds[i].from = Start(n) /\ ds[i].to = p.to
      BY <2>1, <2>2, <1>13
    <3>2. p.to <= Start(n) + size
      BY <1>2, <1>7, <1>9 DEF ReachesEnd
    <3> QED  BY <3>1, <3>2, <1>2, <1>9, <1>19
  <2>3. CASE i # n
    <3>1. ds[i].from = Start(i) /\ ds[i].to = Start(i) + size /\ Start(i) \in Nat
      BY <2>1, <2>3, <1>8, <1>13
    <3>2. size > 0
      BY DEF Parameters
    <3> QED  BY <3>1, <3>2, <1>2
  <2> QED  BY <2>2, <2>3
<1> QED  BY <1>17, <1>18, <1>19

LEMMA SeparatorsCutUp ==
    ASSUME Parameters
    PROVE  /\ CutsUp(SplitAnywhere)
           /\ CutsUp(SplitAt(Space, SplitAnywhere))
           /\ CutsUp(SplitAt(LineEnd, SplitAt(Space, SplitAnywhere)))
           /\ CutsUp(SplitAt(BlankLine, SplitAt(LineEnd, SplitAt(Space, SplitAnywhere))))
<1>1. CutsUp(SplitAnywhere)
  <2> SUFFICES ASSUME NEW p \in Pieces PROVE Cuts(SplitAnywhere[p], p.from, p.to)
    BY DEF CutsUp
  <2>1. SplitAnywhere[p] = IF Width(p) <= size THEN <<p>> ELSE FixedSizeChunks(p)
    BY DEF SplitAnywhere
  <2>2. Cuts(<<p>>, p.from, p.to)
    BY OnePiece, ApartCuts DEF Parameters
  <2>3. Cuts(FixedSizeChunks(p), p.from, p.to)
    BY FixedSizeCuts
  <2> QED  BY <2>1, <2>2, <2>3
<1>2. IsSeparator(Space) /\ IsSeparator(LineEnd) /\ IsSeparator(BlankLine)
  BY DEF IsSeparator, Space, LineEnd, BlankLine
<1>3. CutsUp(SplitAt(Space, SplitAnywhere))
  BY <1>1, <1>2, SplitAtCuts
<1>4. CutsUp(SplitAt(LineEnd, SplitAt(Space, SplitAnywhere)))
  BY <1>2, <1>3, SplitAtCuts
<1>5. CutsUp(SplitAt(BlankLine, SplitAt(LineEnd, SplitAt(Space, SplitAnywhere))))
  BY <1>2, <1>4, SplitAtCuts
<1> QED  BY <1>1, <1>3, <1>4, <1>5

LEMMA SplitTextCuts ==
    ASSUME Parameters
    PROVE  Cuts(SplitText, 0, Len(text))
<1>1. CutsUp(SplitAt(BlankLine, SplitAt(LineEnd, SplitAt(Space, SplitAnywhere))))
  BY SeparatorsCutUp
<1>2. /\ WholeText \in Pieces /\ WholeText.from = 0 /\ WholeText.to = Len(text)
  BY DEF WholeText, Pieces, Parameters
<1> QED  BY <1>1, <1>2 DEF CutsUp, SplitText
-----------------------------------------------------------------------------
(***************************************************************************)
(* The state of a call.  Chunks and their sentences are never empty; the   *)
(* other strategies return their cuts, one piece in each chunk.            *)
(***************************************************************************)
Filled(cs) ==
    \A i \in DOMAIN cs : cs[i] # << >> /\ \A k \in DOMAIN cs[i] : Width(cs[i][k]) > 0

AreCutsOfText(cs) == \E ds : Cuts(ds, 0, Len(text)) /\ cs = OnePieceEach(ds)

SentenceState ==
    strategy = "sentence" =>
        Filled(chunks) /\ \A k \in DOMAIN current : Width(current[k]) > 0

CutState ==
    strategy # "sentence" =>
        IF chunks = << >> THEN done => text = << >> ELSE AreCutsOfText(chunks)

WellFormed == TypeOK /\ SentenceState /\ CutState

LEMMA InitWellFormed == Init => WellFormed
<1> SUFFICES ASSUME Init PROVE WellFormed
  OBVIOUS
<1>1. /\ strategy \in DOMAIN Kinds /\ text \in Texts(strategy) /\ chunks = << >>
      /\ done = FALSE /\ at = 0 /\ matches = << >> /\ turn = 0 /\ current = << >>
  BY DEF Init, Call
<1>2. PICK s \in Requested, o \in Requested :
          /\ size = EffectiveSize(s)
          /\ overlap = EffectiveOverlap(EffectiveSize(s), o)
  BY DEF Init, Call
<1>3. s \in Int /\ o \in Int
  BY TextAssumption
<1>4. size \in Nat \ {0}
  BY <1>2, <1>3 DEF EffectiveSize, DefaultSize
<1>5. overlap = EffectiveOverlap(size, o)
  BY <1>2
<1>6. overlap \in 0..(size - 1)
  BY <1>3, <1>4, <1>5 DEF EffectiveOverlap
<1>7. Len(text) \in Nat
  <2>1. PICK n \in 0..MaxLength : text \in [1..n -> Kinds[strategy]]
    BY <1>1 DEF Texts
  <2>2. n \in Nat
    BY TextAssumption
  <2> QED  BY <2>1, <2>2
<1>8. << >> \in Seq(Pieces) /\ << >> \in Seq(Seq(Pieces) \ {<< >>}) /\ Range(<< >>) = {}
  BY DEF Range
<1>9. TypeOK
  <2>1. at \in 0..Len(text) /\ turn \in 0..Len(matches)
    <3>1. Len(matches) = 0
      BY <1>1
    <3> QED  BY <3>1, <1>1, <1>7
  <2>2. \A c \in Range(chunks) : \A p \in Range(c) : Width(p) > 0
    BY <1>1, <1>8
  <2>3. done \in BOOLEAN
    BY <1>1
  <2> QED  BY <1>1, <1>4, <1>6, <1>8, <2>1, <2>2, <2>3 DEF TypeOK
<1>10. SentenceState /\ CutState
  BY <1>1 DEF SentenceState, CutState, Filled
<1> QED  BY <1>9, <1>10 DEF WellFormed

LEMMA CallParameters ==
    ASSUME TypeOK
    PROVE  /\ Len(text) \in Nat /\ text \in Seq(Kinds[strategy])
           /\ strategy # "sentence" => Parameters
<1>1. strategy \in DOMAIN Kinds /\ text \in Texts(strategy)
  BY DEF TypeOK
<1>2. PICK n \in 0..MaxLength : text \in [1..n -> Kinds[strategy]]
  BY <1>1 DEF Texts
<1>3. n \in Nat
  BY TextAssumption
<1>4. text \in Seq(Kinds[strategy]) /\ Len(text) \in Nat
  BY <1>2, <1>3
<1>5. ASSUME strategy # "sentence"
      PROVE  Kinds[strategy] \subseteq {"letter", "space", "newline"}
  BY <1>1, <1>5 DEF Kinds
<1>6. ASSUME strategy # "sentence" PROVE text \in Seq({"letter", "space", "newline"})
  BY <1>4, <1>5, <1>6
<1> QED  BY <1>4, <1>6 DEF Parameters, TypeOK

LEMMA SameCuts ==
    ASSUME UNCHANGED callVars, NEW ds, NEW a, NEW b
    PROVE  Cuts(ds, a, b)' <=> Cuts(ds, a, b)
<1>1. text' = text
  BY DEF callVars
<1> QED  BY <1>1 DEF Cuts, Reaches, NoLetter, Kind, Pieces, Before

(* What a step leaves well formed when it does not touch the call.         *)
LEMMA StaysTyped ==
    ASSUME TypeOK, UNCHANGED callVars, done' \in BOOLEAN,
           chunks' \in Seq(Seq(Pieces) \ {<< >>}),
           at' \in 0..Len(text), matches' \in Seq(Pieces), current' \in Seq(Pieces),
           turn' \in 0..Len(matches'), strategy = "sentence" => Filled(chunks')
    PROVE  TypeOK'
<1>1. strategy' = strategy /\ text' = text /\ size' = size /\ overlap' = overlap
  BY DEF callVars
<1>2. Pieces' = Pieces
  BY <1>1 DEF Pieces
<1>3. Texts(strategy)' = Texts(strategy)
  BY <1>1 DEF Texts
<1>4. ASSUME strategy = "sentence"
      PROVE  \A c \in Range(chunks') : \A p \in Range(c) : Width(p) > 0
  BY <1>4 DEF Filled, Range
<1>5. (\A c \in Range(chunks) : \A p \in Range(c) : Width(p) > 0)'
        <=> \A c \in Range(chunks') : \A p \in Range(c) : Width(p) > 0
  BY DEF Width
<1> QED  BY <1>1, <1>2, <1>3, <1>4, <1>5 DEF TypeOK

LEMMA OnePieceEachType ==
    ASSUME NEW ds \in Seq(Pieces)
    PROVE  /\ OnePieceEach(ds) \in Seq(Seq(Pieces) \ {<< >>})
           /\ Len(OnePieceEach(ds)) = Len(ds)
           /\ \A i \in 1..Len(ds) : OnePieceEach(ds)[i] = <<ds[i]>>
<1>1. DOMAIN ds = 1..Len(ds) /\ Len(ds) \in Nat
  OBVIOUS
<1>2. \A i \in 1..Len(ds) : <<ds[i]>> \in Seq(Pieces) \ {<< >>}
  OBVIOUS
<1>3. OnePieceEach(ds) = [i \in 1..Len(ds) |-> <<ds[i]>>]
  BY <1>1 DEF OnePieceEach
<1> QED  BY <1>1, <1>2, <1>3

LEMMA CutWellFormed ==
    ASSUME WellFormed, strategy # "sentence", UNCHANGED callVars, UNCHANGED sentenceVars,
           done' = TRUE,
           IF chunks' = << >> THEN text = << >> ELSE AreCutsOfText(chunks')
    PROVE  WellFormed'
<1>1. strategy' = strategy /\ text' = text
  BY DEF callVars
<1>2. /\ at' = at /\ matches' = matches /\ turn' = turn /\ current' = current
  BY DEF sentenceVars
<1>3. chunks' \in Seq(Seq(Pieces) \ {<< >>})
  <2>1. CASE chunks' = << >>
    BY <2>1
  <2>2. CASE AreCutsOfText(chunks')
    <3>1. PICK ds : ds \in Seq(Pieces) /\ chunks' = OnePieceEach(ds)
      BY <2>2 DEF AreCutsOfText, Cuts, Reaches
    <3> QED  BY <3>1, OnePieceEachType
  <2> QED  BY <2>1, <2>2
<1>4. TypeOK'
  BY <1>2, <1>3, StaysTyped DEF WellFormed, TypeOK
<1>5. CutState'
  <2>1. AreCutsOfText(chunks') => AreCutsOfText(chunks)'
    BY <1>1, SameCuts DEF AreCutsOfText
  <2>2. chunks' = << >> => text' = << >>
    BY <1>1
  <2>3. chunks' # << >> => AreCutsOfText(chunks)'
    BY <2>1
  <2> HIDE DEF AreCutsOfText
  <2> QED  BY <2>2, <2>3 DEF CutState
<1> QED  BY <1>1, <1>4, <1>5 DEF WellFormed, SentenceState

LEMMA FixedSizeWellFormed ==
    ASSUME WellFormed, strategy # "sentence", FixedSizeChunk, UNCHANGED sentenceVars
    PROVE  WellFormed'
<1>1. /\ UNCHANGED callVars /\ done' = TRUE
      /\ chunks' = IF text = << >> THEN << >> ELSE OnePieceEach(FixedSizeChunks(WholeText))
  BY DEF FixedSizeChunk
<1>2. Parameters
  BY CallParameters DEF WellFormed
<1>3. /\ WholeText \in Pieces /\ WholeText.from = 0 /\ WholeText.to = Len(text)
  BY <1>2 DEF WholeText, Pieces, Parameters
<1>4. Cuts(FixedSizeChunks(WholeText), 0, Len(text))
  BY <1>2, <1>3, FixedSizeCuts
<1>5. IF chunks' = << >> THEN text = << >> ELSE AreCutsOfText(chunks')
  <2> DEFINE ds == FixedSizeChunks(WholeText)
  <2>1. ds \in Seq(Pieces) /\ ds # << >>
    BY <1>4 DEF Cuts, Reaches
  <2> HIDE DEF ds
  <2>2. OnePieceEach(ds) # << >>
    BY <2>1, OnePieceEachType
  <2>3. text # << >> => chunks' = OnePieceEach(ds)
    BY <1>1 DEF ds
  <2>4. AreCutsOfText(OnePieceEach(ds))
    BY <1>4 DEF ds, AreCutsOfText
  <2> QED  BY <1>1, <2>2, <2>3, <2>4
<1> QED  BY <1>1, <1>5, CutWellFormed

LEMMA RecursiveWellFormed ==
    ASSUME WellFormed, strategy # "sentence", RecursiveChunk, UNCHANGED sentenceVars
    PROVE  WellFormed'
<1>1. UNCHANGED callVars /\ done' = TRUE /\ chunks' = OnePieceEach(SplitText)
  BY DEF RecursiveChunk
<1>2. Cuts(SplitText, 0, Len(text))
  BY CallParameters, SplitTextCuts DEF WellFormed
<1>3. SplitText \in Seq(Pieces) /\ SplitText # << >>
  BY <1>2 DEF Cuts, Reaches
<1>4. OnePieceEach(SplitText) # << >>
  BY <1>3, OnePieceEachType
<1>5. AreCutsOfText(chunks')
  BY <1>1, <1>2 DEF AreCutsOfText
<1> QED  BY <1>1, <1>4, <1>5, CutWellFormed

(* A chunk that is not empty joins those before it.                        *)
LEMMA AppendFilled ==
    ASSUME NEW cs \in Seq(Seq(Pieces) \ {<< >>}), Filled(cs),
           NEW c \in Seq(Pieces), c # << >>,
           \A k \in DOMAIN c : Width(c[k]) > 0
    PROVE  /\ Append(cs, c) \in Seq(Seq(Pieces) \ {<< >>})
           /\ Filled(Append(cs, c))
<1>1. c \in Seq(Pieces) \ {<< >>}
  OBVIOUS
<1>2. /\ Append(cs, c) \in Seq(Seq(Pieces) \ {<< >>})
      /\ Append(cs, c)[Len(cs) + 1] = c
      /\ \A i \in DOMAIN cs : Append(cs, c)[i] = cs[i]
      /\ \A i \in DOMAIN Append(cs, c) : i = Len(cs) + 1 \/ i \in DOMAIN cs
  BY <1>1, Appended
<1> DEFINE ds == Append(cs, c)
<1> HIDE DEF ds
<1>3. Filled(ds)
  <2> SUFFICES ASSUME NEW i \in DOMAIN ds
               PROVE  ds[i] # << >> /\ \A k \in DOMAIN ds[i] : Width(ds[i][k]) > 0
    BY DEF Filled
  <2>1. CASE i = Len(cs) + 1
    <3>1. ds[i] = c
      BY <2>1, <1>2 DEF ds
    <3> QED  BY <3>1
  <2>2. CASE i \in DOMAIN cs
    <3>1. ds[i] = cs[i]
      BY <2>2, <1>2 DEF ds
    <3> QED  BY <2>2, <3>1 DEF Filled
  <2> QED  BY <2>1, <2>2, <1>2 DEF ds
<1> QED  BY <1>2, <1>3 DEF ds

LEMMA SentenceWellFormed ==
    ASSUME WellFormed, Inv, Inv', strategy = "sentence", SentenceChunk
    PROVE  WellFormed'
<1>1. ~done /\ UNCHANGED callVars
  BY DEF SentenceChunk, FindSentence, ReturnText, Group, Finish
<1>2. /\ strategy' = strategy /\ text' = text /\ Pieces' = Pieces
  BY <1>1, SameText
<1>3. /\ TypeOK /\ Filled(chunks) /\ \A k \in DOMAIN current : Width(current[k]) > 0
      /\ chunks \in Seq(Seq(Pieces) \ {<< >>}) /\ current \in Seq(Pieces)
      /\ at \in 0..Len(text) /\ matches \in Seq(Pieces) /\ turn \in 0..Len(matches)
      /\ done = FALSE
  BY <1>1 DEF WellFormed, SentenceState, TypeOK
<1>4. ~done' => /\ at' \in 0..Len(text) /\ matches' \in Seq(Pieces)
                /\ turn' \in 0..Len(matches') /\ current' \in Seq(Pieces)
  BY <1>2 DEF Inv, Typed
<1>5. SUFFICES /\ done' \in BOOLEAN
               /\ chunks' \in Seq(Seq(Pieces) \ {<< >>}) /\ Filled(chunks')
               /\ \A k \in DOMAIN current' : Width(current'[k]) > 0
               /\ done' => UNCHANGED sentenceVars
  <2>1. /\ at' \in 0..Len(text) /\ matches' \in Seq(Pieces)
        /\ turn' \in 0..Len(matches') /\ current' \in Seq(Pieces)
    <3>1. CASE done'
      <4>1. at' = at /\ matches' = matches /\ turn' = turn /\ current' = current
        BY <1>5, <3>1 DEF sentenceVars
      <4> QED  BY <4>1, <1>3
    <3>2. CASE ~done'
      BY <3>2, <1>4
    <3> QED  BY <3>1, <3>2
  <2>2. TypeOK'
    BY <1>1, <1>3, <1>5, <2>1, StaysTyped
  <2>3. SentenceState'
    BY <1>2, <1>5 DEF SentenceState, Filled, Width
  <2> QED  BY <1>2, <2>2, <2>3 DEF WellFormed, CutState
<1>6. CASE FindSentence
  <2>1. chunks' = chunks /\ done' = done /\ current' = current
    BY <1>6 DEF FindSentence
  <2> QED  BY <2>1, <1>3
<1>7. CASE ReturnText
  <2>1. /\ chunks' = IF text = << >> THEN << >> ELSE << <<WholeText>> >>
        /\ done' = TRUE /\ UNCHANGED sentenceVars
    BY <1>7 DEF ReturnText
  <2>2. CASE text = << >>
    <3>1. chunks' = << >> /\ current' = current
      BY <2>1, <2>2 DEF sentenceVars
    <3>2. Filled(chunks') /\ chunks' \in Seq(Seq(Pieces) \ {<< >>})
      BY <3>1 DEF Filled
    <3> QED  BY <2>1, <3>1, <3>2, <1>3
  <2>3. CASE text # << >>
    <3> DEFINE c == <<WholeText>>
    <3>1. Len(text) \in Nat /\ text \in Seq(Kinds[strategy])
      BY <1>3, CallParameters
    <3>2. Len(text) > 0
      BY <2>3, <3>1
    <3>3. WholeText \in Pieces /\ Width(WholeText) > 0
      BY <3>1, <3>2 DEF WholeText, Pieces, Width
    <3>4. c \in Seq(Pieces) /\ c # << >> /\ \A k \in DOMAIN c : Width(c[k]) > 0
      BY <3>3
    <3> HIDE DEF c
    <3>5. << >> \in Seq(Seq(Pieces) \ {<< >>}) /\ Filled(<< >>)
      BY DEF Filled
    <3>6. /\ Append(<< >>, c) \in Seq(Seq(Pieces) \ {<< >>}) /\ Filled(Append(<< >>, c))
      BY <3>4, <3>5, AppendFilled
    <3>7. Append(<< >>, c) = <<c>>
      OBVIOUS
    <3>8. chunks' = <<c>> /\ current' = current
      BY <2>1, <2>3 DEF c, sentenceVars
    <3> QED  BY <2>1, <3>6, <3>7, <3>8, <1>3
  <2> QED  BY <2>2, <2>3
<1>8. CASE Group
  <2> DEFINE s == Trim(matches[turn + 1])
  <2>1. /\ UNCHANGED done /\ turn' = turn + 1 /\ turn < Len(matches)
        /\ \/ Blank(s) /\ chunks' = chunks /\ current' = current
           \/ /\ ~Blank(s) /\ current # << >>
              /\ chunks' = Append(chunks, current) /\ current' = <<s>>
           \/ /\ ~Blank(s)
              /\ chunks' = chunks /\ current' = Append(current, s)
    BY <1>8 DEF Group, StartWith, Overflows
  <2>2. TextOK
    BY <1>1 DEF Inv, Typed
  <2>3. matches[turn + 1] \in Pieces
    <3>1. turn + 1 \in 1..Len(matches)
      BY <1>3, <2>1
    <3> QED  BY <3>1, <1>3
  <2>4. s \in Pieces
    BY <2>2, <2>3, TrimKeeps
  <2> HIDE DEF s
  <2>5. ~Blank(s) => Width(s) > 0
    BY <2>4, WidthType DEF Blank
  <2>6. current # << >> => /\ Append(chunks, current) \in Seq(Seq(Pieces) \ {<< >>})
                           /\ Filled(Append(chunks, current))
    BY <1>3, AppendFilled
  <2>7. \A k \in DOMAIN <<s>> : <<s>>[k] = s
    OBVIOUS
  <2>8. \A k \in DOMAIN Append(current, s) :
            Append(current, s)[k] = s
              \/ (k \in DOMAIN current /\ Append(current, s)[k] = current[k])
    BY <2>4, <1>3, Appended
  <2>9. \A k \in DOMAIN current' : Width(current'[k]) > 0
    BY <2>1, <2>5, <2>7, <2>8, <1>3
  <2>10. done' = FALSE
    BY <2>1, <1>3
  <2>11. chunks' \in Seq(Seq(Pieces) \ {<< >>}) /\ Filled(chunks')
    BY <2>1, <2>6, <1>3
  <2> QED  BY <2>9, <2>10, <2>11
<1>9. CASE Finish
  <2>1. /\ chunks' = IF current = << >> THEN chunks ELSE Append(chunks, current)
        /\ done' = TRUE /\ UNCHANGED sentenceVars
    BY <1>9 DEF Finish
  <2>2. current' = current
    BY <2>1 DEF sentenceVars
  <2>3. current # << >> => /\ Append(chunks, current) \in Seq(Seq(Pieces) \ {<< >>})
                           /\ Filled(Append(chunks, current))
    BY <1>3, AppendFilled
  <2> QED  BY <2>1, <2>2, <2>3, <1>3
<1> QED  BY <1>6, <1>7, <1>8, <1>9 DEF SentenceChunk

LEMMA NextWellFormed == WellFormed /\ Inv /\ Inv' /\ [Next]_vars => WellFormed'
<1> SUFFICES ASSUME WellFormed, Inv, Inv', [Next]_vars PROVE WellFormed'
  OBVIOUS
<1>1. CASE UNCHANGED vars
  <2>1. UNCHANGED callVars /\ UNCHANGED <<chunks, done, sentenceVars>>
    BY <1>1 DEF vars, callVars
  <2>2. strategy' = strategy /\ text' = text
    BY <2>1 DEF callVars
  <2>3. /\ at' = at /\ matches' = matches /\ turn' = turn /\ current' = current
        /\ chunks' = chunks /\ done' = done
    BY <2>1 DEF sentenceVars
  <2>4. TypeOK'
    BY <2>1, <2>3, StaysTyped DEF WellFormed, TypeOK, SentenceState
  <2>5. SentenceState'
    BY <2>2, <2>3 DEF WellFormed, SentenceState, Filled, Width
  <2>6. AreCutsOfText(chunks) => AreCutsOfText(chunks)'
    BY <2>1, <2>2, <2>3, SameCuts DEF AreCutsOfText
  <2>7. CutState'
    <3> HIDE DEF AreCutsOfText
    <3> QED  BY <2>2, <2>3, <2>6 DEF WellFormed, CutState
  <2> QED  BY <2>4, <2>5, <2>7 DEF WellFormed
<1>2. CASE strategy = "fixed" /\ FixedSizeChunk /\ UNCHANGED sentenceVars
  BY <1>2, FixedSizeWellFormed
<1>3. CASE strategy = "sentence" /\ SentenceChunk
  BY <1>3, SentenceWellFormed
<1>4. CASE strategy = "recursive" /\ RecursiveChunk /\ UNCHANGED sentenceVars
  BY <1>4, RecursiveWellFormed
<1> QED  BY <1>1, <1>2, <1>3, <1>4 DEF Next

LEMMA AlwaysWellFormed == Spec => []WellFormed
  BY InitWellFormed, NextWellFormed, Invariant, PTL DEF Spec

(* A call keeps its parameters usable and its chunks pieces of its text.   *)
THEOREM ChunkersTyped == Spec => []TypeOK
<1>1. WellFormed => TypeOK
  BY DEF WellFormed
<1> QED  BY <1>1, AlwaysWellFormed, PTL

(* Every letter of the text is in one of its cuts: in the first that ends  *)
(* behind it.                                                              *)
LEMMA CutsKeepLetters ==
    ASSUME Len(text) \in Nat, NEW ds, Cuts(ds, 0, Len(text)),
           NEW x \in 0..(Len(text) - 1), Kind(x) = "letter"
    PROVE  \E i \in 1..Len(ds) : x \in ds[i].from..(ds[i].to - 1)
<1> DEFINE T == {i \in 1..Len(ds) : x < ds[i].to}
           m == Min(T)
<1>1. /\ ds \in Seq(Pieces) /\ ds # << >> /\ ds[1].from = 0
      /\ ds[Len(ds)].to = Len(text)
  BY DEF Cuts, Reaches
<1>2. Len(ds) \in T /\ T \subseteq Nat
  BY <1>1
<1>3. m \in T /\ \A k \in T : m <= k
  BY <1>2, MinIsLeast
<1> HIDE DEF m
<1>4. ds[m] \in Pieces /\ m \in 1..Len(ds) /\ x < ds[m].to
  BY <1>1, <1>3
<1>5. ds[m].from <= x
  <2>1. CASE m = 1
    BY <2>1, <1>1
  <2>2. CASE m # 1
    <3>1. m \in 2..Len(ds) /\ m - 1 \in 1..Len(ds) /\ m - 1 < m
      BY <2>2, <1>4
    <3>2. m - 1 \notin T
      BY <3>1, <1>3
    <3>3. ds[m - 1] \in Pieces
      BY <3>1, <1>1
    <3>4. ds[m - 1].to \in Int /\ ds[m].from \in Int
      BY <3>3, <1>4, PieceEnds
    <3>5. ds[m - 1].to <= x
      BY <3>1, <3>2, <3>4
    <3>6. NoLetter(ds[m - 1].to, ds[m].from)
      BY <3>1 DEF Cuts, Reaches
    <3>7. x \notin ds[m - 1].to..(ds[m].from - 1)
      BY <3>6 DEF NoLetter
    <3> QED  BY <3>4, <3>5, <3>7
  <2> QED  BY <2>1, <2>2
<1>6. ds[m].from \in Int /\ ds[m].to \in Int
  BY <1>4, PieceEnds
<1> QED  BY <1>4, <1>5, <1>6

(* The fixed-size and the recursive strategy lose no letter of the text,   *)
(* whatever the size and the overlap are: each is in some chunk.           *)
THEOREM FixedAndRecursiveKeepText == Spec => []NothingLost
<1>1. WellFormed => NothingLost
  <2> SUFFICES ASSUME WellFormed, strategy # "sentence", done = TRUE,
                      NEW x \in Positions, Kind(x) = "letter"
               PROVE  Kept(x)
    BY DEF NothingLost
  <2>1. Len(text) \in Nat /\ x \in 0..(Len(text) - 1)
    BY CallParameters DEF WellFormed, Positions
  <2>2. text # << >>
    BY <2>1
  <2>3. AreCutsOfText(chunks)
    BY <2>2 DEF WellFormed, CutState
  <2>4. PICK ds : Cuts(ds, 0, Len(text)) /\ chunks = OnePieceEach(ds)
    BY <2>3 DEF AreCutsOfText
  <2>5. PICK i \in 1..Len(ds) : x \in ds[i].from..(ds[i].to - 1)
    BY <2>1, <2>4, CutsKeepLetters
  <2>6. /\ Len(chunks) = Len(ds) /\ chunks[i] = <<ds[i]>>
        /\ chunks \in Seq(Seq(Pieces) \ {<< >>})
    BY <2>4, OnePieceEachType DEF Cuts, Reaches
  <2> DEFINE p == ds[i]
             c == <<p>>
  <2>7. i \in DOMAIN chunks /\ 1 \in DOMAIN c /\ c[1] = p
    BY <2>6
  <2>8. c \in Range(chunks) /\ p \in Range(c)
    BY <2>6, <2>7 DEF Range
  <2> QED  BY <2>5, <2>8 DEF Kept
<1> QED  BY <1>1, AlwaysWellFormed, PTL

(* The chunks of every strategy advance through the text: each starts at   *)
(* or behind the start of the one before, and ends behind its end.         *)
THEOREM ChunksOnlyAdvance == Spec => []ChunksAdvance
<1>1. WellFormed /\ SentencesInOrder => ChunksAdvance
  <2> SUFFICES ASSUME WellFormed, SentencesInOrder, NEW i \in 1..(Len(chunks) - 1)
               PROVE  From(i) <= From(i + 1) /\ To(i) < To(i + 1)
    BY DEF ChunksAdvance
  <2>1. chunks \in Seq(Seq(Pieces) \ {<< >>}) /\ Len(text) \in Nat
    BY CallParameters DEF WellFormed, TypeOK
  <2>2. i \in 1..Len(chunks) /\ i + 1 \in 1..Len(chunks) /\ i < i + 1
    BY <2>1
  <2>3. From(i) = chunks[i][1].from /\ From(i + 1) = chunks[i + 1][1].from
    BY DEF From
  <2>4. /\ To(i) = chunks[i][Len(chunks[i])].to
        /\ To(i + 1) = chunks[i + 1][Len(chunks[i + 1])].to
    BY DEF To, Last
  <2>5. CASE strategy = "sentence"
    <3> DEFINE c == chunks[i]
               d == chunks[i + 1]
               m == Len(c)
               n == Len(d)
    <3>1. c \in Seq(Pieces) /\ c # << >> /\ d \in Seq(Pieces) /\ d # << >>
      BY <2>1, <2>2
    <3>2. m \in Nat \ {0} /\ n \in Nat \ {0} /\ i \in DOMAIN chunks /\ i + 1 \in DOMAIN chunks
      BY <3>1, <2>1, <2>2
    <3>3. 1 \in DOMAIN c /\ m \in DOMAIN c /\ 1 \in DOMAIN d /\ n \in DOMAIN d
      BY <3>1, <3>2
    <3>4. c[m].to <= d[1].from
      BY <3>2, <3>3, <2>2, <2>5 DEF SentencesInOrder
    <3>5. m = 1 \/ c[1].to <= c[m].from
      <4>1. m = 1 \/ 1 < m
        <5> HIDE DEF m
        <5> QED  BY <3>2
      <4>2. \A k, l \in DOMAIN chunks[i] : k < l => chunks[i][k].to <= chunks[i][l].from
        BY <3>2, <2>5 DEF SentencesInOrder
      <4>3. \A k, l \in DOMAIN c : k < l => c[k].to <= c[l].from
        BY <4>2
      <4> HIDE DEF m, c
      <4> QED  BY <4>1, <4>3, <3>3
    <3>6. n = 1 \/ d[1].to <= d[n].from
      <4>1. n = 1 \/ 1 < n
        <5> HIDE DEF n
        <5> QED  BY <3>2
      <4> DEFINE j == i + 1
      <4>2. j \in DOMAIN chunks
        BY <3>2
      <4> HIDE DEF j
      <4>3. \A k, l \in DOMAIN chunks[j] : k < l => chunks[j][k].to <= chunks[j][l].from
        BY <4>2, <2>5 DEF SentencesInOrder
      <4>4. \A k, l \in DOMAIN d : k < l => d[k].to <= d[l].from
        BY <4>3 DEF j
      <4> HIDE DEF n, d
      <4> QED  BY <4>1, <4>4, <3>3
    <3>7. Width(c[1]) > 0 /\ Width(c[m]) > 0 /\ Width(d[1]) > 0 /\ Width(d[n]) > 0
      BY <3>2, <3>3, <2>5 DEF WellFormed, SentenceState, Filled
    <3> HIDE DEF m, n, c, d
    <3>8. c[1] \in Pieces /\ c[m] \in Pieces /\ d[1] \in Pieces /\ d[n] \in Pieces
      BY <3>1, <3>3
    <3>9. /\ c[1].from \in Int /\ c[1].to \in Int /\ c[m].from \in Int /\ c[m].to \in Int
          /\ d[1].from \in Int /\ d[1].to \in Int /\ d[n].from \in Int /\ d[n].to \in Int
      BY <3>8, PieceEnds
    <3>10. c[1].from <= d[1].from /\ c[m].to < d[n].to
      <4>1. c[1].from < c[1].to /\ c[m].from < c[m].to
        BY <3>7, <3>8, PositiveWidth
      <4>2. d[1].from < d[1].to /\ d[n].from < d[n].to
        BY <3>7, <3>8, PositiveWidth
      <4>3. c[1].to <= c[m].to
        <5>1. CASE m = 1
          BY <5>1, <3>9
        <5>2. CASE m # 1
          BY <5>2, <3>5, <3>9, <4>1
        <5> QED  BY <5>1, <5>2
      <4>4. d[1].to <= d[n].to
        <5>1. CASE n = 1
          BY <5>1, <3>9
        <5>2. CASE n # 1
          BY <5>2, <3>6, <3>9, <4>2
        <5> QED  BY <5>1, <5>2
      <4> QED  BY <3>4, <3>9, <4>1, <4>2, <4>3, <4>4
    <3> QED  BY <3>10, <2>3, <2>4 DEF c, d, m, n
  <2>6. CASE strategy # "sentence"
    <3>1. chunks # << >>
      BY <2>1, <2>2
    <3>2. PICK ds : Cuts(ds, 0, Len(text)) /\ chunks = OnePieceEach(ds)
      BY <3>1, <2>6 DEF WellFormed, CutState, AreCutsOfText
    <3>3. /\ Len(chunks) = Len(ds) /\ \A k \in 1..Len(ds) : chunks[k] = <<ds[k]>>
      BY <3>2, OnePieceEachType DEF Cuts, Reaches
    <3>4. i \in 1..Len(ds) /\ i + 1 \in 1..Len(ds)
      BY <3>3, <2>2
    <3>5. chunks[i] = <<ds[i]>> /\ chunks[i + 1] = <<ds[i + 1]>>
      BY <3>3, <3>4
    <3>6. Before(ds[i], ds[i + 1])
      BY <3>2, <3>4, <2>2 DEF Cuts
    <3>7. \A p : Len(<<p>>) = 1 /\ <<p>>[1] = p
      OBVIOUS
    <3>8. /\ From(i) = ds[i].from /\ From(i + 1) = ds[i + 1].from
          /\ To(i) = ds[i].to /\ To(i + 1) = ds[i + 1].to
      BY <3>5, <3>7, <2>3, <2>4
    <3> QED  BY <3>6, <3>8 DEF Before
  <2> QED  BY <2>5, <2>6
<1> QED  BY <1>1, AlwaysWellFormed, SentencesStayInOrder, PTL
-----------------------------------------------------------------------------
(***************************************************************************)
(* Tidy texts of the recursive strategy.  Pieces are well cut if none is   *)
(* empty or, without an overlap, too long, and each starts no more than    *)
(* the overlap before the end of the one before.                           *)
(***************************************************************************)
Fits(p) == p.from < p.to /\ (overlap = 0 => p.to - p.from <= size)

WellCut(ds) ==
    /\ ds \in Seq(Pieces)
    /\ \A i \in 1..Len(ds) : Fits(ds[i])
    /\ \A i \in 2..Len(ds) : ds[i].from >= ds[i - 1].to - overlap

LEMMA ParametersAre ==
    ASSUME Parameters
    PROVE  size \in Int /\ overlap \in Int /\ 0 < size /\ 0 <= overlap
  BY DEF Parameters

LEMMA NothingWellCut == WellCut(<< >>)
  BY DEF WellCut

LEMMA AppendWellCut ==
    ASSUME NEW ds, WellCut(ds), NEW p \in Pieces, Fits(p),
           ds = << >> \/ p.from >= ds[Len(ds)].to - overlap
    PROVE  WellCut(Append(ds, p))
<1> DEFINE es == Append(ds, p)
           n == Len(ds)
<1>1. ds \in Seq(Pieces)
  BY DEF WellCut
<1>2. /\ es \in Seq(Pieces) /\ Len(es) = n + 1 /\ n \in Nat /\ es[n + 1] = p
      /\ \A i \in 1..n : es[i] = ds[i]
      /\ n > 0 => ds # << >>
  BY <1>1
<1>3. n = Len(ds)
  OBVIOUS
<1> HIDE DEF es, n
<1>4. ASSUME NEW i \in 1..Len(es) PROVE Fits(es[i])
  <2>1. i = n + 1 \/ i \in 1..n
    BY <1>2
  <2> QED  BY <2>1, <1>2, <1>3 DEF WellCut
<1>5. ASSUME NEW i \in 2..Len(es) PROVE es[i].from >= es[i - 1].to - overlap
  <2>1. CASE i = n + 1
    <3>1. n \in 1..n /\ i - 1 = n /\ n > 0
      BY <2>1, <1>2
    <3>2. es[i] = p /\ es[i - 1] = ds[n]
      BY <2>1, <3>1, <1>2
    <3> QED  BY <3>1, <3>2, <1>2, <1>3
  <2>2. CASE i \in 2..n
    <3>1. i \in 1..n /\ i - 1 \in 1..n
      BY <2>2, <1>2
    <3>2. es[i] = ds[i] /\ es[i - 1] = ds[i - 1]
      BY <3>1, <1>2
    <3> QED  BY <2>2, <3>2, <1>3 DEF WellCut
  <2> QED  BY <2>1, <2>2, <1>2
<1>6. WellCut(es)
  BY <1>2, <1>4, <1>5 DEF WellCut
<1> QED  BY <1>6 DEF es

LEMMA LongerLastWellCut ==
    ASSUME NEW ds \in Seq(Pieces), NEW x \in Pieces, WellCut(Append(ds, x)),
           NEW y \in Pieces, y.from = x.from, Fits(y)
    PROVE  WellCut(Append(ds, y))
<1> DEFINE es == Append(ds, x)
           n == Len(ds)
<1>1. /\ es \in Seq(Pieces) /\ Len(es) = n + 1 /\ n \in Nat /\ es[n + 1] = x
      /\ \A i \in 1..n : es[i] = ds[i]
      /\ ds = << >> \/ n > 0
  OBVIOUS
<1>2. n = Len(ds) /\ WellCut(es)
  OBVIOUS
<1> HIDE DEF es, n
<1>3. WellCut(ds)
  <2>1. ASSUME NEW i \in 1..n PROVE Fits(ds[i])
    <3>1. i \in 1..(n + 1)
      BY <1>1
    <3> QED  BY <3>1, <1>1, <1>2 DEF WellCut
  <2>2. ASSUME NEW i \in 2..n PROVE ds[i].from >= ds[i - 1].to - overlap
    <3>1. i \in 1..n /\ i - 1 \in 1..n /\ i \in 2..(n + 1)
      BY <1>1
    <3>2. es[i] = ds[i] /\ es[i - 1] = ds[i - 1]
      BY <3>1, <1>1
    <3> QED  BY <3>1, <3>2, <1>1, <1>2 DEF WellCut
  <2> QED  BY <2>1, <2>2, <1>2 DEF WellCut
<1>4. ds = << >> \/ y.from >= ds[n].to - overlap
  <2>1. CASE n > 0
    <3>1. n + 1 \in 2..(n + 1) /\ n \in 1..n /\ (n + 1) - 1 = n
      BY <2>1, <1>1
    <3>2. es[n + 1] = x /\ es[(n + 1) - 1] = ds[n]
      BY <3>1, <1>1
    <3>3. es[n + 1].from >= es[(n + 1) - 1].to - overlap
      BY <3>1, <1>1, <1>2 DEF WellCut
    <3> QED  BY <3>2, <3>3
  <2> QED  BY <2>1, <1>1
<1> QED  BY <1>2, <1>3, <1>4, AppendWellCut

LEMMA ConcatWellCut ==
    ASSUME NEW ds, WellCut(ds), NEW es, WellCut(es),
           ds = << >> \/ es = << >> \/ es[1].from >= ds[Len(ds)].to - overlap
    PROVE  WellCut(ds \o es)
<1> DEFINE fs == ds \o es
           n == Len(ds)
           m == Len(es)
<1>1. ds \in Seq(Pieces) /\ es \in Seq(Pieces)
  BY DEF WellCut
<1>2. /\ n \in Nat /\ m \in Nat
      /\ fs \in Seq(Pieces) /\ Len(fs) = n + m
      /\ \A i \in 1..n : fs[i] = ds[i]
      /\ \A i \in 1..m : fs[n + i] = es[i]
      /\ (n > 0 => ds # << >>) /\ (m > 0 => es # << >>)
  BY <1>1
<1>3. n = Len(ds) /\ m = Len(es)
  OBVIOUS
<1> HIDE DEF fs, n, m
<1>4. ASSUME NEW i \in 1..Len(fs) PROVE Fits(fs[i])
  <2>1. i \in 1..n \/ (i - n \in 1..m /\ n + (i - n) = i)
    BY <1>2
  <2>2. i \in 1..n => fs[i] = ds[i] /\ Fits(ds[i])
    BY <1>2, <1>3 DEF WellCut
  <2>3. i - n \in 1..m /\ n + (i - n) = i => fs[i] = es[i - n] /\ Fits(es[i - n])
    BY <1>2, <1>3 DEF WellCut
  <2> QED  BY <2>1, <2>2, <2>3
<1>5. ASSUME NEW i \in 2..Len(fs) PROVE fs[i].from >= fs[i - 1].to - overlap
  <2>1. CASE i \in 2..n
    <3>1. i \in 1..n /\ i - 1 \in 1..n
      BY <2>1, <1>2
    <3>2. fs[i] = ds[i] /\ fs[i - 1] = ds[i - 1]
      BY <3>1, <1>2
    <3> QED  BY <2>1, <3>2, <1>3 DEF WellCut
  <2>2. CASE i = n + 1
    <3>1. n \in 1..n /\ 1 \in 1..m /\ i - 1 = n /\ n > 0 /\ m > 0
      BY <2>2, <1>2
    <3>2. fs[i] = es[1] /\ fs[i - 1] = ds[n]
      BY <2>2, <3>1, <1>2
    <3> QED  BY <3>1, <3>2, <1>2, <1>3
  <2>3. CASE i \in (n + 2)..(n + m)
    <3>1. /\ i - n \in 2..m /\ i - n \in 1..m /\ (i - n) - 1 \in 1..m
          /\ n + (i - n) = i /\ n + ((i - n) - 1) = i - 1
      BY <2>3, <1>2
    <3>2. fs[i] = es[i - n] /\ fs[i - 1] = es[(i - n) - 1]
      BY <3>1, <1>2
    <3> QED  BY <3>1, <3>2, <1>3 DEF WellCut
  <2> QED  BY <2>1, <2>2, <2>3, <1>2
<1>6. WellCut(fs)
  BY <1>2, <1>4, <1>5 DEF WellCut
<1> QED  BY <1>6 DEF fs

LEMMA OneWellCut ==
    ASSUME NEW p \in Pieces, Fits(p)
    PROVE  WellCut(<<p>>)
<1>1. WellCut(Append(<< >>, p))
  BY NothingWellCut, AppendWellCut
<1>2. Append(<< >>, p) = <<p>>
  OBVIOUS
<1> QED  BY <1>1, <1>2
-----------------------------------------------------------------------------
(***************************************************************************)
(* mergeDocs of parts that are not empty, fit and are set apart by the     *)
(* separator: currentLen is the length of the block.                       *)
(***************************************************************************)
Spaced(ds, width) == \A i \in 2..Len(ds) : ds[i].from = ds[i - 1].to + width

Parts(ds, width) ==
    /\ ds \in Seq(Pieces)
    /\ \A i \in 1..Len(ds) : ds[i].from < ds[i].to
    /\ Spaced(ds, width)

Counted(m, width) ==
    /\ Parts(m.block, width)
    /\ m.length = Join(m.block).to - Join(m.block).from
    /\ WellCut(Append(m.merged, Join(m.block)))

LEMMA AppendParts ==
    ASSUME NEW ds, NEW width, Parts(ds, width), NEW p \in Pieces, p.from < p.to,
           ds = << >> \/ p.from = ds[Len(ds)].to + width
    PROVE  Parts(Append(ds, p), width)
<1> DEFINE es == Append(ds, p)
           n == Len(ds)
<1>1. ds \in Seq(Pieces)
  BY DEF Parts
<1>2. /\ es \in Seq(Pieces) /\ Len(es) = n + 1 /\ n \in Nat /\ es[n + 1] = p
      /\ \A i \in 1..n : es[i] = ds[i]
      /\ n > 0 => ds # << >>
  BY <1>1
<1>3. n = Len(ds)
  OBVIOUS
<1> HIDE DEF es, n
<1>4. ASSUME NEW i \in 1..Len(es) PROVE es[i].from < es[i].to
  <2>1. i = n + 1 \/ i \in 1..n
    BY <1>2
  <2>2. i \in 1..n => ds[i].from < ds[i].to
    BY <1>3 DEF Parts
  <2> QED  BY <2>1, <2>2, <1>2
<1>5. ASSUME NEW i \in 2..Len(es) PROVE es[i].from = es[i - 1].to + width
  <2>1. CASE i = n + 1
    <3>1. n \in 1..n /\ i - 1 = n /\ n > 0
      BY <2>1, <1>2
    <3>2. es[i] = p /\ es[i - 1] = ds[n]
      BY <2>1, <3>1, <1>2
    <3> QED  BY <3>1, <3>2, <1>2, <1>3
  <2>2. CASE i \in 2..n
    <3>1. i \in 1..n /\ i - 1 \in 1..n
      BY <2>2, <1>2
    <3>2. es[i] = ds[i] /\ es[i - 1] = ds[i - 1]
      BY <3>1, <1>2
    <3> QED  BY <2>2, <3>2, <1>3 DEF Parts, Spaced
  <2> QED  BY <2>1, <2>2, <1>2
<1>6. Parts(es, width)
  BY <1>2, <1>4, <1>5 DEF Parts, Spaced
<1> QED  BY <1>6 DEF es

LEMMA SuffixParts ==
    ASSUME NEW ds, NEW width, Parts(ds, width), NEW k \in 0..(Len(ds) - 1)
    PROVE  Parts(SubSeq(ds, k + 1, Len(ds)), width)
<1> DEFINE es == SubSeq(ds, k + 1, Len(ds))
           n == Len(ds)
<1>1. ds \in Seq(Pieces)
  BY DEF Parts
<1>2. n \in Nat /\ k \in Nat /\ k < n
  BY <1>1
<1>3. /\ es \in Seq(Pieces) /\ Len(es) = n - k
      /\ \A i \in 1..(n - k) : es[i] = ds[i + k]
  BY <1>1, <1>2
<1>4. n = Len(ds)
  OBVIOUS
<1> HIDE DEF es, n
<1>5. ASSUME NEW i \in 1..Len(es) PROVE es[i].from < es[i].to
  <2>1. i \in 1..(n - k) /\ i + k \in 1..n
    BY <1>2, <1>3
  <2>2. ds[i + k].from < ds[i + k].to
    BY <2>1, <1>4 DEF Parts
  <2> QED  BY <2>1, <2>2, <1>3
<1>6. ASSUME NEW i \in 2..Len(es) PROVE es[i].from = es[i - 1].to + width
  <2>1. /\ i \in 1..(n - k) /\ i - 1 \in 1..(n - k) /\ i + k \in 2..n
        /\ (i - 1) + k = (i + k) - 1
    BY <1>2, <1>3
  <2>2. es[i] = ds[i + k] /\ es[i - 1] = ds[(i + k) - 1]
    BY <2>1, <1>3
  <2> QED  BY <2>1, <2>2, <1>4 DEF Parts, Spaced
<1>7. Parts(es, width)
  BY <1>3, <1>5, <1>6 DEF Parts, Spaced
<1> QED  BY <1>7 DEF es

LEMMA RemovedIs ==
    ASSUME NEW block, Len(block) \in Nat, NEW length, NEW width,
           NEW k, k = Removed(block, length, width)
    PROVE  k = Len(block) \/ LengthWithout(k, block, length, width) <= overlap
<1> DEFINE T == {j \in 0..Len(block) :
                    j = Len(block) \/ LengthWithout(j, block, length, width) <= overlap}
<1>1. Len(block) \in T /\ T \subseteq Nat
  OBVIOUS
<1>2. Min(T) \in T
  BY <1>1, MinIsLeast
<1>3. k = Min(T)
  BY DEF Removed
<1> HIDE DEF LengthWithout
<1> QED  BY <1>2, <1>3

LEMMA FirstCounted ==
    ASSUME Parameters, NEW doc \in Pieces, NEW width \in Nat,
           doc.from < doc.to, doc.to - doc.from <= size
    PROVE  Counted(MergeDoc(NothingMerged, doc, width), width)
<1> DEFINE r == MergeDoc(NothingMerged, doc, width)
           x == LengthWithout(0, << >>, 0, width)
<1>1. r = [merged |-> << >>, block |-> Append(SubSeq(<< >>, 1, 0), doc),
           length |-> IF x = 0 THEN Width(doc) ELSE x + Width(doc) + width]
  BY DEF MergeDoc, NothingMerged
<1>2. x = 0
  BY DEF LengthWithout
<1> HIDE DEF r, x
<1>3. Append(SubSeq(<< >>, 1, 0), doc) = <<doc>>
  <2> DEFINE q == SubSeq(<< >>, 1, 0)
  <2>1. q = << >>
    BY SubSeqEmpty
  <2> HIDE DEF q
  <2>2. Append(q, doc) = <<doc>>
    BY <2>1
  <2> QED  BY <2>2 DEF q
<1>4. r.merged = << >> /\ r.block = <<doc>> /\ r.length = doc.to - doc.from
  BY <1>1, <1>2, <1>3 DEF Width
<1>5. Join(<<doc>>) = doc
  <2>1. doc = [from |-> doc.from, to |-> doc.to]
    BY DEF Pieces
  <2>2. Join(<<doc>>) = [from |-> doc.from, to |-> doc.to]
    BY DEF Join, Last
  <2> QED  BY <2>1, <2>2
<1>6. Append(<< >>, doc) = <<doc>>
  OBVIOUS
<1>7. Parts(<<doc>>, width)
  <2>1. Parts(<< >>, width)
    BY DEF Parts, Spaced
  <2> QED  BY <2>1, <1>6, AppendParts
<1>8. Fits(doc)
  BY ParametersAre, PieceEnds DEF Fits
<1>9. WellCut(<<doc>>)
  BY <1>8, OneWellCut
<1>10. Counted(r, width)
  BY <1>4, <1>5, <1>6, <1>7, <1>9 DEF Counted
<1> QED  BY <1>10 DEF r

LEMMA NextCounted ==
    ASSUME Parameters, NEW m, NEW a, NEW d, Blocked(m, a, d),
           NEW width \in 1..2, Counted(m, width),
           NEW doc \in Pieces, doc.from = d + width, NoLetter(d, doc.from),
           doc.from < doc.to, doc.to - doc.from <= size
    PROVE  Counted(MergeDoc(m, doc, width), width)
<1> DEFINE r == MergeDoc(m, doc, width)
           full == Exceeds(m.length, doc, width) /\ m.block # << >>
           k == IF full THEN Removed(m.block, m.length, width) ELSE 0
           n == Len(m.block)
           length == LengthWithout(k, m.block, m.length, width)
           rest == SubSeq(m.block, k + 1, n)
           c == m.block[1].from
           x == Join(m.block)
           y == Join(r.block)
<1>1. /\ r.merged = IF full THEN Append(m.merged, x) ELSE m.merged
      /\ r.block = Append(rest, doc)
      /\ r.length = IF length = 0 THEN Width(doc) ELSE length + Width(doc) + width
  BY DEF MergeDoc
<1>2. /\ Len(text) \in Nat /\ m.block \in Seq(Pieces) /\ m.block # << >>
      /\ Apart(m.block, c, d) /\ m.merged \in Seq(Pieces) /\ m.block[n].to = d
  BY DEF Blocked, Parameters, Apart, Reaches
<1>3. n \in Nat /\ n > 0 /\ k \in 0..n
  BY <1>2, RemovedType
<1>4. x \in Pieces /\ x.from = c /\ x.to = d /\ c <= d
  BY <1>2, JoinApart
<1>5. /\ c \in Int /\ d \in Int /\ doc.from \in Int /\ doc.to \in Int /\ width \in Int
      /\ d < doc.from /\ Width(doc) = doc.to - doc.from
  BY <1>4, PieceEnds DEF Width
<1>6. /\ Parts(m.block, width) /\ m.length = d - c /\ WellCut(Append(m.merged, x))
  BY <1>4 DEF Counted
<1>7. PICK e \in Int : Apart(r.block, e, doc.to)
  <2>1. Blocked(r, a, doc.to)
    BY <1>5, NextDoc
  <2> HIDE DEF r
  <2>2. Apart(r.block, r.block[1].from, doc.to) /\ r.block \in Seq(Pieces) /\ r.block # << >>
    BY <2>1 DEF Blocked, Apart, Reaches
  <2>3. r.block[1] \in Pieces
    BY <2>2
  <2> QED  BY <2>2, <2>3, PieceEnds
<1>8. full => k = n \/ length <= overlap
  <2>1. full => k = Removed(m.block, m.length, width)
    OBVIOUS
  <2>2. Len(m.block) \in Nat
    BY <1>2
  <2> HIDE DEF full, k
  <2> QED  BY <2>1, <2>2, RemovedIs
<1>9. ~full => k = 0 /\ doc.to - c <= size
  <2>1. ~full => k = 0 /\ ~Exceeds(m.length, doc, width)
    BY <1>2
  <2> HIDE DEF full, k
  <2> QED  BY <2>1, <1>4, <1>5, <1>6, ParametersAre DEF Exceeds
<1> HIDE DEF r, full, k, x, length
<1>10. y \in Pieces /\ y.from = e /\ y.to = doc.to
  BY <1>2, <1>7, JoinApart
<1>11. /\ Parts(r.block, width) /\ r.length = doc.to - e
       /\ k = n => e = doc.from
       /\ k < n => length = d - e /\ e < d
       /\ k = 0 => e = c
  <2>1. CASE k = n
    <3>1. r.block = <<doc>>
      <4>1. rest = << >>
        BY <2>1, <1>3, SubSeqEmpty
      <4> HIDE DEF rest
      <4> QED  BY <4>1, <1>1
    <3>2. e = doc.from
      BY <3>1, <1>7 DEF Apart, Reaches
    <3>3. length = 0 - width
      <4>1. length = m.length - (m.block[n].to - m.block[1].from + width)
        BY <2>1, <1>3 DEF length, LengthWithout
      <4> QED  BY <4>1, <1>2, <1>5, <1>6
    <3>4. r.length = doc.to - e
      BY <3>2, <3>3, <1>1, <1>5
    <3>5. Parts(<<doc>>, width)
      <4>1. Parts(<< >>, width)
        BY DEF Parts, Spaced
      <4>2. Append(<< >>, doc) = <<doc>>
        OBVIOUS
      <4> QED  BY <4>1, <4>2, AppendParts
    <3> QED  BY <2>1, <3>1, <3>2, <3>4, <3>5, <1>3
  <2>2. CASE k < n
    <3>1. k \in 0..(n - 1) /\ k + 1 \in 1..n
      BY <2>2, <1>3
    <3> DEFINE b == m.block[k + 1].from
    <3>2. Parts(rest, width)
      BY <3>1, <1>6, SuffixParts
    <3>3. /\ rest \in Seq(Pieces) /\ Len(rest) = n - k
          /\ \A i \in 1..(n - k) : rest[i] = m.block[i + k]
      BY <3>1, <1>2, <1>3
    <3>4. rest # << >> /\ rest[1].from = b /\ rest[Len(rest)].to = d
      <4>1. n - k \in 1..(n - k) /\ (n - k) + k = n /\ 1 \in 1..(n - k) /\ 1 + k = k + 1
        BY <3>1, <1>3
      <4>2. rest[1] = m.block[k + 1] /\ rest[n - k] = m.block[n]
        BY <4>1, <3>3
      <4> HIDE DEF rest
      <4>3. rest # << >>
        BY <3>3, <4>1
      <4> QED  BY <4>2, <4>3, <3>3, <1>2
    <3> HIDE DEF rest
    <3>5. Parts(r.block, width)
      BY <3>2, <3>4, <1>1, AppendParts
    <3>6. e = b
      <4>1. Append(rest, doc)[1] = rest[1]
        BY <3>3, <3>4
      <4> QED  BY <4>1, <3>4, <1>1, <1>7 DEF Apart, Reaches
    <3>7. length = d - e /\ e < d
      <4>1. m.block[k + 1] \in Pieces
        BY <3>1, <1>2
      <4>2. m.block[k + 1].from < m.block[k + 1].to
        BY <3>1, <1>6 DEF Parts
      <4>3. e < d
        <5>1. CASE k + 1 = n
          BY <5>1, <4>2, <3>6, <1>2
        <5>2. CASE k + 1 # n
          <6>1. n \in 1..n /\ k + 1 < n
            BY <5>2, <3>1, <1>3
          <6>2. m.block[k + 1].to < m.block[n].from
            BY <6>1, <3>1, <1>2 DEF Apart
          <6>3. m.block[n] \in Pieces
            BY <6>1, <1>2
          <6>4. /\ m.block[k + 1].from \in Int /\ m.block[k + 1].to \in Int
                /\ m.block[n].from \in Int /\ m.block[n].to \in Int
                /\ m.block[n].from <= m.block[n].to
            BY <6>3, <4>1, PieceEnds
          <6>5. m.block[k + 1].from < m.block[n].to
            BY <6>2, <6>4, <4>2
          <6> QED  BY <6>5, <3>6, <1>2
        <5> QED  BY <5>1, <5>2
      <4>4. CASE k = 0
        BY <4>3, <4>4, <3>6, <1>6 DEF length, LengthWithout
      <4>5. CASE k # 0
        <5>1. k \in 1..n /\ k + 1 \in 2..n /\ (k + 1) - 1 = k
          BY <4>5, <3>1, <1>3
        <5>2. m.block[k + 1].from = m.block[k].to + width
          <6>1. m.block[k + 1].from = m.block[(k + 1) - 1].to + width
            BY <5>1, <1>6 DEF Parts, Spaced
          <6> QED  BY <6>1, <5>1
        <5>3. m.block[k] \in Pieces
          BY <5>1, <1>2
        <5>4. m.block[k].to \in Int
          BY <5>3, PieceEnds
        <5>5. length = m.length - (m.block[k].to - c + width)
          BY <4>5 DEF length, LengthWithout
        <5> QED  BY <4>3, <5>2, <5>4, <5>5, <3>6, <1>5, <1>6
      <4> QED  BY <4>4, <4>5
    <3>8. r.length = doc.to - e
      BY <3>7, <1>1, <1>5, <1>7
    <3>9. k = 0 => e = c
      BY <3>6, <1>3
    <3> QED  BY <2>2, <3>5, <3>7, <3>8, <3>9, <1>3
  <2> QED  BY <2>1, <2>2, <1>3
<1> HIDE DEF rest, c, n, y
<1>12. Fits(y)
  <2>1. e < doc.to
    BY <1>3, <1>5, <1>7, <1>11
  <2>2. CASE ~full
    BY <2>1, <2>2, <1>5, <1>7, <1>9, <1>10, <1>11, ParametersAre DEF Fits
  <2>3. CASE full /\ k = n
    BY <2>1, <2>3, <1>5, <1>10, <1>11, ParametersAre DEF Fits
  <2>4. CASE full /\ k < n
    <3>1. d - e <= overlap /\ 0 < d - e
      BY <2>4, <1>3, <1>5, <1>7, <1>8, <1>11
    <3>2. overlap # 0
      BY <3>1, <1>5, <1>7
    <3> QED  BY <2>1, <3>2, <1>10 DEF Fits
  <2> QED  BY <2>2, <2>3, <2>4, <1>3
<1>13. WellCut(Append(r.merged, y))
  <2>1. CASE ~full
    <3>1. y.from = x.from
      BY <2>1, <1>4, <1>9, <1>10, <1>11
    <3> QED  BY <2>1, <3>1, <1>1, <1>2, <1>4, <1>6, <1>10, <1>12, LongerLastWellCut
  <2>2. CASE full
    <3>1. y.from >= d - overlap
      <4>1. k = n => y.from >= d
        BY <1>5, <1>10, <1>11
      <4>2. k < n => d - e <= overlap
        BY <2>2, <1>3, <1>8, <1>11
      <4> QED  BY <4>1, <4>2, <1>3, <1>5, <1>7, <1>10, ParametersAre
    <3> DEFINE ds == Append(m.merged, x)
    <3>2. ds[Len(ds)] = x
      BY <1>2, <1>4
    <3> HIDE DEF ds
    <3>3. WellCut(ds) /\ r.merged = ds
      BY <2>2, <1>1, <1>6 DEF ds
    <3> QED  BY <3>1, <3>2, <3>3, <1>4, <1>10, <1>12, AppendWellCut
  <2> QED  BY <2>1, <2>2
<1>14. Counted(r, width)
  BY <1>10, <1>11, <1>13 DEF Counted, y
<1> QED  BY <1>14 DEF r

LEMMA MergeWellCut ==
    ASSUME Parameters, NEW docs, NEW a, NEW b, Apart(docs, a, b), NEW width \in 1..2,
           Parts(docs, width), \A i \in 1..Len(docs) : docs[i].to - docs[i].from <= size
    PROVE  WellCut(Merge(docs, width))
<1>1. /\ docs \in Seq(Pieces) /\ docs # << >> /\ docs[1].from = a
      /\ docs[Len(docs)].to = b /\ width \in Nat
  BY DEF Apart, Reaches
<1>2. PICK f : /\ f[0] = NothingMerged
               /\ \A n \in 1..Len(docs) : f[n] = MergeDoc(f[n - 1], docs[n], width)
               /\ MergeLoop(docs, width) = f[Len(docs)]
  BY <1>1, MergeLoopIs
<1> DEFINE T == {n \in 0..Len(docs) :
                    n # 0 => Blocked(f[n], a, docs[n].to) /\ Counted(f[n], width)}
<1>3. Len(docs) \in Nat /\ Len(docs) > 0 /\ 0 \in T
  BY <1>1
<1>4. ASSUME NEW n \in 1..Len(docs), n - 1 \in T PROVE n \in T
  <2>1. docs[n] \in Pieces /\ n \in 0..Len(docs)
    BY <1>1
  <2>2. f[n] = MergeDoc(f[n - 1], docs[n], width)
    BY <1>2
  <2>3. docs[n].from < docs[n].to /\ docs[n].to - docs[n].from <= size
    BY DEF Parts
  <2>4. CASE n = 1
    <3>1. Blocked(f[n], a, docs[n].to)
      BY <2>1, <2>2, <2>4, <1>1, <1>2, FirstDoc
    <3>2. Counted(f[n], width)
      BY <2>1, <2>2, <2>3, <2>4, <1>1, <1>2, FirstCounted
    <3> QED  BY <2>1, <3>1, <3>2
  <2>5. CASE n # 1
    <3>1. n - 1 \in 1..Len(docs) /\ n - 1 < n /\ n - 1 # 0 /\ n \in 2..Len(docs)
      BY <2>5
    <3>2. Blocked(f[n - 1], a, docs[n - 1].to) /\ Counted(f[n - 1], width)
      BY <1>4, <3>1
    <3>3. docs[n - 1].to < docs[n].from /\ NoLetter(docs[n - 1].to, docs[n].from)
      BY <3>1 DEF Apart, Reaches
    <3>4. docs[n].from = docs[n - 1].to + width
      BY <3>1 DEF Parts, Spaced
    <3>5. Blocked(f[n], a, docs[n].to)
      BY <2>1, <2>2, <3>2, <3>3, <1>1, NextDoc
    <3>6. Counted(f[n], width)
      BY <2>1, <2>2, <2>3, <3>2, <3>3, <3>4, NextCounted
    <3> QED  BY <2>1, <3>5, <3>6
  <2> QED  BY <2>4, <2>5
<1>5. \A n \in 0..Len(docs) : n \in T
  <2> HIDE DEF T
  <2> QED  BY <1>3, <1>4, Induction
<1> DEFINE m == MergeLoop(docs, width)
<1>6. Blocked(m, a, b) /\ Counted(m, width)
  BY <1>1, <1>2, <1>3, <1>5
<1>7. m.block # << >> => Merge(docs, width) = Append(m.merged, Join(m.block))
  BY DEF Merge
<1> HIDE DEF m
<1> QED  BY <1>6, <1>7 DEF Blocked, Apart, Reaches, Counted
-----------------------------------------------------------------------------
(***************************************************************************)
(* strings.Split of a piece in which every separator has letters on both   *)
(* sides: the parts begin and end with a letter and hold no separator.     *)
(***************************************************************************)
Clean(p) ==
    p \in Pieces /\ p.from < p.to /\ Kind(p.from) = "letter" /\ Kind(p.to - 1) = "letter"

BetweenWords(p, sep) ==
    \A i \in Occurrences(p, sep) :
        Kind(i - 1) = "letter" /\ Kind(i + Len(sep)) = "letter"

CutBetweenWords(s, p, sep) ==
    /\ s \in CutStates
    /\ Parts(Append(s.parts, s.rest), Len(sep))
    /\ \A i \in 1..Len(s.parts) : Clean(s.parts[i]) /\ Occurrences(s.parts[i], sep) = {}
    /\ Clean(s.rest)
    /\ Occurrences(s.rest, sep) \subseteq Occurrences(p, sep)

LEMMA FrontParts ==
    ASSUME NEW ds \in Seq(Pieces), NEW p \in Pieces, NEW width, Parts(Append(ds, p), width)
    PROVE  Parts(ds, width) /\ (ds = << >> \/ p.from = ds[Len(ds)].to + width)
<1> DEFINE es == Append(ds, p)
           n == Len(ds)
<1>1. /\ Len(es) = n + 1 /\ n \in Nat /\ es[n + 1] = p
      /\ \A i \in 1..n : es[i] = ds[i]
      /\ ds = << >> \/ n > 0
  OBVIOUS
<1>2. n = Len(ds) /\ Parts(es, width)
  OBVIOUS
<1> HIDE DEF es, n
<1>3. ASSUME NEW i \in 1..n PROVE ds[i].from < ds[i].to
  <2>1. i \in 1..(n + 1)
    BY <1>1
  <2>2. es[i].from < es[i].to
    BY <2>1, <1>1, <1>2 DEF Parts
  <2> QED  BY <2>2, <1>1
<1>4. ASSUME NEW i \in 2..n PROVE ds[i].from = ds[i - 1].to + width
  <2>1. i \in 1..n /\ i - 1 \in 1..n /\ i \in 2..(n + 1)
    BY <1>1
  <2>2. es[i] = ds[i] /\ es[i - 1] = ds[i - 1]
    BY <2>1, <1>1
  <2> QED  BY <2>1, <2>2, <1>1, <1>2 DEF Parts, Spaced
<1>5. ds = << >> \/ p.from = ds[n].to + width
  <2>1. CASE n > 0
    <3>1. n + 1 \in 2..(n + 1) /\ n \in 1..n /\ (n + 1) - 1 = n
      BY <2>1, <1>1
    <3>2. es[n + 1] = p /\ es[(n + 1) - 1] = ds[n]
      BY <3>1, <1>1
    <3>3. es[n + 1].from = es[(n + 1) - 1].to + width
      BY <3>1, <1>1, <1>2 DEF Parts, Spaced
    <3> QED  BY <3>2, <3>3
  <2> QED  BY <2>1, <1>1
<1> QED  BY <1>2, <1>3, <1>4, <1>5 DEF Parts, Spaced

LEMMA CutOffBetweenWords ==
    ASSUME Parameters, NEW p, NEW sep, IsSeparator(sep), BetweenWords(p, sep),
           NEW s, CutBetweenWords(s, p, sep),
           NEW r, r = CutOff(s, sep)
    PROVE  /\ CutBetweenWords(r, p, sep)
           /\ \/ Occurrences(r.rest, sep) = {}
              \/ r.rest.to - r.rest.from < s.rest.to - s.rest.from
<1> DEFINE found == Occurrences(s.rest, sep)
           m == Min(found)
           w == Len(sep)
           x == [from |-> s.rest.from, to |-> m]
           y == [from |-> m + w, to |-> s.rest.to]
<1>1. s.parts \in Seq(Pieces) /\ s.rest \in Pieces /\ Len(text) \in Nat
  BY DEF CutBetweenWords, CutStates, Parameters
<1>2. CASE found = {}
  BY <1>2 DEF CutOff
<1>3. CASE found # {}
  <2>1. r.parts = Append(s.parts, x) /\ r.rest = y
    BY <1>3 DEF CutOff
  <2>2. found \subseteq Nat
    BY <1>1, OccurrenceIs, PieceEnds
  <2>3. m \in found /\ \A i \in found : m <= i
    BY <1>3, <2>2, MinIsLeast
  <2>4. /\ m \in Int /\ s.rest.from <= m /\ m + w <= s.rest.to /\ NoLetter(m, m + w)
    BY <1>1, <2>3, OccurrenceIs
  <2>5. w \in Nat /\ w > 0
    BY DEF IsSeparator
  <2>6. Kind(m - 1) = "letter" /\ Kind(m + w) = "letter"
    BY <2>3 DEF CutBetweenWords, BetweenWords
  <2>7. /\ s.rest.from \in 0..Len(text) /\ s.rest.to \in 0..Len(text)
    BY <1>1 DEF Pieces
  <2> HIDE DEF m, w
  <2>8. m # s.rest.from /\ m + w # s.rest.to
    <3>1. m \in m..(m + w - 1) /\ (m + w) - 1 \in m..(m + w - 1)
      BY <2>4, <2>5
    <3>2. Kind(m) # "letter" /\ Kind((m + w) - 1) # "letter"
      BY <3>1, <2>4 DEF NoLetter
    <3>3. Kind(s.rest.from) = "letter" /\ Kind(s.rest.to - 1) = "letter"
      BY DEF CutBetweenWords, Clean
    <3> QED  BY <3>2, <3>3
  <2>9. s.rest.from < m /\ m + w < s.rest.to
    BY <2>4, <2>5, <2>7, <2>8
  <2>10. x \in Pieces /\ y \in Pieces
    BY <2>4, <2>5, <2>7, <2>9 DEF Pieces
  <2>11. r \in CutStates
    BY CutOffKeeps DEF CutBetweenWords
  <2>12. Clean(x) /\ Clean(y)
    <3>1. x.from < x.to /\ Kind(x.from) = "letter" /\ Kind(x.to - 1) = "letter"
      BY <2>6, <2>9 DEF CutBetweenWords, Clean
    <3>2. y.from < y.to /\ Kind(y.from) = "letter" /\ Kind(y.to - 1) = "letter"
      BY <2>6, <2>9 DEF CutBetweenWords, Clean
    <3> QED  BY <2>10, <3>1, <3>2 DEF Clean
  <2>13. Occurrences(x, sep) = {}
    <3> SUFFICES ASSUME NEW i \in Occurrences(x, sep) PROVE FALSE
      OBVIOUS
    <3>1. /\ i \in s.rest.from..(m - w) /\ SubSeq(text, i + 1, i + w) = sep
      BY DEF Occurrences, w
    <3>2. i \in s.rest.from..(s.rest.to - w)
      BY <3>1, <2>4, <2>5, <2>7, <2>9
    <3>3. i \in found
      BY <3>1, <3>2 DEF Occurrences, w
    <3>4. m <= i
      BY <3>3, <2>3
    <3> QED  BY <3>1, <3>4, <2>4, <2>5, <2>7
  <2>14. Occurrences(y, sep) \subseteq found
    <3> SUFFICES ASSUME NEW i \in Occurrences(y, sep) PROVE i \in found
      OBVIOUS
    <3>1. /\ i \in (m + w)..(s.rest.to - w) /\ SubSeq(text, i + 1, i + w) = sep
      BY DEF Occurrences, w
    <3>2. i \in s.rest.from..(s.rest.to - w)
      BY <3>1, <2>4, <2>5, <2>7
    <3> QED  BY <3>1, <3>2 DEF Occurrences, w
  <2>15. Parts(Append(Append(s.parts, x), y), w)
    <3>1. /\ Parts(s.parts, w)
          /\ s.parts = << >> \/ s.rest.from = s.parts[Len(s.parts)].to + w
      BY <1>1, FrontParts DEF CutBetweenWords, w
    <3>2. Parts(Append(s.parts, x), w)
      BY <3>1, <2>9, <2>10, AppendParts
    <3> DEFINE ds == Append(s.parts, x)
    <3>3. ds[Len(ds)] = x
      BY <1>1
    <3>4. x.to = m /\ y.from = m + w /\ y.to = s.rest.to
      OBVIOUS
    <3> HIDE DEF ds, x, y
    <3>5. Parts(Append(ds, y), w)
      BY <3>2, <3>3, <3>4, <2>9, <2>10, AppendParts DEF ds
    <3> QED  BY <3>5 DEF ds
  <2> DEFINE n == Len(s.parts)
  <2>16. ASSUME NEW i \in 1..Len(r.parts)
         PROVE  Clean(r.parts[i]) /\ Occurrences(r.parts[i], sep) = {}
    <3>1. /\ Len(r.parts) = n + 1 /\ n \in Nat /\ r.parts[n + 1] = x
          /\ \A j \in 1..n : r.parts[j] = s.parts[j]
      BY <1>1, <2>1
    <3>2. CASE i = n + 1
      BY <3>1, <3>2, <2>12, <2>13
    <3>3. CASE i \in 1..n
      BY <3>1, <3>3 DEF CutBetweenWords
    <3> QED  BY <3>1, <3>2, <3>3
  <2>17. y.to - y.from < s.rest.to - s.rest.from
    BY <2>4, <2>5, <2>7
  <2> HIDE DEF x, y, found
  <2>18. Occurrences(y, sep) \subseteq Occurrences(p, sep)
    BY <2>14 DEF CutBetweenWords, found
  <2>19. Parts(Append(r.parts, r.rest), Len(sep))
    BY <2>1, <2>15 DEF w
  <2>20. CutBetweenWords(r, p, sep)
    BY <2>1, <2>11, <2>12, <2>16, <2>18, <2>19 DEF CutBetweenWords
  <2> QED  BY <2>1, <2>17, <2>20
<1> QED  BY <1>2, <1>3

LEMMA SplitBetweenWords ==
    ASSUME Parameters, NEW p, Clean(p), NEW sep, IsSeparator(sep), BetweenWords(p, sep),
           NEW ds, ds = Split(p, sep)
    PROVE  /\ Parts(ds, Len(sep))
           /\ \A i \in 1..Len(ds) : Clean(ds[i]) /\ Occurrences(ds[i], sep) = {}
<1> DEFINE f == CHOOSE f : AreCutsOf(f, p, sep)
           start == [parts |-> << >>, rest |-> p]
           W == Width(p)
<1>1. p \in Pieces /\ W = p.to - p.from /\ W \in Nat
  BY WidthType DEF Clean, Width
<1>2. AreCutsOf(f, p, sep)
  BY <1>1, CutsExist
<1>3. ds = Append(f[W].parts, f[W].rest)
  BY Zenon DEF Split, AreCutsOf
<1> HIDE DEF f
<1>4. f[0] = start
  BY <1>1, <1>2 DEF AreCutsOf
<1>5. ASSUME NEW n \in 1..W PROVE f[n] = CutOff(f[n - 1], sep)
  <2>1. n \in 0..W /\ n # 0
    BY <1>1
  <2> QED  BY <2>1, <1>2 DEF AreCutsOf
<1> HIDE DEF W
<1> DEFINE T == {n \in 0..W :
                    /\ CutBetweenWords(f[n], p, sep)
                    /\ \/ Occurrences(f[n].rest, sep) = {}
                       \/ f[n].rest.to - f[n].rest.from <= W - n}
<1>6. 0 \in T
  <2>1. start \in CutStates
    BY <1>1 DEF CutStates
  <2>2. Append(start.parts, start.rest) = <<p>> /\ Append(<< >>, p) = <<p>>
    OBVIOUS
  <2>3. Parts(<< >>, Len(sep))
    BY DEF Parts, Spaced
  <2>4. Parts(Append(start.parts, start.rest), Len(sep))
    BY <1>1, <2>2, <2>3, AppendParts DEF Clean
  <2>5. CutBetweenWords(start, p, sep)
    BY <2>1, <2>4 DEF CutBetweenWords
  <2>6. start.rest.to - start.rest.from <= W - 0
    BY <1>1
  <2> HIDE DEF start
  <2> QED  BY <2>5, <2>6, <1>1, <1>4
<1>7. ASSUME NEW n \in 1..W, n - 1 \in T PROVE n \in T
  <2>1. n \in 0..W /\ n \in Int /\ W \in Int
    BY <1>1
  <2>2. CutBetweenWords(f[n - 1], p, sep)
    BY <1>7
  <2>3. f[n] = CutOff(f[n - 1], sep)
    BY <1>5
  <2> DEFINE s == f[n - 1]
             r == f[n]
  <2>4. /\ CutBetweenWords(r, p, sep)
        /\ \/ Occurrences(r.rest, sep) = {}
           \/ r.rest.to - r.rest.from < s.rest.to - s.rest.from
    BY <2>2, <2>3, CutOffBetweenWords
  <2>5. CASE Occurrences(s.rest, sep) = {}
    <3>1. r = s
      BY <2>3, <2>5 DEF CutOff
    <3> QED  BY <2>1, <2>4, <2>5, <3>1
  <2>6. CASE s.rest.to - s.rest.from <= W - (n - 1)
    <3>1. /\ s.rest.from \in Int /\ s.rest.to \in Int /\ r.rest.from \in Int /\ r.rest.to \in Int
      <4>1. s.rest \in Pieces /\ r.rest \in Pieces
        BY <2>2, <2>4 DEF CutBetweenWords, CutStates
      <4> QED  BY <4>1, PieceEnds
    <3> HIDE DEF r, s
    <3>2. Occurrences(r.rest, sep) = {} \/ r.rest.to - r.rest.from <= W - n
      BY <2>1, <2>4, <2>6, <3>1
    <3> QED  BY <2>1, <2>4, <3>2 DEF r
  <2> QED  BY <1>7, <2>5, <2>6
<1>8. \A n \in 0..W : n \in T
  <2> HIDE DEF T
  <2> QED  BY <1>1, <1>6, <1>7, Induction
<1> DEFINE s == f[W]
<1>9. /\ CutBetweenWords(s, p, sep)
      /\ Occurrences(s.rest, sep) = {} \/ s.rest.to - s.rest.from <= W - W
  BY <1>1, <1>8
<1> HIDE DEF s
<1>10. Clean(s.rest) /\ Occurrences(s.rest, sep) = {}
  <2>1. Clean(s.rest) /\ s.rest \in Pieces
    BY <1>9 DEF CutBetweenWords, Clean
  <2>2. ~(s.rest.to - s.rest.from <= W - W)
    BY <2>1, <1>1, PieceEnds DEF Clean
  <2> QED  BY <2>1, <2>2, <1>9
<1>11. ASSUME NEW i \in 1..Len(ds) PROVE Clean(ds[i]) /\ Occurrences(ds[i], sep) = {}
  <2> DEFINE n == Len(s.parts)
  <2>1. s.parts \in Seq(Pieces) /\ ds = Append(s.parts, s.rest)
    BY <1>3, <1>9 DEF CutBetweenWords, CutStates, s
  <2>2. /\ Len(ds) = n + 1 /\ n \in Nat /\ ds[n + 1] = s.rest
        /\ \A j \in 1..n : ds[j] = s.parts[j]
    BY <2>1
  <2>3. CASE i = n + 1
    BY <2>2, <2>3, <1>10
  <2>4. CASE i \in 1..n
    BY <2>2, <2>4, <1>9 DEF CutBetweenWords
  <2> QED  BY <2>2, <2>3, <2>4
<1>12. Parts(ds, Len(sep))
  BY <1>3, <1>9 DEF CutBetweenWords, s
<1> QED  BY <1>11, <1>12
-----------------------------------------------------------------------------
(***************************************************************************)
(* splitText on clean pieces.                                              *)
(***************************************************************************)
FitParts(ds, width) ==
    Parts(ds, width) /\ \A i \in 1..Len(ds) : ds[i].to - ds[i].from <= size

TakenWell(s, width) == WellCut(s.final) /\ FitParts(s.docs, width)

LEMMA NothingFits == ASSUME NEW width PROVE FitParts(<< >>, width)
  BY DEF FitParts, Parts, Spaced

LEMMA AppendFitParts ==
    ASSUME NEW ds, NEW width, FitParts(ds, width), NEW p \in Pieces, p.from < p.to,
           p.to - p.from <= size, ds = << >> \/ p.from = ds[Len(ds)].to + width
    PROVE  FitParts(Append(ds, p), width)
<1> DEFINE es == Append(ds, p)
           n == Len(ds)
<1>1. Parts(es, width)
  BY AppendParts DEF FitParts
<1>2. ds \in Seq(Pieces)
  BY DEF FitParts, Parts
<1>3. /\ Len(es) = n + 1 /\ n \in Nat /\ es[n + 1] = p
      /\ \A i \in 1..n : es[i] = ds[i]
  BY <1>2
<1>4. n = Len(ds)
  OBVIOUS
<1> HIDE DEF es, n
<1>5. ASSUME NEW i \in 1..Len(es) PROVE es[i].to - es[i].from <= size
  <2>1. i = n + 1 \/ i \in 1..n
    BY <1>3
  <2>2. i \in 1..n => ds[i].to - ds[i].from <= size
    BY <1>4 DEF FitParts
  <2> QED  BY <2>1, <2>2, <1>3
<1>6. FitParts(es, width)
  BY <1>1, <1>5 DEF FitParts
<1> QED  BY <1>6 DEF es

LEMMA FlushWellCut ==
    ASSUME Parameters, NEW s \in TakeStates, NEW a, NEW d, Taken(s, a, d),
           NEW width \in 1..2, TakenWell(s, width)
    PROVE  WellCut(s.final \o Merge(s.docs, width))
<1> DEFINE es == Merge(s.docs, width)
<1>1. s.final \in Seq(Spans) /\ WellCut(s.final) /\ FitParts(s.docs, width)
  BY DEF TakeStates, TakenWell
<1>2. CASE s.docs = << >>
  <2>1. es = << >>
    BY <1>2, MergeNothing
  <2> HIDE DEF es
  <2>2. s.final \o es = s.final
    BY <2>1, <1>1
  <2> QED  BY <2>2, <1>1 DEF es
<1>3. CASE s.docs # << >>
  <2> DEFINE x == s.docs[1].from
  <2>1. Apart(s.docs, x, d) /\ EndsBefore(s.final, a, x)
    BY <1>3 DEF Taken
  <2>2. WellCut(es)
    BY <2>1, <1>1, MergeWellCut DEF FitParts
  <2>3. Cuts(es, x, d)
    BY <2>1, MergeCuts
  <2>4. es \in Seq(Pieces) /\ es # << >> /\ es[1].from = x
    BY <2>3 DEF Cuts, Reaches
  <2> HIDE DEF x, es
  <2>5. s.final = << >> \/ es[1].from >= s.final[Len(s.final)].to - overlap
    <3>1. SUFFICES ASSUME s.final # << >>
                   PROVE  es[1].from >= s.final[Len(s.final)].to - overlap
      OBVIOUS
    <3>2. PICK e : Cuts(s.final, a, e) /\ e < x
      BY <3>1, <2>1 DEF EndsBefore
    <3>3. s.final \in Seq(Pieces) /\ s.final[Len(s.final)].to = e
      BY <3>2 DEF Cuts, Reaches
    <3>4. s.final[Len(s.final)] \in Pieces /\ es[1] \in Pieces
      BY <3>1, <3>3, <2>4
    <3>5. e \in Int /\ x \in Int
      BY <3>3, <3>4, <2>4, PieceEnds
    <3> QED  BY <3>2, <3>3, <3>5, <2>4, ParametersAre
  <2>6. WellCut(s.final \o es)
    BY <2>2, <2>5, <1>1, ConcatWellCut
  <2> QED  BY <2>6 DEF es
<1> QED  BY <1>2, <1>3

LEMMA FirstPartWell ==
    ASSUME Parameters, NEW deeper, NEW part \in Pieces, NEW width \in 1..2,
           part.from < part.to, Width(part) > size => WellCut(deeper[part])
    PROVE  TakenWell(TakePart(NothingTaken, part, width, deeper), width)
<1> DEFINE r == TakePart(NothingTaken, part, width, deeper)
<1>1. CASE Width(part) > size
  <2> DEFINE q == Merge(<< >>, width)
             e == deeper[part]
  <2>1. r = [final |-> << >> \o q \o e, docs |-> << >>]
    BY <1>1 DEF TakePart, NothingTaken
  <2>2. q = << >>
    BY MergeNothing
  <2>3. WellCut(e)
    BY <1>1
  <2> HIDE DEF q, e, r
  <2>4. e \in Seq(Pieces)
    BY <2>3 DEF WellCut
  <2>5. << >> \o q \o e = e
    BY <2>2, <2>4
  <2>6. TakenWell(r, width)
    BY <2>1, <2>3, <2>5, NothingFits DEF TakenWell
  <2> QED  BY <2>6 DEF r
<1>2. CASE ~(Width(part) > size)
  <2>1. r = [NothingTaken EXCEPT !.docs = Append(@, part)]
    BY <1>2 DEF TakePart
  <2>2. r.final = << >> /\ r.docs = Append(<< >>, part)
    BY <2>1 DEF NothingTaken
  <2> HIDE DEF r
  <2>3. part.to - part.from <= size
    BY <1>2, ParametersAre, PieceEnds DEF Width
  <2>4. FitParts(Append(<< >>, part), width)
    BY <2>3, NothingFits, AppendFitParts
  <2>5. TakenWell(r, width)
    BY <2>2, <2>4, NothingWellCut DEF TakenWell
  <2> QED  BY <2>5 DEF r
<1> QED  BY <1>1, <1>2

LEMMA NextPartWell ==
    ASSUME Parameters, NEW deeper, CutsUp(deeper), NEW part \in Pieces, NEW width \in 1..2,
           NEW s \in TakeStates, NEW a, NEW d, Taken(s, a, d), TakenWell(s, width),
           part.from = d + width, part.from < part.to,
           Width(part) > size => WellCut(deeper[part])
    PROVE  TakenWell(TakePart(s, part, width, deeper), width)
<1> DEFINE r == TakePart(s, part, width, deeper)
<1>1. width \in Nat /\ width > 0
  OBVIOUS
<1>2. CASE Width(part) > size
  <2> DEFINE cs == s.final \o Merge(s.docs, width)
             es == deeper[part]
  <2>1. r = [final |-> cs \o es, docs |-> << >>]
    BY <1>2 DEF TakePart
  <2>2. Cuts(cs, a, d) /\ WellCut(cs)
    BY <1>1, FlushCuts, FlushWellCut
  <2>3. Cuts(es, part.from, part.to) /\ WellCut(es)
    BY <1>2 DEF CutsUp
  <2> HIDE DEF cs, es, r
  <2>4. cs \in Seq(Pieces) /\ cs # << >> /\ cs[Len(cs)].to = d /\ es[1].from = part.from
    BY <2>2, <2>3 DEF Cuts, Reaches
  <2>5. cs[Len(cs)] \in Pieces
    BY <2>4
  <2>6. d \in Int
    BY <2>4, <2>5, PieceEnds
  <2>7. es[1].from >= cs[Len(cs)].to - overlap
    BY <2>4, <2>6, <1>1, ParametersAre
  <2>8. WellCut(cs \o es)
    BY <2>2, <2>3, <2>7, ConcatWellCut
  <2>9. TakenWell(r, width)
    BY <2>1, <2>8, NothingFits DEF TakenWell
  <2> QED  BY <2>9 DEF r
<1>3. CASE ~(Width(part) > size)
  <2>1. r = [s EXCEPT !.docs = Append(@, part)]
    BY <1>3 DEF TakePart
  <2>2. r.final = s.final /\ r.docs = Append(s.docs, part)
    BY <2>1 DEF TakeStates
  <2> HIDE DEF r
  <2>3. part.to - part.from <= size
    BY <1>3, ParametersAre, PieceEnds DEF Width
  <2>4. s.docs = << >> \/ s.docs[Len(s.docs)].to = d
    BY DEF Taken, Apart, Reaches
  <2>5. FitParts(Append(s.docs, part), width)
    BY <2>3, <2>4, AppendFitParts DEF TakenWell
  <2>6. TakenWell(r, width)
    BY <2>2, <2>5 DEF TakenWell
  <2> QED  BY <2>6 DEF r
<1> QED  BY <1>2, <1>3

LEMMA TakePartsWellCut ==
    ASSUME Parameters, NEW deeper, CutsUp(deeper), NEW width \in 1..2,
           NEW parts, NEW a, NEW b, Apart(parts, a, b), Parts(parts, width),
           \A i \in 1..Len(parts) : Width(parts[i]) > size => WellCut(deeper[parts[i]])
    PROVE  WellCut(TakeParts(parts, width, deeper))
<1> DEFINE f == CHOOSE f : AreTakes(f, parts, width, deeper)
           N == Len(parts)
<1>1. /\ parts \in Seq(Pieces) /\ parts # << >> /\ parts[1].from = a
      /\ parts[N].to = b /\ width \in Nat
  BY DEF Apart, Reaches
<1>2. AreTakes(f, parts, width, deeper)
  BY <1>1, TakesExist
<1>3. TakeParts(parts, width, deeper) = f[N].final \o Merge(f[N].docs, width)
  BY Zenon DEF TakeParts, AreTakes
<1> HIDE DEF f
<1>4. N \in Nat /\ N > 0
  BY <1>1
<1>5. f[0] = NothingTaken
  BY <1>2, <1>4 DEF AreTakes, NothingTaken
<1>6. ASSUME NEW n \in 1..N PROVE f[n] = TakePart(f[n - 1], parts[n], width, deeper)
  <2>1. n \in 0..N /\ n # 0
    BY <1>4
  <2> QED  BY <2>1, <1>2 DEF AreTakes
<1> DEFINE T == {n \in 0..N :
                    /\ f[n] \in TakeStates
                    /\ n # 0 => Taken(f[n], a, parts[n].to) /\ TakenWell(f[n], width)}
<1>7. 0 \in T
  <2>1. NothingTaken \in TakeStates
    BY DEF NothingTaken, TakeStates
  <2> QED  BY <2>1, <1>4, <1>5
<1>8. ASSUME NEW n \in 1..N, n - 1 \in T PROVE n \in T
  <2> DEFINE part == parts[n]
  <2>1. part \in Pieces /\ n \in 0..N
    BY <1>1, <1>4
  <2>2. f[n] = TakePart(f[n - 1], part, width, deeper)
    BY <1>6
  <2>3. f[n - 1] \in TakeStates
    BY <1>8
  <2>4. f[n] \in TakeStates
    BY <2>1, <2>2, <2>3, <1>1, TakePartType
  <2>5. part.from < part.to /\ (Width(part) > size => WellCut(deeper[part]))
    BY DEF Parts
  <2>6. Taken(f[n], a, part.to) /\ TakenWell(f[n], width)
    <3>1. CASE n = 1
      <4> HIDE DEF N
      <4>1. Taken(f[n], a, part.to)
        BY <2>1, <2>2, <3>1, <1>1, <1>5, FirstPart
      <4> HIDE DEF part
      <4>2. f[n] = TakePart(NothingTaken, part, width, deeper)
        BY <2>2, <3>1, <1>5
      <4> QED  BY <2>1, <2>5, <4>1, <4>2, FirstPartWell
    <3>2. CASE n # 1
      <4> DEFINE d == parts[n - 1].to
      <4>1. n - 1 \in 1..N /\ n - 1 < n /\ n - 1 # 0 /\ n \in 2..N
        BY <3>2, <1>4
      <4>2. Taken(f[n - 1], a, d) /\ TakenWell(f[n - 1], width)
        BY <1>8, <4>1
      <4>3. d < part.from /\ NoLetter(d, part.from)
        BY <4>1 DEF Apart, Reaches
      <4>4. part.from = d + width
        BY <4>1 DEF Parts, Spaced
      <4> HIDE DEF N, d, part
      <4>5. Taken(f[n], a, part.to)
        BY <2>1, <2>2, <2>3, <4>2, <4>3, <1>1, NextPart
      <4> QED  BY <2>1, <2>2, <2>3, <2>5, <4>2, <4>4, <4>5, NextPartWell
    <3> QED  BY <3>1, <3>2
  <2> QED  BY <2>1, <2>4, <2>6
<1>9. \A n \in 0..N : n \in T
  <2> HIDE DEF T
  <2> QED  BY <1>4, <1>7, <1>8, Induction
<1>10. f[N] \in TakeStates /\ Taken(f[N], a, b) /\ TakenWell(f[N], width)
  BY <1>1, <1>4, <1>9
<1> QED  BY <1>3, <1>10, FlushWellCut

LEMMA WholePieceWellCut ==
    ASSUME Parameters, NEW p, Clean(p), Width(p) <= size
    PROVE  WellCut(<<p>>)
<1>1. p \in Pieces /\ p.from < p.to /\ Width(p) = p.to - p.from
  BY DEF Clean, Width
<1>2. Fits(p)
  BY <1>1, ParametersAre, PieceEnds DEF Fits
<1> QED  BY <1>1, <1>2, OneWellCut

LEMMA SplitAtWellCut ==
    ASSUME Parameters, NEW sep, IsSeparator(sep), Len(sep) \in 1..2,
           NEW deeper, CutsUp(deeper),
           \A q : Clean(q) /\ Occurrences(q, sep) = {} => WellCut(deeper[q]),
           NEW p, Clean(p), BetweenWords(p, sep)
    PROVE  WellCut(SplitAt(sep, deeper)[p])
<1>1. p \in Pieces
  BY DEF Clean
<1>2. SplitAt(sep, deeper)[p] =
        IF Width(p) <= size THEN <<p>>
        ELSE IF Occurrences(p, sep) = {} THEN deeper[p]
        ELSE TakeParts(Split(p, sep), Len(sep), deeper)
  BY <1>1 DEF SplitAt
<1>3. Width(p) <= size => WellCut(<<p>>)
  BY WholePieceWellCut
<1>4. Occurrences(p, sep) = {} => WellCut(deeper[p])
  OBVIOUS
<1>5. WellCut(TakeParts(Split(p, sep), Len(sep), deeper))
  <2> DEFINE parts == Split(p, sep)
  <2>1. Apart(parts, p.from, p.to)
    BY <1>1, SplitApart
  <2>2. /\ Parts(parts, Len(sep))
        /\ \A i \in 1..Len(parts) : Clean(parts[i]) /\ Occurrences(parts[i], sep) = {}
    BY SplitBetweenWords
  <2>3. \A i \in 1..Len(parts) : WellCut(deeper[parts[i]])
    BY <2>2
  <2> HIDE DEF parts
  <2> QED  BY <2>1, <2>2, <2>3, TakePartsWellCut DEF parts
<1> QED  BY <1>2, <1>3, <1>4, <1>5

LEMMA SplitAnywhereWellCut ==
    ASSUME Parameters, NEW p, Clean(p)
    PROVE  WellCut(SplitAnywhere[p])
<1> DEFINE ds == FixedSizeChunks(p)
<1>1. p \in Pieces /\ p.from < p.to
  BY DEF Clean
<1>2. SplitAnywhere[p] = IF Width(p) <= size THEN <<p>> ELSE ds
  BY <1>1 DEF SplitAnywhere
<1>3. /\ Cuts(ds, p.from, p.to)
      /\ \A i \in 1..Len(ds) : ds[i].from < ds[i].to /\ ds[i].to - ds[i].from <= size
      /\ \A i \in 2..Len(ds) : ds[i].from = ds[i - 1].to - overlap
  BY <1>1, FixedSizeCuts
<1> HIDE DEF ds
<1>4. ds \in Seq(Pieces)
  BY <1>3 DEF Cuts, Reaches
<1>5. ASSUME NEW i \in 1..Len(ds) PROVE Fits(ds[i])
  <2>1. ds[i] \in Pieces
    BY <1>4
  <2>2. ds[i].from < ds[i].to /\ ds[i].to - ds[i].from <= size
    BY <1>3
  <2> QED  BY <2>1, <2>2, ParametersAre, PieceEnds DEF Fits
<1>6. ASSUME NEW i \in 2..Len(ds) PROVE ds[i].from >= ds[i - 1].to - overlap
  <2>1. i - 1 \in 1..Len(ds)
    BY <1>4
  <2>2. ds[i - 1] \in Pieces
    BY <2>1, <1>4
  <2>3. ds[i].from = ds[i - 1].to - overlap
    BY <1>3
  <2> QED  BY <2>2, <2>3, ParametersAre, PieceEnds
<1>7. WellCut(ds)
  BY <1>4, <1>5, <1>6 DEF WellCut
<1> QED  BY <1>2, <1>7, WholePieceWellCut
-----------------------------------------------------------------------------
(***************************************************************************)
(* Tidy texts: every separator that splitText comes to is between words.   *)
(***************************************************************************)
LEMMA OccurrenceInside ==
    ASSUME Parameters, NEW p, Clean(p), NEW sep, IsSeparator(sep),
           NEW i \in Occurrences(p, sep)
    PROVE  /\ i \in Nat /\ p.from < i /\ i + Len(sep) < p.to /\ p.to <= Len(text)
           /\ p.from \in Nat /\ p.to \in Nat /\ Len(sep) \in Nat
           /\ \A k \in 1..Len(sep) : text[i + k] = sep[k]
<1> DEFINE w == Len(sep)
<1>1. p \in Pieces /\ Kind(p.from) = "letter" /\ Kind(p.to - 1) = "letter"
  BY DEF Clean
<1>2. /\ i \in Int /\ p.from <= i /\ i + w <= p.to /\ NoLetter(i, i + w)
  BY <1>1, OccurrenceIs
<1>3. w \in Nat /\ w > 0
  BY DEF IsSeparator
<1>4. p.from \in Nat /\ p.to \in Nat /\ p.to <= Len(text) /\ i \in Nat
  BY <1>1, <1>2, PieceEnds
<1>5. SubSeq(text, i + 1, i + w) = sep
  BY DEF Occurrences
<1> HIDE DEF w
<1>6. Kind(i) # "letter" /\ Kind((i + w) - 1) # "letter"
  <2>1. i \in i..(i + w - 1) /\ (i + w) - 1 \in i..(i + w - 1)
    BY <1>2, <1>3
  <2> QED  BY <2>1, <1>2 DEF NoLetter
<1>7. p.from < i /\ i + w < p.to
  <2>1. p.from # i /\ i + w # p.to
    BY <1>1, <1>6
  <2> QED  BY <2>1, <1>2, <1>3, <1>4
<1>8. ASSUME NEW k \in 1..w PROVE text[i + k] = sep[k]
  <2>1. text \in Seq({"letter", "space", "newline"}) /\ Len(text) \in Nat
    BY DEF Parameters
  <2>2. i + 1 \in 1..(Len(text) + 1) /\ i + w \in 0..Len(text)
    BY <2>1, <1>3, <1>4, <1>7
  <2>3. k \in 1..((i + w) - (i + 1) + 1)
    BY <1>3, <1>4
  <2>4. SubSeq(text, i + 1, i + w)[k] = text[(i + 1) + k - 1]
    BY <2>1, <2>2, <2>3, SubSeqProperties
  <2>5. (i + 1) + k - 1 = i + k
    BY <1>4
  <2> QED  BY <2>4, <2>5, <1>5
<1> QED  BY <1>3, <1>4, <1>7, <1>8 DEF w

(* Two line ends next to each other are a blank line.                      *)
LEMMA TwoLineEnds ==
    ASSUME Parameters, NEW p \in Pieces, NEW i \in Nat, p.from <= i, i + 2 <= p.to,
           text[i + 1] = "newline", text[i + 2] = "newline"
    PROVE  i \in Occurrences(p, BlankLine)
<1> DEFINE es == SubSeq(text, i + 1, i + 2)
<1>1. /\ p.from \in Int /\ p.to \in Int /\ p.to <= Len(text)
      /\ text \in Seq({"letter", "space", "newline"}) /\ Len(text) \in Nat
  BY PieceEnds DEF Parameters
<1>2. i + 1 \in 1..(Len(text) + 1) /\ i + 2 \in 0..Len(text)
  BY <1>1
<1>3. /\ es \in Seq({"letter", "space", "newline"}) /\ Len(es) = 2
      /\ es[1] = "newline" /\ es[2] = "newline"
  <2>1. /\ es \in Seq({"letter", "space", "newline"})
        /\ Len(es) = (i + 2) - (i + 1) + 1
        /\ \A k \in 1..((i + 2) - (i + 1) + 1) : es[k] = text[(i + 1) + k - 1]
    BY <1>1, <1>2, SubSeqProperties
  <2>2. /\ (i + 2) - (i + 1) + 1 = 2 /\ (i + 1) + 1 - 1 = i + 1 /\ (i + 1) + 2 - 1 = i + 2
        /\ 1 \in 1..2 /\ 2 \in 1..2
    OBVIOUS
  <2> HIDE DEF es
  <2> QED  BY <2>1, <2>2
<1>4. es = BlankLine
  <2> HIDE DEF es
  <2> QED  BY <1>3 DEF BlankLine
<1>5. Len(BlankLine) = 2
  BY DEF BlankLine
<1>6. i \in p.from..(p.to - 2)
  BY <1>1
<1> QED  BY <1>4, <1>5, <1>6 DEF Occurrences

(* Neighbours that are no letters are a blank line with a letter behind.   *)
LEMMA TidyNeighbours ==
    ASSUME Tidy, Parameters, NEW i \in Nat, i > 0, i < Len(text),
           text[i] # "letter", text[i + 1] # "letter"
    PROVE  text[i] = "newline" /\ text[i + 1] = "newline" /\ text[i + 2] = "letter"
<1>1. i + 1 \in 2..Len(text) /\ (i + 1) - 1 = i /\ (i + 1) + 1 = i + 2
  BY DEF Parameters
<1>2. /\ text[(i + 1) - 1] = "newline" /\ text[i + 1] = "newline"
      /\ text[(i + 1) + 1] = "letter"
  BY <1>1 DEF Tidy
<1> QED  BY <1>1, <1>2

LEMMA Neighbours ==
    ASSUME Parameters, NEW p, Clean(p), NEW sep, IsSeparator(sep),
           \A i \in Nat : i > 0 /\ i + Len(sep) < Len(text) /\ i \in Occurrences(p, sep)
               => text[i] = "letter" /\ text[i + Len(sep) + 1] = "letter"
    PROVE  BetweenWords(p, sep)
<1> SUFFICES ASSUME NEW i \in Occurrences(p, sep)
             PROVE  Kind(i - 1) = "letter" /\ Kind(i + Len(sep)) = "letter"
  BY DEF BetweenWords
<1>1. /\ i \in Nat /\ p.from < i /\ i + Len(sep) < p.to /\ p.to <= Len(text)
      /\ p.from \in Nat /\ p.to \in Nat /\ Len(sep) \in Nat
  BY OccurrenceInside
<1>2. i > 0 /\ i + Len(sep) < Len(text)
  BY <1>1 DEF Parameters
<1>3. text[i] = "letter" /\ text[i + Len(sep) + 1] = "letter"
  BY <1>1, <1>2
<1>4. (i - 1) + 1 = i
  BY <1>1
<1> QED  BY <1>3, <1>4 DEF Kind

LEMMA BlankLinesBetweenWords ==
    ASSUME Tidy, Parameters, NEW p, Clean(p)
    PROVE  BetweenWords(p, BlankLine)
<1>1. IsSeparator(BlankLine) /\ Len(BlankLine) = 2
  BY DEF IsSeparator, BlankLine
<1>2. ASSUME NEW i \in Nat, i > 0, i + 2 < Len(text), i \in Occurrences(p, BlankLine)
      PROVE  text[i] = "letter" /\ text[i + 2 + 1] = "letter"
  <2>1. text[i + 1] = "newline" /\ text[i + 2] = "newline"
    <3>1. \A k \in 1..Len(BlankLine) : text[i + k] = BlankLine[k]
      <4>1. IsSeparator(BlankLine) /\ i \in Occurrences(p, BlankLine)
        BY <1>1, <1>2
      <4> QED  BY <4>1, OccurrenceInside
    <3>2. 1 \in 1..Len(BlankLine) /\ 2 \in 1..Len(BlankLine)
      BY <1>1
    <3>3. text[i + 1] = BlankLine[1] /\ text[i + 2] = BlankLine[2]
      BY <3>1, <3>2
    <3> QED  BY <3>3 DEF BlankLine
  <2>2. text[i] = "letter"
    <3>1. i < Len(text)
      BY <1>2 DEF Parameters
    <3>2. text[i] # "letter" => text[i + 2] = "letter"
      BY <2>1, <3>1, <1>2, TidyNeighbours
    <3> QED  BY <2>1, <3>2
  <2>3. text[i + 2 + 1] = "letter"
    <3> DEFINE j == i + 1
    <3>1. j \in Nat /\ j > 0 /\ j < Len(text) /\ j + 1 = i + 2 /\ j + 2 = i + 2 + 1
      BY <1>2 DEF Parameters
    <3>2. text[j] # "letter" /\ text[j + 1] # "letter"
      BY <2>1, <3>1
    <3> HIDE DEF j
    <3>3. text[j + 2] = "letter"
      BY <3>1, <3>2, TidyNeighbours
    <3> QED  BY <3>1, <3>3
  <2> QED  BY <2>2, <2>3
<1> QED  BY <1>1, <1>2, Neighbours

LEMMA LineEndsBetweenWords ==
    ASSUME Tidy, Parameters, NEW p, Clean(p), Occurrences(p, BlankLine) = {}
    PROVE  BetweenWords(p, LineEnd)
<1>1. IsSeparator(LineEnd) /\ Len(LineEnd) = 1
  BY DEF IsSeparator, LineEnd
<1>2. ASSUME NEW i \in Nat, i > 0, i + 1 < Len(text), i \in Occurrences(p, LineEnd)
      PROVE  text[i] = "letter" /\ text[i + 1 + 1] = "letter"
  <2>1. /\ text[i + 1] = "newline" /\ p.from < i /\ i + 1 < p.to
        /\ p.from \in Nat /\ p.to \in Nat
    <3>1. /\ \A k \in 1..Len(LineEnd) : text[i + k] = LineEnd[k]
          /\ p.from < i /\ i + Len(LineEnd) < p.to /\ p.from \in Nat /\ p.to \in Nat
      <4>1. IsSeparator(LineEnd) /\ i \in Occurrences(p, LineEnd)
        BY <1>1, <1>2
      <4> QED  BY <4>1, OccurrenceInside
    <3>2. text[i + 1] = LineEnd[1]
      BY <1>1, <3>1
    <3> QED  BY <1>1, <3>1, <3>2 DEF LineEnd
  <2>2. p \in Pieces
    BY DEF Clean
  <2>3. text[i] = "letter"
    <3>1. SUFFICES ASSUME text[i] # "letter" PROVE FALSE
      OBVIOUS
    <3>2. i < Len(text)
      BY <1>2 DEF Parameters
    <3>3. text[i] = "newline"
      BY <2>1, <3>1, <3>2, <1>2, TidyNeighbours
    <3> DEFINE j == i - 1
    <3>4. j \in Nat /\ j + 1 = i /\ j + 2 = i + 1 /\ p.from <= j /\ j + 2 <= p.to
      BY <2>1, <1>2
    <3> HIDE DEF j
    <3>5. j \in Occurrences(p, BlankLine)
      BY <2>1, <2>2, <3>3, <3>4, TwoLineEnds
    <3> QED  BY <3>5
  <2>4. text[i + 1 + 1] = "letter"
    <3>1. SUFFICES ASSUME text[i + 1 + 1] # "letter" PROVE FALSE
      OBVIOUS
    <3> DEFINE j == i + 1
    <3>2. j \in Nat /\ j > 0 /\ j < Len(text) /\ text[j] # "letter" /\ text[j + 1] # "letter"
      BY <2>1, <3>1, <1>2 DEF Parameters
    <3> HIDE DEF j
    <3>3. text[j + 1] = "newline"
      BY <3>2, TidyNeighbours
    <3>4. text[i + 2] = "newline"
      <4>1. j + 1 = i + 2
        BY DEF j
      <4> QED  BY <4>1, <3>3
    <3>5. p.from <= i /\ i + 2 <= p.to
      BY <2>1, <1>2
    <3>6. i \in Occurrences(p, BlankLine)
      BY <2>1, <2>2, <3>4, <3>5, TwoLineEnds
    <3> QED  BY <3>6
  <2> QED  BY <2>3, <2>4
<1> QED  BY <1>1, <1>2, Neighbours

LEMMA SpacesBetweenWords ==
    ASSUME Tidy, Parameters, NEW p, Clean(p)
    PROVE  BetweenWords(p, Space)
<1>1. IsSeparator(Space) /\ Len(Space) = 1
  BY DEF IsSeparator, Space
<1>2. ASSUME NEW i \in Nat, i > 0, i + 1 < Len(text), i \in Occurrences(p, Space)
      PROVE  text[i] = "letter" /\ text[i + 1 + 1] = "letter"
  <2>1. text[i + 1] = "space"
    <3>1. \A k \in 1..Len(Space) : text[i + k] = Space[k]
      <4>1. IsSeparator(Space) /\ i \in Occurrences(p, Space)
        BY <1>1, <1>2
      <4> QED  BY <4>1, OccurrenceInside
    <3>2. text[i + 1] = Space[1]
      BY <1>1, <3>1
    <3> QED  BY <3>2 DEF Space
  <2>2. text[i] = "letter"
    <3>1. i < Len(text)
      BY <1>2 DEF Parameters
    <3> QED  BY <2>1, <3>1, <1>2, TidyNeighbours
  <2>3. text[i + 1 + 1] = "letter"
    <3> DEFINE j == i + 1
    <3>1. j \in Nat /\ j > 0 /\ j < Len(text) /\ text[j] = "space"
      BY <2>1, <1>2 DEF Parameters
    <3> HIDE DEF j
    <3>2. text[j + 1] = "letter"
      BY <3>1, TidyNeighbours
    <3> QED  BY <3>2 DEF j
  <2> QED  BY <2>2, <2>3
<1> QED  BY <1>1, <1>2, Neighbours

LEMMA SplitTextWellCut ==
    ASSUME Tidy, Parameters
    PROVE  WellCut(SplitText)
<1> DEFINE words == SplitAt(Space, SplitAnywhere)
           lines == SplitAt(LineEnd, words)
<1>1. /\ CutsUp(SplitAnywhere) /\ CutsUp(words) /\ CutsUp(lines)
  BY SeparatorsCutUp
<1>2. /\ IsSeparator(Space) /\ Len(Space) \in 1..2
      /\ IsSeparator(LineEnd) /\ Len(LineEnd) \in 1..2
      /\ IsSeparator(BlankLine) /\ Len(BlankLine) \in 1..2
  BY DEF IsSeparator, Space, LineEnd, BlankLine
<1>3. \A p : Clean(p) => WellCut(words[p])
  BY <1>1, <1>2, SpacesBetweenWords, SplitAnywhereWellCut, SplitAtWellCut
<1> HIDE DEF words
<1>4. \A p : Clean(p) /\ Occurrences(p, BlankLine) = {} => WellCut(lines[p])
  BY <1>1, <1>2, <1>3, LineEndsBetweenWords, SplitAtWellCut
<1> HIDE DEF lines
<1>5. \A p : Clean(p) => WellCut(SplitAt(BlankLine, lines)[p])
  BY <1>1, <1>2, <1>4, BlankLinesBetweenWords, SplitAtWellCut
<1>6. Clean(WholeText)
  <2>1. Len(text) \in Nat /\ Len(text) > 0 /\ text[1] = "letter" /\ text[Len(text)] = "letter"
    <3>1. text[1] \in {text[1], text[Len(text)]} /\ text[Len(text)] \in {text[1], text[Len(text)]}
      OBVIOUS
    <3>2. {text[1], text[Len(text)]} = {"letter"} /\ text # << >>
      BY DEF Tidy
    <3>3. text[1] = "letter" /\ text[Len(text)] = "letter"
      BY <3>1, <3>2
    <3> QED  BY <3>2, <3>3 DEF Parameters
  <2>2. 0 + 1 = 1 /\ (Len(text) - 1) + 1 = Len(text)
    BY <2>1
  <2> QED  BY <2>1, <2>2 DEF Clean, WholeText, Pieces, Kind
<1> QED  BY <1>5, <1>6 DEF SplitText, lines, words

(* What the recursive strategy returns of a tidy text is well cut.         *)
WellCutState ==
    strategy = "recursive" /\ Tidy /\ chunks # << >> =>
        \E ds : WellCut(ds) /\ chunks = OnePieceEach(ds)

LEMMA NextWellCut ==
    ASSUME WellCutState, WellFormed, [Next]_vars
    PROVE  WellCutState'
<1>1. CASE UNCHANGED vars
  <2>1. /\ strategy' = strategy /\ text' = text /\ size' = size /\ overlap' = overlap
        /\ chunks' = chunks
    BY <1>1 DEF vars, callVars
  <2> QED  BY <2>1 DEF WellCutState, WellCut, Pieces, Fits, Tidy
<1>2. CASE strategy = "recursive" /\ RecursiveChunk
  <2>1. /\ strategy' = strategy /\ text' = text /\ size' = size /\ overlap' = overlap
        /\ chunks' = OnePieceEach(SplitText)
    BY <1>2 DEF RecursiveChunk, callVars
  <2>2. Parameters
    BY <1>2, CallParameters DEF WellFormed
  <2>3. Tidy => WellCut(SplitText)
    BY <2>2, SplitTextWellCut
  <2>4. Tidy' = Tidy
    BY <2>1 DEF Tidy
  <2>5. ASSUME NEW ds PROVE WellCut(ds)' <=> WellCut(ds)
    BY <2>1 DEF WellCut, Pieces, Fits
  <2> DEFINE ds == SplitText
  <2>6. chunks' = OnePieceEach(ds) /\ (Tidy => WellCut(ds))
    BY <2>1, <2>3
  <2> HIDE DEF ds
  <2> QED  BY <2>4, <2>5, <2>6 DEF WellCutState
<1>3. CASE strategy # "recursive" /\ strategy' = strategy
  BY <1>3 DEF WellCutState
<1>4. Next => (strategy = "recursive" /\ RecursiveChunk)
              \/ (strategy # "recursive" /\ strategy' = strategy)
  BY DEF Next, FixedSizeChunk, SentenceChunk, FindSentence, ReturnText, Group, Finish,
         callVars
<1> QED  BY <1>1, <1>2, <1>3, <1>4

LEMMA AlwaysWellCut == Spec => []WellCutState
<1>1. Init => WellCutState
  BY DEF Init, Call, WellCutState
<1> QED  BY <1>1, NextWellCut, AlwaysWellFormed, PTL DEF Spec

(* Of a tidy text no chunk of the recursive strategy is empty, neighbours  *)
(* share no more than the overlap, and without an overlap no chunk exceeds *)
(* the size: currentLen of mergeDocs is the length of the block.           *)
THEOREM TidyTextsAreWellCut == Spec => []TidyTextIsWellCut
<1>1. WellFormed /\ WellCutState => TidyTextIsWellCut
  <2> SUFFICES ASSUME WellFormed, WellCutState, strategy = "recursive", Tidy
               PROVE  /\ \A c \in Range(chunks) :
                            ChunkLength(c) > 0 /\ (overlap = 0 => ChunkLength(c) <= size)
                      /\ \A i \in 1..(Len(chunks) - 1) : From(i + 1) >= To(i) - overlap
    BY DEF TidyTextIsWellCut
  <2>1. CASE chunks = << >>
    <3>1. Range(chunks) = {} /\ Len(chunks) = 0
      BY <2>1 DEF Range
    <3> QED  BY <3>1
  <2>2. CASE chunks # << >>
    <3>1. PICK ds : WellCut(ds) /\ chunks = OnePieceEach(ds)
      BY <2>2 DEF WellCutState
    <3>2. ds \in Seq(Pieces)
      BY <3>1 DEF WellCut
    <3>3. /\ Len(chunks) = Len(ds) /\ \A i \in 1..Len(ds) : chunks[i] = <<ds[i]>>
          /\ DOMAIN chunks = 1..Len(ds) /\ Len(ds) \in Nat
      <4>1. /\ chunks \in Seq(Seq(Pieces) \ {<< >>}) /\ Len(chunks) = Len(ds)
            /\ \A i \in 1..Len(ds) : chunks[i] = <<ds[i]>>
        BY <3>1, <3>2, OnePieceEachType
      <4> QED  BY <4>1
    <3>4. ASSUME NEW c \in Range(chunks)
          PROVE  ChunkLength(c) > 0 /\ (overlap = 0 => ChunkLength(c) <= size)
      <4>1. PICK i \in 1..Len(ds) : c = <<ds[i]>>
        BY <3>3 DEF Range
      <4>2. ds[i] \in Pieces /\ Fits(ds[i])
        BY <3>1, <3>2 DEF WellCut
      <4>3. ChunkLength(c) = ds[i].to - ds[i].from
        <5>1. << >> \in Seq(Pieces)
          OBVIOUS
        <5> QED  BY <5>1, <4>1, <4>2, ChunkLengthGrows DEF Width
      <4> QED  BY <4>2, <4>3, PieceEnds DEF Fits
    <3>5. ASSUME NEW i \in 1..(Len(chunks) - 1) PROVE From(i + 1) >= To(i) - overlap
      <4>1. i \in 1..Len(ds) /\ i + 1 \in 1..Len(ds) /\ i + 1 \in 2..Len(ds) /\ (i + 1) - 1 = i
        BY <3>3
      <4>2. chunks[i] = <<ds[i]>> /\ chunks[i + 1] = <<ds[i + 1]>>
        BY <3>3, <4>1
      <4>3. \A p : Len(<<p>>) = 1 /\ <<p>>[1] = p
        OBVIOUS
      <4>4. From(i + 1) = ds[i + 1].from /\ To(i) = ds[i].to
        BY <4>2, <4>3 DEF From, To, Last
      <4>5. ds[i + 1].from >= ds[(i + 1) - 1].to - overlap
        BY <3>1, <4>1 DEF WellCut
      <4> QED  BY <4>1, <4>4, <4>5
    <3> QED  BY <3>4, <3>5
  <2> QED  BY <2>1, <2>2
<1> QED  BY <1>1, AlwaysWellFormed, AlwaysWellCut, PTL
=============================================================================
