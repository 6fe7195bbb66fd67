----------------------- MODULE FixedSizeChunkerProofs -----------------------
(***************************************************************************)
(* Proofs about FixedSizeChunker, for texts of any length and any size and *)
(* overlap a client may ask for.                                           *)
(***************************************************************************)
EXTENDS FixedSizeChunker, TLAPS

(* The bytes still to be cut: the next chunk starts at 0, or "overlap"     *)
(* bytes before the end of a full chunk that does not reach the end.       *)
LoopInv ==
    /\ textLen <= MaxLength
    /\ ~done => start < textLen \/ textLen = 0
    /\ textLen = 0 => chunks = << >>
    /\ chunks = << >> => start = 0
    /\ ~done /\ chunks # << >> =>
           LET last == chunks[Len(chunks)]
           IN  last.to - last.from = size /\ last.to < textLen /\ start = last.to - overlap

(* Every chunk starts size - overlap bytes behind the one before; there    *)
(* are no more turns than bytes.                                           *)
Regular ==
    /\ \A i \in DOMAIN chunks : chunks[i].from = (i - 1) * (size - overlap)
    /\ ~done => start = Len(chunks) * (size - overlap) /\ Len(chunks) <= start

Inv == TypeOK /\ ChunksOverlap /\ CoversText /\ EveryChunkIsNew /\ LoopInv /\ Regular

(* Whatever is asked for, a chunk moves the loop on by at least a byte.    *)
LEMMA ParametersUsable ==
    ASSUME NEW s \in Int, NEW o \in Int
    PROVE  /\ EffectiveSize(s) \in Nat \ {0}
           /\ EffectiveOverlap(EffectiveSize(s), o) \in 0..(EffectiveSize(s) - 1)
<1>1. EffectiveSize(s) \in Nat \ {0}
  BY DEF EffectiveSize, DefaultSize
<1>2. ASSUME NEW e \in Nat \ {0} PROVE EffectiveOverlap(e, o) \in 0..(e - 1)
  BY DEF EffectiveOverlap
<1> QED  BY <1>1, <1>2

LEMMA InitInv == Init => Inv
<1> SUFFICES ASSUME Init PROVE Inv
  OBVIOUS
<1>1. textLen \in 0..MaxLength /\ textLen \in Nat /\ start = 0 /\ chunks = << >> /\ ~done
  BY LoopAssumption DEF Init
<1>2. size \in Nat \ {0} /\ overlap \in 0..(size - 1)
  BY ParametersUsable, LoopAssumption DEF Init
<1>3. << >> \in Seq([from : 0..textLen, to : 0..textLen]) /\ Len(<< >>) = 0
  OBVIOUS
<1>4. TypeOK
  <2>1. done \in BOOLEAN
    BY DEF Init
  <2> QED  BY <1>1, <1>2, <1>3, <2>1 DEF TypeOK
<1>5. DOMAIN chunks = {}
  BY <1>1
<1>6. ChunksOverlap /\ EveryChunkIsNew
  BY <1>5 DEF ChunksOverlap, EveryChunkIsNew
<1>7. CoversText /\ LoopInv
  BY <1>1 DEF CoversText, LoopInv
<1>8. Regular
  <2>1. 0 * (size - overlap) = 0
    BY <1>2
  <2> QED  BY <1>1, <1>3, <1>5, <2>1 DEF Regular
<1> QED  BY <1>4, <1>6, <1>7, <1>8 DEF Inv

LEMMA ReturnNoneInv ==
    ASSUME Inv, ReturnNone
    PROVE  Inv'
<1>1. textLen = 0 /\ done' = TRUE /\ UNCHANGED <<textLen, size, overlap, start, chunks>>
  BY DEF ReturnNone
<1>2. chunks = << >>
  BY <1>1 DEF Inv, LoopInv
<1>3. CoversText'
  BY <1>1, <1>2 DEF CoversText
<1> QED  BY <1>1, <1>3 DEF Inv, TypeOK, ChunksOverlap, EveryChunkIsNew, LoopInv, Regular

(* What one turn of the loop does, in numbers.                             *)
LEMMA CutArithmetic ==
    ASSUME Inv, Cut
    PROVE  /\ End \in Nat /\ start < End /\ End <= textLen /\ End - start \in 1..size
           /\ End # textLen => End - start = size /\ ~done' /\ start' = End - overlap
           /\ End = textLen => done' /\ start' = start
           /\ ~done' => start' < textLen /\ start' > start
           /\ start' \in 0..textLen
<1>1. /\ textLen \in Nat /\ size \in Nat \ {0} /\ overlap \in 0..(size - 1)
      /\ start \in 0..textLen /\ start < textLen
  BY DEF Inv, TypeOK, LoopInv, Cut
<1>2. End \in Nat /\ start < End /\ End <= textLen /\ End - start \in 1..size
  BY <1>1 DEF End
<1>3. End # textLen => End - start = size
  BY <1>1 DEF End
<1>4. CASE End = textLen
  BY <1>1, <1>2, <1>4 DEF Cut, Breaks
<1>5. CASE End # textLen
  <2>1. start' = End - overlap /\ done' = (FALSE \/ start' >= textLen)
    BY <1>5 DEF Cut, Breaks, NextStart
  <2>2. start' < textLen /\ start' > start /\ start' \in 0..textLen
    BY <1>1, <1>2, <1>3, <1>5, <2>1
  <2>3. ~(start' >= textLen)
    BY <1>1, <2>2
  <2>4. ~done'
    BY <2>1, <2>3, Zenon
  <2> QED  BY <1>2, <1>3, <1>5, <2>1, <2>2, <2>4
<1> QED  BY <1>4, <1>5

LEMMA CutInv ==
    ASSUME Inv, Cut
    PROVE  Inv'
<1> DEFINE new == [from |-> start, to |-> End]
<1> DEFINE n == Len(chunks)
<1>1. /\ textLen \in Nat /\ size \in Nat \ {0} /\ overlap \in 0..(size - 1)
      /\ start \in 0..textLen /\ start < textLen /\ ~done
      /\ chunks \in Seq([from : 0..textLen, to : 0..textLen])
  BY DEF Inv, TypeOK, Cut
<1>2. UNCHANGED <<textLen, size, overlap>> /\ chunks' = Append(chunks, new)
  BY DEF Cut
<1>3. new \in [from : 0..textLen, to : 0..textLen]
  BY <1>1, CutArithmetic
<1>4. n \in Nat /\ DOMAIN chunks = 1..n
  BY <1>1
<1>5. /\ Len(chunks') = n + 1 /\ DOMAIN chunks' = 1..(n + 1) /\ chunks' # << >>
      /\ chunks'[n + 1].from = start /\ chunks'[n + 1].to = End
      /\ \A i \in 1..n : chunks'[i] = chunks[i]
  BY <1>1, <1>2, <1>3
<1>6. TypeOK'
  <2>1. chunks' \in Seq([from : 0..textLen, to : 0..textLen])
    BY <1>1, <1>2, <1>3
  <2>2. done' \in BOOLEAN
    BY DEF Cut
  <2> QED  BY <1>1, <1>2, <2>1, <2>2, CutArithmetic DEF TypeOK
<1>7. n = 0 => start = 0
  BY <1>1 DEF Inv, LoopInv
<1>8. ASSUME n > 0
      PROVE  /\ chunks[n].to - chunks[n].from = size
             /\ chunks[n].to < textLen
             /\ start = chunks[n].to - overlap
             /\ chunks[n].to \in Nat
  <2>1. chunks # << >> /\ n \in 1..n
    BY <1>4, <1>8
  <2>2. chunks[n] \in [from : 0..textLen, to : 0..textLen]
    <3>1. ASSUME NEW T, NEW s \in Seq(T), NEW i \in 1..Len(s) PROVE s[i] \in T
      OBVIOUS
    <3> QED  BY <1>1, <2>1, <3>1
  <2>3. chunks[n].to \in Nat
    BY <1>1, <2>2
  <2> QED  BY <1>1, <2>1, <2>3 DEF Inv, LoopInv
<1>9. ChunksOverlap'
  <2> SUFFICES ASSUME NEW i \in 1..(n + 1)
               PROVE  /\ i = 1 => chunks'[i].from = 0
                      /\ chunks'[i].to - chunks'[i].from \in 1..size
                      /\ i < n + 1 =>
                            /\ chunks'[i].to - chunks'[i].from = size
                            /\ chunks'[i + 1].from = chunks'[i].to - overlap
    BY <1>2, <1>5 DEF ChunksOverlap
  <2> HIDE DEF n
  <2>1. CASE i = n + 1
    BY <2>1, <1>1, <1>4, <1>5, <1>7, CutArithmetic
  <2>2. ASSUME i \in 1..n
        PROVE  /\ chunks'[i] = chunks[i]
               /\ i = 1 => chunks[i].from = 0
               /\ chunks[i].to - chunks[i].from \in 1..size
    BY <2>2, <1>4, <1>5 DEF Inv, ChunksOverlap
  <2>3. CASE i = n
    <3>1. i \in 1..n /\ n > 0
      BY <2>3, <1>4
    <3> QED  BY <2>2, <2>3, <3>1, <1>4, <1>5, <1>8
  <2>4. CASE i < n
    <3>1. i \in 1..n /\ i + 1 \in 1..n
      BY <2>4, <1>4
    <3>2. /\ chunks[i].to - chunks[i].from = size
          /\ chunks[i + 1].from = chunks[i].to - overlap
      BY <2>4, <3>1, <1>4 DEF Inv, ChunksOverlap, n
    <3> QED  BY <2>2, <3>1, <3>2, <1>4, <1>5
  <2> QED  BY <1>4, <2>1, <2>3, <2>4
<1>10. CoversText'
  <2>1. done' => End = textLen
    BY CutArithmetic
  <2>2. textLen # 0
    BY <1>1
  <2> QED  BY <1>2, <1>5, <2>1, <2>2 DEF CoversText
<1>11. EveryChunkIsNew'
  <2> SUFFICES ASSUME NEW i \in 1..(n + 1), i > 1
               PROVE  chunks'[i].to > chunks'[i - 1].to
    BY <1>5 DEF EveryChunkIsNew
  <2> HIDE DEF n
  <2>1. CASE i = n + 1
    <3>1. n > 0 /\ n \in 1..n
      BY <2>1, <1>4
    <3>2. End > chunks[n].to
      <4>1. /\ start = chunks[n].to - overlap /\ chunks[n].to < textLen
            /\ chunks[n].to \in Nat
        BY <3>1, <1>8
      <4>2. start + size > chunks[n].to
        <5>1. ASSUME NEW t \in Nat, NEW o \in 0..(size - 1), start = t - o
              PROVE  start + size > t
          BY <1>1, <5>1
        <5> QED  BY <1>1, <4>1, <5>1
      <4> QED  BY <4>1, <4>2 DEF End
    <3> QED  BY <2>1, <3>1, <3>2, <1>4, <1>5
  <2>2. CASE i \in 1..n
    <3>1. i - 1 \in 1..n
      BY <2>2, <1>4
    <3> QED  BY <2>2, <3>1, <1>4, <1>5 DEF Inv, EveryChunkIsNew
  <2> QED  BY <1>4, <2>1, <2>2
<1>12. LoopInv'
  <2>1. ASSUME ~done'
        PROVE  End - start = size /\ End < textLen /\ start' = End - overlap /\ start' < textLen
    BY <1>1, <2>1, CutArithmetic
  <2>2. textLen' = textLen /\ textLen <= MaxLength /\ textLen # 0
    BY <1>1, <1>2 DEF Inv, LoopInv
  <2> HIDE DEF n
  <2> QED  BY <1>2, <1>5, <2>1, <2>2 DEF LoopInv
<1>13. Regular'
  <2> DEFINE advance == size - overlap
  <2>1. start = n * advance /\ n <= start /\ \A i \in 1..n : chunks[i].from = (i - 1) * advance
    BY <1>1, <1>4 DEF Inv, Regular
  <2>2. advance \in Nat \ {0}
    BY <1>1
  <2>3. (n + 1) * advance = start + advance
    <3>1. ASSUME NEW k \in Nat, NEW a \in Nat PROVE (k + 1) * a = k * a + a
      OBVIOUS
    <3> HIDE DEF n, advance
    <3> QED  BY <1>4, <2>1, <2>2, <3>1
  <2>4. ASSUME ~done' PROVE start' = start + advance
    <3>1. End \in Nat /\ End # textLen
      BY <2>4, CutArithmetic
    <3>2. End - start = size /\ start' = End - overlap
      BY <3>1, CutArithmetic
    <3> QED  BY <1>1, <3>1, <3>2
  <2> HIDE DEF n
  <2>5. \A i \in 1..(n + 1) : chunks'[i].from = (i - 1) * advance
    BY <1>4, <1>5, <2>1
  <2>6. advance' = advance
    BY <1>2
  <2> HIDE DEF advance
  <2>7. ~done' => start' = (n + 1) * advance /\ n + 1 <= start'
    <3>1. n + 1 <= start + advance
      <4>1. ASSUME NEW k \in Nat, NEW s \in Nat, k <= s, NEW a \in Nat \ {0}
            PROVE  k + 1 <= s + a
        BY <4>1
      <4>2. start \in Nat
        BY <1>1
      <4> QED  BY <1>4, <2>1, <2>2, <4>1, <4>2
    <3> QED  BY <2>3, <2>4, <3>1
  <2>8. /\ \A i \in DOMAIN chunks' : chunks'[i].from = (i - 1) * advance
        /\ ~done' => start' = Len(chunks') * advance /\ Len(chunks') <= start'
    BY <1>5, <2>5, <2>7
  <2> QED  BY <1>2, <2>8 DEF Regular, advance
<1> QED  BY <1>6, <1>9, <1>10, <1>11, <1>12, <1>13 DEF Inv

LEMMA NextInv == Inv /\ [Next]_vars => Inv'
<1>1. Inv /\ Cut => Inv'
  BY CutInv
<1>2. Inv /\ ReturnNone => Inv'
  BY ReturnNoneInv
<1>3. Inv /\ UNCHANGED vars => Inv'
  BY DEF vars, Inv, TypeOK, ChunksOverlap, CoversText, EveryChunkIsNew, LoopInv, Regular
<1> QED  BY <1>1, <1>2, <1>3 DEF Next

LEMMA SpecInv == Spec => []Inv
  BY InitInv, NextInv, PTL DEF Spec
-----------------------------------------------------------------------------
(* Chunks are intervals of the text and the parameters are usable.         *)
THEOREM TypeCorrect == Spec => []TypeOK
  BY SpecInv, PTL DEF Inv

(* Chunks overlap by exactly what was asked for and skip nothing.          *)
THEOREM ChunksAlwaysOverlap == Spec => []ChunksOverlap
  BY SpecInv, PTL DEF Inv

(* The chunks of a loop that has ended reach the end of the text.          *)
THEOREM TextIsCovered == Spec => []CoversText
  BY SpecInv, PTL DEF Inv

(* No chunk is a mere repetition of bytes of the one before.               *)
THEOREM ChunksAreNew == Spec => []EveryChunkIsNew
  BY SpecInv, PTL DEF Inv

(* Each turn of the loop ends it or cuts at a later byte than before.      *)
THEOREM CutsAdvance == Spec => EveryCutAdvances
<1>1. Inv /\ [Next]_vars => [done' \/ start' > start]_vars
  BY CutArithmetic DEF Next, ReturnNone
<1> QED  BY <1>1, SpecInv, PTL DEF Spec, EveryCutAdvances
-----------------------------------------------------------------------------
(***************************************************************************)
(* The loop against the one step of Chunkers.  While the loop runs nothing *)
(* is seen of it.  When it ends, its chunks start where those of           *)
(* FixedSizeChunks do, by Regular; each but the last ends before the text  *)
(* does, so that the last one is the first that can reach the end.         *)
(***************************************************************************)
LEMMA LastCut ==
    ASSUME Inv, Cut, done'
    PROVE  chunks' = Strategy!FixedSizeChunks([from |-> 0, to |-> textLen])
<1> DEFINE whole == [from |-> 0, to |-> textLen]
           n == Len(chunks')
           Start(i) == 0 + (i - 1) * (size - overlap)
           ends == {i \in 1..(textLen - 0 + 1) : Strategy!ReachesEnd(Start(i), whole)}
<1>1. Inv'
  BY CutInv
<1>2. /\ UNCHANGED <<textLen, size, overlap>> /\ textLen \in Nat /\ size \in Nat \ {0}
      /\ overlap \in 0..(size - 1) /\ start \in Nat /\ start < textLen
  BY DEF Cut, Inv, TypeOK
<1>3. chunks \in Seq([from : 0..textLen, to : 0..textLen])
  BY DEF Inv, TypeOK
<1>4. /\ n = Len(chunks) + 1 /\ chunks'[n] = [from |-> start, to |-> End]
      /\ Len(chunks) \in Nat /\ DOMAIN chunks' = 1..n
      /\ chunks' \in Seq([from : 0..textLen, to : 0..textLen])
  <2>1. chunks' = Append(chunks, [from |-> start, to |-> End])
    BY DEF Cut
  <2>2. chunks' \in Seq([from : 0..textLen, to : 0..textLen])
    BY <1>1, <1>2 DEF Inv, TypeOK
  <2> QED  BY <1>3, <2>1, <2>2
<1>5. End = textLen
  BY CutArithmetic
<1>6. Len(chunks) <= start /\ \A i \in 1..n : chunks'[i].from = Start(i)
  <2>1. Len(chunks) <= start
    BY DEF Inv, Regular, Cut
  <2>2. ASSUME NEW i \in 1..n PROVE chunks'[i].from = (i - 1) * (size - overlap)
    BY <1>1, <1>2, <1>4 DEF Inv, Regular
  <2>3. ASSUME NEW i \in 1..n PROVE (i - 1) * (size - overlap) = Start(i)
    <3>1. ASSUME NEW j \in Int, NEW a \in Int PROVE j * a = 0 + j * a
      OBVIOUS
    <3> QED  BY <1>2, <1>4, <3>1
  <2> HIDE DEF n, Start
  <2> QED  BY <2>1, <2>2, <2>3
<1>7. \A i \in 1..n : chunks'[i] \in [from : 0..textLen, to : 0..textLen]
  <2>1. ASSUME NEW T, NEW s \in Seq(T), NEW i \in 1..Len(s) PROVE s[i] \in T
    OBVIOUS
  <2> QED  BY <1>4, <2>1
<1> HIDE DEF n, Start
<1>8. ASSUME NEW i \in 1..(n - 1)
      PROVE  chunks'[i].to = Start(i) + size /\ chunks'[i].to < textLen
  <2>1. i \in 1..n /\ i + 1 \in 1..n /\ i < n /\ i + 1 > 1
    BY <1>4
  <2>2. chunks'[i].to - chunks'[i].from = size
    BY <1>1, <1>2, <1>4, <2>1 DEF Inv, ChunksOverlap, n
  <2>3. chunks'[i + 1].to > chunks'[i].to
    <3>1. chunks'[i + 1].to > chunks'[(i + 1) - 1].to
      BY <1>1, <1>4, <2>1 DEF Inv, EveryChunkIsNew
    <3> QED  BY <2>1, <3>1
  <2>4. /\ chunks'[i].from \in Nat /\ chunks'[i].to \in Nat
        /\ chunks'[i + 1].to \in Nat /\ chunks'[i + 1].to <= textLen
    BY <1>2, <1>7, <2>1
  <2>5. chunks'[i].from = Start(i)
    BY <1>6, <2>1
  <2> QED  BY <1>2, <2>2, <2>3, <2>4, <2>5
<1>9. n \in 1..n /\ Start(n) = start /\ n \in 1..(textLen + 1)
  <2>1. n \in 1..n
    BY <1>4
  <2> QED  BY <1>2, <1>4, <1>6, <2>1
<1>10. n \in ends
  <2>1. start + size >= textLen
    BY <1>2, <1>5 DEF End
  <2> QED  BY <1>2, <1>9, <2>1 DEF Strategy!ReachesEnd
<1>11. \A i \in ends : n <= i
  <2> SUFFICES ASSUME NEW i \in ends, ~(n <= i) PROVE FALSE
    OBVIOUS
  <2>1. i \in 1..(n - 1) /\ i \in 1..n
    BY <1>4
  <2>2. Start(i) + size < textLen
    BY <1>8, <2>1
  <2>3. Start(i) \in Int
    <3>1. Start(i) = chunks'[i].from /\ chunks'[i].from \in Nat
      BY <1>2, <1>6, <1>7, <2>1
    <3> QED  BY <3>1
  <2>4. Start(i) + size >= textLen
    BY DEF Strategy!ReachesEnd
  <2> QED  BY <1>2, <2>2, <2>3, <2>4
<1>12. Strategy!Min(ends) = n
  <2> HIDE DEF ends
  <2>1. ends \subseteq Int
    BY DEF ends
  <2>2. \E x \in ends : \A y \in ends : x <= y
    BY <1>10, <1>11
  <2>3. Strategy!Min(ends) \in ends /\ \A y \in ends : Strategy!Min(ends) <= y
    BY <2>2, Zenon DEF Strategy!Min
  <2>4. Strategy!Min(ends) <= n /\ n <= Strategy!Min(ends) /\ Strategy!Min(ends) \in Int
    BY <1>10, <1>11, <2>1, <2>3
  <2> QED  BY <1>4, <2>4
<1>13. \A i \in 1..n :
          chunks'[i] = [from |-> Start(i), to |-> IF i = n THEN textLen ELSE Start(i) + size]
  <2> SUFFICES ASSUME NEW i \in 1..n
               PROVE  chunks'[i] = [from |-> Start(i),
                                    to |-> IF i = n THEN textLen ELSE Start(i) + size]
    OBVIOUS
  <2>1. CASE i = n
    BY <1>4, <1>5, <1>9, <2>1
  <2>2. CASE i # n
    <3>1. i \in 1..(n - 1)
      BY <1>4, <2>2
    <3>2. chunks'[i].from = Start(i) /\ chunks'[i].to = Start(i) + size
      BY <1>6, <1>8, <3>1
    <3>3. chunks'[i] = [from |-> chunks'[i].from, to |-> chunks'[i].to]
      BY <1>7
    <3> QED  BY <2>2, <3>2, <3>3
  <2> QED  BY <2>1, <2>2
<1>14. chunks' = [i \in 1..n |-> [from |-> Start(i),
                                  to |-> IF i = n THEN textLen ELSE Start(i) + size]]
  <2>1. chunks' = [i \in 1..n |-> chunks'[i]]
    BY <1>4
  <2> QED  BY <1>13, <2>1
<1>15. Strategy!FixedSizeChunks(whole)
          = [i \in 1..Strategy!Min(ends) |->
               [from |-> Start(i),
                to |-> IF i = Strategy!Min(ends) THEN textLen ELSE Start(i) + size]]
  BY DEF Strategy!FixedSizeChunks, Strategy!Width, Start
<1> QED  BY <1>12, <1>14, <1>15


LEMMA CutIsStep ==
    ASSUME Inv, Cut
    PROVE  [Strategy!Next]_(Strategy!vars)
<1> DEFINE text == [i \in 1..textLen |-> "letter"]
<1>1. /\ UNCHANGED <<textLen, size, overlap>> /\ ~done /\ done \in BOOLEAN
      /\ done' \in BOOLEAN /\ textLen \in Nat /\ textLen # 0
  <2>1. done' \in BOOLEAN
    BY CutInv DEF Inv, TypeOK
  <2> QED  BY <2>1 DEF Cut, Inv, TypeOK
<1>2. text' = text
  BY <1>1
<1>3. CASE ~done'
  <2> DEFINE returned == IF done THEN [i \in DOMAIN chunks |-> <<chunks[i]>>] ELSE << >>
  <2>1. returned = << >> /\ returned' = << >> /\ done' = done
    BY <1>1, <1>3
  <2>2. Strategy!vars = <<"fixed", text, size, overlap, returned, done, <<0, << >>, 0, << >>>> >>
    BY DEF Strategy!vars, Strategy!sentenceVars
  <2>3. Strategy!vars' = <<"fixed", text', size', overlap', returned', done', <<0, << >>, 0, << >>>> >>
    BY DEF Strategy!vars, Strategy!sentenceVars
  <2> HIDE DEF returned, text
  <2>4. Strategy!vars' = Strategy!vars
    BY <1>1, <1>2, <2>1, <2>2, <2>3
  <2> QED  BY <2>4
<1>4. CASE done'
  <2>1. Len(text) = textLen /\ text # << >>
    BY <1>1
  <2>2. Strategy!WholeText = [from |-> 0, to |-> textLen]
    BY <2>1 DEF Strategy!WholeText
  <2>3. chunks' = Strategy!FixedSizeChunks(Strategy!WholeText)
    BY <1>4, <2>2, LastCut
  <2>4. [i \in DOMAIN chunks' |-> <<chunks'[i]>>]
            = Strategy!OnePieceEach(Strategy!FixedSizeChunks(Strategy!WholeText))
    BY <2>3 DEF Strategy!OnePieceEach
  <2>5. Strategy!FixedSizeChunk
    BY <1>1, <1>2, <1>4, <2>1, <2>4 DEF Strategy!FixedSizeChunk, Strategy!callVars
  <2> QED  BY <2>5 DEF Strategy!Next, Strategy!sentenceVars
<1> QED  BY <1>1, <1>3, <1>4

LEMMA ReturnNoneIsStep ==
    ASSUME Inv, ReturnNone
    PROVE  Strategy!Next
<1>1. /\ UNCHANGED <<textLen, size, overlap, chunks>> /\ ~done /\ done' = TRUE
      /\ textLen = 0 /\ chunks = << >>
  BY DEF ReturnNone, Inv, LoopInv
<1>2. [i \in 1..textLen |-> "letter"] = << >> /\ [i \in DOMAIN chunks |-> <<chunks[i]>>] = << >>
  BY <1>1
<1>3. Strategy!FixedSizeChunk
  BY <1>1, <1>2 DEF Strategy!FixedSizeChunk, Strategy!callVars
<1> QED  BY <1>3 DEF Strategy!Next, Strategy!sentenceVars

LEMMA InitIsInit == Init => Strategy!Init
<1> SUFFICES ASSUME Init PROVE Strategy!Init
  OBVIOUS
<1> DEFINE text == [i \in 1..textLen |-> "letter"]
<1>1. textLen \in 0..MaxLength
  BY DEF Init
<1>2. text \in Strategy!Texts("fixed")
  <2>1. Strategy!Kinds["fixed"] = {"letter"}
    BY DEF Strategy!Kinds
  <2>2. text \in [1..textLen -> {"letter"}]
    OBVIOUS
  <2> HIDE DEF text
  <2> QED  BY <1>1, <2>1, <2>2 DEF Strategy!Texts
<1>3. "fixed" \in DOMAIN Strategy!Kinds
  BY DEF Strategy!Kinds
<1>4. \E s, o \in Requested :
         /\ size = Strategy!EffectiveSize(s)
         /\ overlap = Strategy!EffectiveOverlap(Strategy!EffectiveSize(s), o)
  BY DEF Init, EffectiveSize, EffectiveOverlap, DefaultSize, Strategy!EffectiveSize,
         Strategy!EffectiveOverlap, Strategy!DefaultSize
<1>5. Strategy!Call
  BY <1>2, <1>3, <1>4 DEF Init, Strategy!Call
<1> QED  BY <1>5 DEF Strategy!Init

(* The loop of the fixed-size strategy implements the step that the module *)
(* of all strategies takes for it: what is proved of the one holds of the  *)
(* other, for any text and any parameters.                                 *)
THEOREM LoopImplementsStep == Spec => LoopIsOneStep
<1>1. Inv /\ [Next]_vars => [Strategy!Next]_(Strategy!vars)
  <2> SUFFICES ASSUME Inv, [Next]_vars PROVE [Strategy!Next]_(Strategy!vars)
    OBVIOUS
  <2>1. CASE UNCHANGED vars
    BY <2>1 DEF vars, Strategy!vars, Strategy!sentenceVars
  <2> QED  BY <2>1, CutIsStep, ReturnNoneIsStep DEF Next
<1> QED  BY <1>1, InitIsInit, SpecInv, PTL DEF Spec, LoopIsOneStep, Strategy!Spec
=============================================================================
