------------------------ MODULE EmbeddingClientProofs ------------------------
(***************************************************************************)
(* Proofs about EmbeddingClient, for any number of texts.  Apart from its  *)
(* types the invariant says of Ollama's fallback that what it has so far   *)
(* are the embeddings of the first texts, in order.                        *)
(***************************************************************************)
EXTENDS EmbeddingClient, SequenceTheorems, TLAPS

LegacySoFar ==
    step = "legacy" =>
        /\ provider = "ollama"
        /\ Len(results) < count
        /\ \A i \in 1..Len(results) : results[i] = i

Inv == TypeOK /\ EmbeddingsMatchTexts /\ LegacySoFar
-----------------------------------------------------------------------------
(* What OpenAI's answer leaves in a place, for each way of numbering.      *)
LEMMA PlacedByNumbering ==
    ASSUME count \in Nat, NEW data \in BoundedSeq(Items, count + 1),
           NEW numbering \in Numberings, NEW i \in 1..count
    PROVE  /\ numbering = "zero" => Placed(data, numbering)[i] \in {i, Empty}
           /\ numbering = "one" /\ i = 1 => Placed(data, numbering)[i] = Empty
           /\ numbering = "missing" =>
                 \/ Placed(data, numbering)[i] = Empty
                 \/ i = 1 /\ Placed(data, numbering)[i] \in 1..count
<1> DEFINE last == LastAt(data, numbering, i)
           k == CHOOSE k \in last : TRUE
<1>1. CASE last = {}
  <2>1. Placed(data, numbering)[i] = Empty
    BY <1>1 DEF Placed
  <2> HIDE DEF last, k
  <2> QED  BY <2>1
<1>2. CASE last # {}
  <2>1. Placed(data, numbering)[i] = EmbeddingOf(data[k])
    BY <1>2 DEF Placed
  <2>2. k \in last
    BY <1>2
  <2>3. k \in DOMAIN data /\ Place(data[k], numbering) = i
    BY <2>2 DEF LastAt
  <2>4. data[k] \in Items
    BY <2>3 DEF BoundedSeq, SeqOf
  <2> HIDE DEF k, last
  <2>5. data[k].of \in 1..count
    BY <2>4 DEF Items
  <2>6. EmbeddingOf(data[k]) \in {data[k].of, Empty}
    BY DEF EmbeddingOf
  <2> QED  BY <2>1, <2>3, <2>5, <2>6 DEF Place, Numberings
<1> QED  BY <1>1, <1>2

(* An answer without a gap has the embedding of every text in its place.   *)
LEMMA PopulatedMatches ==
    ASSUME count \in Nat \ {0}, NEW data \in BoundedSeq(Items, count + 1),
           NEW numbering \in Numberings, AllPopulated(Placed(data, numbering))
    PROVE  Placed(data, numbering) = [i \in 1..count |-> i]
<1> DEFINE placed == Placed(data, numbering)
<1>1. DOMAIN placed = 1..count /\ placed = [i \in 1..count |-> placed[i]]
  BY DEF Placed
<1> HIDE DEF placed
<1>2. \A i \in 1..count : placed[i] # Empty
  BY <1>1 DEF AllPopulated, Range, placed
<1>3. numbering # "one"
  <2>1. 1 \in 1..count
    OBVIOUS
  <2> QED  BY <1>2, <2>1, PlacedByNumbering DEF placed
<1>4. CASE numbering = "zero"
  BY <1>1, <1>2, <1>4, PlacedByNumbering DEF placed
<1>5. CASE numbering = "missing"
  <2>1. \A i \in 1..count : i = 1 /\ placed[i] \in 1..count
    BY <1>2, <1>5, PlacedByNumbering DEF placed
  <2>2. count = 1
    BY <2>1
  <2> QED  BY <1>1, <2>1, <2>2 DEF placed
<1> QED  BY <1>3, <1>4, <1>5 DEF Numberings

LEMMA Numbered ==
    ASSUME count \in 0..MaxTexts
    PROVE  /\ [i \in 1..count |-> i] \in Seq(Embeddings)
           /\ Len([i \in 1..count |-> i]) = count
<1>1. count \in Nat /\ 1..count \subseteq Embeddings
  BY MaxTextsAssumption DEF Embeddings
<1> QED  BY <1>1
-----------------------------------------------------------------------------
LEMMA InitInv == Init => Inv
BY DEF Init, Inv, TypeOK, EmbeddingsMatchTexts, LegacySoFar, Steps

LEMMA FailInv ==
    ASSUME Inv, Fail
    PROVE  Inv'
BY DEF Fail, Inv, TypeOK, EmbeddingsMatchTexts, LegacySoFar, Steps

LEMMA BatchRefusedInv ==
    ASSUME Inv, Asks, BatchRefused
    PROVE  Inv'
<1>1. CASE provider = "ollama"
  <2>1. /\ step' = "legacy" /\ provider' = provider /\ count' = count /\ results' = << >>
        /\ count > 0
    BY <1>1 DEF BatchRefused, Asks, Inv, TypeOK
  <2> QED  BY <1>1, <2>1 DEF Inv, TypeOK, EmbeddingsMatchTexts, LegacySoFar, Steps
<1>2. CASE provider # "ollama"
  BY <1>2, FailInv DEF BatchRefused
<1> QED  BY <1>1, <1>2

LEMMA NewClientInv ==
    ASSUME Inv, NewClient
    PROVE  Inv'
<1>1. CASE Fail
  BY <1>1, FailInv
<1>2. CASE step = "new" /\ step' = "batch" /\ UNCHANGED <<provider, count, results>>
  BY <1>2 DEF Inv, TypeOK, EmbeddingsMatchTexts, LegacySoFar, Steps
<1> QED  BY <1>1, <1>2 DEF NewClient

LEMMA NoTextsInv ==
    ASSUME Inv, NoTexts
    PROVE  Inv'
BY DEF NoTexts, Return, Inv, TypeOK, EmbeddingsMatchTexts, LegacySoFar, Steps

LEMMA OpenAIAnswersInv ==
    ASSUME Inv, OpenAIAnswers
    PROVE  Inv'
<1>1. provider = "openai" /\ count \in 0..MaxTexts /\ count > 0 /\ count \in Nat \ {0}
  BY MaxTextsAssumption DEF OpenAIAnswers, Asks, Inv, TypeOK
<1>2. CASE Fail
  BY <1>2, FailInv
<1>3. CASE \E data \in BoundedSeq(Items, count + 1), numbering \in Numberings :
              AllPopulated(Placed(data, numbering)) /\ Return(Placed(data, numbering))
  <2>1. Return([i \in 1..count |-> i])
    BY <1>1, <1>3, PopulatedMatches
  <2>2. /\ step' = "done" /\ provider' = provider /\ count' = count
        /\ results' = [i \in 1..count |-> i]
    BY <2>1 DEF Return
  <2> QED  BY <1>1, <2>2, Numbered DEF Inv, TypeOK, EmbeddingsMatchTexts, LegacySoFar, Steps
<1> QED  BY <1>2, <1>3 DEF OpenAIAnswers

LEMMA ListAnswersInv ==
    ASSUME Inv, ListAnswers
    PROVE  Inv'
<1>1. PICK n \in 0..(count + 1) : \E list \in [1..n -> BOOLEAN] :
         IF OnePerText(list)
         THEN Return([i \in DOMAIN list |-> IF list[i] THEN i ELSE Empty])
         ELSE BatchRefused
  BY DEF ListAnswers
<1>2. PICK list \in [1..n -> BOOLEAN] :
         IF OnePerText(list)
         THEN Return([i \in DOMAIN list |-> IF list[i] THEN i ELSE Empty])
         ELSE BatchRefused
  BY <1>1
<1>3. CASE OnePerText(list)
  <2> DEFINE answer == [i \in 1..count |-> IF list[i] THEN i ELSE Empty]
  <2>1. count \in Nat /\ count <= MaxTexts /\ n \in Nat
    BY MaxTextsAssumption DEF Inv, TypeOK
  <2>2. n = count /\ DOMAIN list = 1..count
    BY <1>3, <2>1 DEF OnePerText
  <2>3. answer \in Seq(Embeddings) /\ Len(answer) = count
    <3>1. \A i \in 1..count : answer[i] \in Embeddings
      BY <2>1, MaxTextsAssumption DEF Embeddings, Empty
    <3> QED  BY <2>1, <3>1
  <2>4. \A i \in 1..count : answer[i] \in {i, Empty}
    OBVIOUS
  <2>5. step' = "done" /\ provider' = provider /\ count' = count /\ results' = answer
    BY <1>2, <1>3, <2>2 DEF Return
  <2>6. provider # "openai"
    BY DEF ListAnswers
  <2> HIDE DEF answer
  <2> QED  BY <2>3, <2>4, <2>5, <2>6
           DEF Inv, TypeOK, EmbeddingsMatchTexts, LegacySoFar, Steps
<1>4. CASE ~OnePerText(list)
  BY <1>2, <1>4, BatchRefusedInv DEF ListAnswers
<1> QED  BY <1>3, <1>4

LEMMA LegacyAnswersInv ==
    ASSUME Inv, LegacyAnswers
    PROVE  Inv'
<1> DEFINE n == Len(results)
<1>1. /\ provider = "ollama" /\ results \in Seq(Embeddings) /\ n \in Nat
      /\ count \in Nat /\ n < count /\ count <= MaxTexts
      /\ \A i \in 1..n : results[i] = i
  BY MaxTextsAssumption DEF LegacyAnswers, Inv, TypeOK, LegacySoFar
<1>2. /\ results' = Append(results, n + 1)
      /\ step' = IF Len(results') = count THEN "done" ELSE "legacy"
      /\ provider' = provider /\ count' = count
  BY DEF LegacyAnswers
<1>3. n + 1 \in Embeddings
  BY <1>1, MaxTextsAssumption DEF Embeddings
<1>4. results' \in Seq(Embeddings) /\ Len(results') = n + 1 /\ \A i \in 1..(n + 1) : results'[i] = i
  BY <1>1, <1>2, <1>3, AppendProperties
<1> HIDE DEF n
<1>5. TypeOK'
  BY <1>2, <1>4 DEF Inv, TypeOK, Steps
<1> QED  BY <1>1, <1>2, <1>4, <1>5 DEF Inv, EmbeddingsMatchTexts, LegacySoFar

LEMMA NextInv == Inv /\ [Next]_vars => Inv'
<1> SUFFICES ASSUME Inv, [Next]_vars PROVE Inv'
  OBVIOUS
<1>1. CASE BatchFails
  BY <1>1, BatchRefusedInv DEF BatchFails
<1>2. CASE LegacyFails
  BY <1>2, FailInv DEF LegacyFails
<1>3. CASE UNCHANGED vars
  BY <1>3 DEF vars, Inv, TypeOK, EmbeddingsMatchTexts, LegacySoFar
<1> QED  BY <1>1, <1>2, <1>3, NewClientInv, NoTextsInv, OpenAIAnswersInv, ListAnswersInv,
            LegacyAnswersInv DEF Next

-----------------------------------------------------------------------------
LEMMA FailForward ==
    ASSUME Inv, Fail, StepsLeft \in Nat \ {0}
    PROVE  StepsLeft' \in 0..(StepsLeft - 1)
<1>1. StepsLeft' = 0
  BY DEF Fail, StepsLeft
<1> HIDE DEF StepsLeft
<1> QED  BY <1>1

(* What is left of a call that has not ended.                              *)
LEMMA StepsLeftOfCall ==
    ASSUME Inv
    PROVE  /\ count \in Nat
           /\ step = "new" => StepsLeft = count + 2
           /\ step = "batch" => StepsLeft = count + 1
           /\ step = "legacy" =>
                 /\ Len(results) \in Nat /\ Len(results) < count
                 /\ StepsLeft = count - Len(results)
           /\ step \in {"new", "batch", "legacy"} => StepsLeft \in Nat \ {0}
<1>1. count \in Nat /\ Len(results) \in Nat
  BY MaxTextsAssumption DEF Inv, TypeOK
<1>2. step = "legacy" => Len(results) < count
  BY DEF Inv, LegacySoFar
<1> QED  BY <1>1, <1>2 DEF StepsLeft

LEMMA BatchRefusedForward ==
    ASSUME Inv, Asks, BatchRefused
    PROVE  StepsLeft' \in 0..(StepsLeft - 1)
<1>1. StepsLeft = count + 1 /\ count \in Nat /\ StepsLeft \in Nat \ {0}
  BY StepsLeftOfCall DEF Asks
<1>2. CASE provider = "ollama"
  <2>1. step' = "legacy" /\ count' = count /\ results = << >> /\ results' = << >>
    BY <1>2 DEF BatchRefused, Asks, Inv, TypeOK
  <2>2. StepsLeft' = count
    BY <1>1, <2>1 DEF StepsLeft
  <2> HIDE DEF StepsLeft
  <2> QED  BY <1>1, <2>2
<1>3. CASE provider # "ollama"
  BY <1>1, <1>3, FailForward DEF BatchRefused
<1> QED  BY <1>2, <1>3

LEMMA ReturnForward ==
    ASSUME Inv, step = "batch", NEW embeddings, Return(embeddings)
    PROVE  StepsLeft' \in 0..(StepsLeft - 1)
<1>1. StepsLeft' = 0
  BY DEF Return, StepsLeft
<1>2. StepsLeft \in Nat \ {0}
  BY StepsLeftOfCall
<1> HIDE DEF StepsLeft
<1> QED  BY <1>1, <1>2

LEMMA LegacyAnswersForward ==
    ASSUME Inv, LegacyAnswers
    PROVE  StepsLeft' \in 0..(StepsLeft - 1)
<1>1. /\ count \in Nat /\ Len(results) \in Nat /\ Len(results) < count
      /\ StepsLeft = count - Len(results)
  BY StepsLeftOfCall DEF LegacyAnswers
<1>2. Len(results') = Len(results) + 1 /\ count' = count
  BY AppendProperties DEF LegacyAnswers, Inv, TypeOK
<1>3. step' = IF Len(results') = count THEN "done" ELSE "legacy"
  BY DEF LegacyAnswers
<1>4. StepsLeft' = count - (Len(results) + 1)
  BY <1>1, <1>2, <1>3 DEF StepsLeft
<1> HIDE DEF StepsLeft
<1> QED  BY <1>1, <1>4

LEMMA NextForward ==
    ASSUME Inv, Next
    PROVE  StepsLeft' \in 0..(StepsLeft - 1)
<1>1. CASE NewClient
  <2>1. StepsLeft = count + 2 /\ count \in Nat /\ StepsLeft \in Nat \ {0}
    BY <1>1, StepsLeftOfCall DEF NewClient
  <2>2. CASE Fail
    BY <2>1, <2>2, FailForward
  <2>3. CASE step' = "batch" /\ count' = count
    <3>1. StepsLeft' = count + 1
      BY <2>1, <2>3 DEF StepsLeft
    <3> HIDE DEF StepsLeft
    <3> QED  BY <2>1, <3>1
  <2> QED  BY <1>1, <2>2, <2>3 DEF NewClient
<1>2. CASE NoTexts
  BY <1>2, ReturnForward DEF NoTexts
<1>3. CASE BatchFails
  BY <1>3, BatchRefusedForward DEF BatchFails
<1>4. CASE OpenAIAnswers
  <2>1. step = "batch"
    BY <1>4 DEF OpenAIAnswers, Asks
  <2>2. (\E embeddings : Return(embeddings)) \/ Fail
    BY <1>4 DEF OpenAIAnswers
  <2> QED  BY <2>1, <2>2, ReturnForward, FailForward, StepsLeftOfCall
<1>5. CASE ListAnswers
  <2>1. Asks /\ step = "batch"
    BY <1>5 DEF ListAnswers, Asks
  <2>2. (\E embeddings : Return(embeddings)) \/ BatchRefused
    BY <1>5 DEF ListAnswers
  <2> QED  BY <2>1, <2>2, ReturnForward, BatchRefusedForward
<1>6. CASE LegacyAnswers
  BY <1>6, LegacyAnswersForward
<1>7. CASE LegacyFails
  BY <1>7, FailForward, StepsLeftOfCall DEF LegacyFails
<1> QED  BY <1>1, <1>2, <1>3, <1>4, <1>5, <1>6, <1>7 DEF Next
-----------------------------------------------------------------------------
LEMMA InvAlways == Spec => []Inv
BY InitInv, NextInv, PTL DEF Spec

(* Every variable keeps its type, and a call that failed returns nothing.  *)
THEOREM EmbeddingTypeOK == Spec => []TypeOK
BY InvAlways, PTL DEF Inv

(* Whatever the provider answers, a call that succeeds pairs every text    *)
(* with its own embedding, however many texts there are.                   *)
THEOREM EmbeddingsOfTheirTexts == Spec => []EmbeddingsMatchTexts
BY InvAlways, PTL DEF Inv

(* Whatever the provider answers, every step of a call is one of a number  *)
(* that its texts limit: the whole batch and, with Ollama, each text once. *)
THEOREM EmbeddingGoesForward == Spec => CallGoesForward
<1>1. Inv /\ [Next]_vars => [StepsLeft' \in 0..(StepsLeft - 1)]_vars
  BY NextForward
<1> QED  BY <1>1, InvAlways, PTL DEF Spec, CallGoesForward
=============================================================================
