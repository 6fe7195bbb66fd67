-------------------------- MODULE EmbeddingClient --------------------------
(***************************************************************************)
(* One call of GetClient and GenerateEmbeddings of internal/embedding, one *)
(* exchange with the provider per step.  GenerateEmbedding is the case of  *)
(* one text.  The provider computes what it is asked for, so that an       *)
(* embedding is the number of the text it is of; it may answer in another  *)
(* order, twice, for some texts only or with an empty list of numbers, or  *)
(* not at all.                                                             *)
(***************************************************************************)
EXTENDS Integers, SequencesExt

CONSTANT MaxTexts

ASSUME MaxTextsAssumption == MaxTexts \in Nat

VARIABLES
    provider,
    count,    \* len(texts)
    step,     \* what the call does next
    results   \* the embeddings; those of the texts done while in "legacy"

vars == <<provider, count, step, results>>

Providers == {"openai", "cohere", "ollama", "other"}

Empty == 0  \* an embedding without numbers

Steps == {"new", "batch", "legacy", "done", "failed"}

(* Variant: what has been embedded so far is returned with the error.      *)
FailWithPart == step' = "failed" /\ UNCHANGED <<provider, count, results>>

Fail == step' = "failed" /\ results' = << >> /\ UNCHANGED <<provider, count>>

Return(embeddings) ==
    /\ step' = "done"
    /\ results' = embeddings
    /\ UNCHANGED <<provider, count>>

Init ==
    /\ provider \in Providers
    /\ count \in 0..MaxTexts
    /\ step = "new"
    /\ results = << >>

(* GetClient: an unknown name is refused, and so is a provider whose key   *)
(* is not in the environment; Ollama needs none.                           *)
NewClient ==
    /\ step = "new"
    /\ \/ provider # "ollama" /\ Fail
       \/ provider # "other" /\ step' = "batch"
          /\ UNCHANGED <<provider, count, results>>

NoTexts == step = "batch" /\ count = 0 /\ Return(<< >>)

Asks == step = "batch" /\ count > 0

(* The exchange failed: no connection, a timeout, another status than 200, *)
(* an answer that cannot be decoded.  Ollama falls back to one text at a   *)
(* time.                                                                   *)
BatchRefused ==
    IF provider = "ollama"
    THEN step' = "legacy" /\ UNCHANGED <<provider, count, results>>
    ELSE Fail

BatchFails == Asks /\ BatchRefused

(* The items of OpenAI's answer; the embedding may be without numbers.     *)
Items == [of : 1..count, numbers : BOOLEAN]

EmbeddingOf(item) == IF item.numbers THEN item.of ELSE Empty

(* The place that an item's index names: a server may count from zero, as  *)
(* it should, from one, or leave the field out, which is read as zero.     *)
Numberings == {"zero", "one", "missing"}

Place(item, numbering) ==
    CASE numbering = "zero" -> item.of
      [] numbering = "one" -> item.of + 1
      [] numbering = "missing" -> 1

(* Variant: the items are taken in the order in which they arrive.         *)
InArrivalOrder(data, numbering) ==
    [i \in 1..count |-> IF i \in DOMAIN data THEN EmbeddingOf(data[i])
                        ELSE Empty]

(* Items are placed by index, unless it is out of range; the last one of   *)
(* an index stays.                                                         *)
LastAt(data, numbering, i) ==
    {k \in DOMAIN data :
        /\ Place(data[k], numbering) = i
        /\ \A l \in DOMAIN data : l > k => Place(data[l], numbering) # i}

Placed(data, numbering) ==
    [i \in 1..count |-> IF LastAt(data, numbering, i) = {} THEN Empty
                        ELSE EmbeddingOf(data[CHOOSE k \in LastAt(data, numbering, i) : TRUE])]

(* Variant: not verified.                                                  *)
Unverified(embeddings) == TRUE

AllPopulated(embeddings) == Empty \notin Range(embeddings)

OpenAIAnswers ==
    /\ Asks
    /\ provider = "openai"
    /\ \E data \in BoundedSeq(Items, count + 1), numbering \in Numberings :
          LET embeddings == Placed(data, numbering)
          IN  IF AllPopulated(embeddings) THEN Return(embeddings) ELSE Fail

(* Variant: an answer with more embeddings than texts passes.              *)
AtLeastAsMany(list) == Len(list) >= count

OnePerText(list) == Len(list) = count

(* Cohere, and Ollama's /api/embed, answer with a list in the order of the *)
(* texts, of which the client checks the length.                           *)
ListAnswers ==
    /\ Asks
    /\ provider \in {"cohere", "ollama"}
    /\ \E list \in UNION {[1..n -> BOOLEAN] : n \in 0..(count + 1)} :
          IF OnePerText(list)
          THEN Return([i \in DOMAIN list |-> IF list[i] THEN i ELSE Empty])
          ELSE BatchRefused

(* /api/embeddings for the next text, which must not come back empty.      *)
LegacyAnswers ==
    /\ step = "legacy"
    /\ results' = Append(results, Len(results) + 1)
    /\ step' = IF Len(results') = count THEN "done" ELSE "legacy"
    /\ UNCHANGED <<provider, count>>

(* Variant: what failed is tried again from the start.                     *)
LegacyStartsOver ==
    /\ step = "legacy"
    /\ step' = "batch"
    /\ results' = << >>
    /\ UNCHANGED <<provider, count>>

(* The exchange failed or the embedding was empty.                         *)
LegacyFails == step = "legacy" /\ Fail

Next ==
    \/ NewClient \/ NoTexts \/ BatchFails \/ OpenAIAnswers \/ ListAnswers
    \/ LegacyAnswers \/ LegacyFails

(* Every exchange ends, by the client's timeout of 30 seconds if need be.  *)
Fairness == WF_vars(Next)

Spec == Init /\ [][Next]_vars /\ Fairness
-----------------------------------------------------------------------------
Embeddings == 0..MaxTexts

(* The state of a call; a failed call returns nothing.                     *)
TypeOK ==
    /\ provider \in Providers
    /\ count \in 0..MaxTexts
    /\ step \in Steps
    /\ results \in Seq(Embeddings)
    /\ step \in {"new", "batch", "failed"} => results = << >>

(* A call that succeeds returns one embedding for every text, in the order *)
(* of the texts: IngestDocument pairs embeddings[i] with chunks[i].  Only  *)
(* providers that answer with a list may leave one empty: OpenAI's are     *)
(* verified one by one.                                                    *)
EmbeddingsMatchTexts ==
    step = "done" =>
        /\ Len(results) = count
        /\ \A i \in 1..count :
              results[i] \in IF provider = "openai" THEN {i} ELSE {i, Empty}

(* The most steps that a call may still take: it sets up a client, asks    *)
(* for all the texts and, with Ollama, for each text by itself.            *)
StepsLeft ==
    CASE step = "new" -> count + 2
      [] step = "batch" -> count + 1
      [] step = "legacy" -> count - Len(results)
      [] OTHER -> 0

(* Nothing is asked for again: whatever the provider answers, every step   *)
(* brings the call nearer to its end, so that it makes at most one         *)
(* exchange more than it has texts.                                        *)
CallGoesForward == [][StepsLeft' \in 0..(StepsLeft - 1)]_vars

(* Every call ends, Ollama's fallback included.                            *)
CallEnds == <>(step \in {"done", "failed"})
=============================================================================
