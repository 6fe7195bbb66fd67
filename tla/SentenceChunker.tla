-------------------------- MODULE SentenceChunker --------------------------
(***************************************************************************)
(* SentenceChunker.Chunk of internal/chunker/chunker.go: the sentences     *)
(* that a regular expression finds, one by one, are trimmed and grouped    *)
(* into chunks, one sentence per turn of the loop.  The expression is      *)
(*                   [^.!?]+([.!?]+(\s+|$)|$)                              *)
(* and the code joins the sentences of a chunk with one space.             *)
(***************************************************************************)
EXTENDS ChunkedText

VARIABLES
    at,       \* where FindAllString goes on
    matches,  \* the sentences it has found
    turn,     \* how many of them the loop has handled
    current   \* currentChunk

sentenceVars == <<at, matches, turn, current>>

NoStop == Kinds.sentence \ {"stop"}

(* The first position from a on that is of none of the kinds, or the end.  *)
SkipFrom(a, kinds) ==
    Min({i \in a..Len(text) : i = Len(text) \/ Kind(i) \notin kinds})

(* Variant: the end of the text does not close a sentence.                 *)
ClosedBySpace(rest, next) == next > rest

(* A sentence is closed by spaces after its stops or by the end.           *)
Closed(rest, next) == rest = Len(text) \/ next > rest

(* FindAllString: a run of other characters, the stops after it, and the   *)
(* spaces after those.  Stops that neither a space nor the end follows     *)
(* match nothing, and no shorter match of the run exists: the search goes  *)
(* on behind them, and so it does behind stops without a run before.       *)
FindSentence ==
    /\ ~done
    /\ at < Len(text)
    /\ LET stops == SkipFrom(at, NoStop)
           rest == SkipFrom(stops, {"stop"})
           next == SkipFrom(rest, {"space"})
           found == stops > at /\ Closed(rest, next)
       IN  \/ /\ found
              /\ matches' = Append(matches, [from |-> at, to |-> next])
              /\ at' = next
           \/ /\ ~found
              /\ at' = rest
              /\ UNCHANGED matches
    /\ UNCHANGED <<callVars, chunks, done, turn, current>>

Searched == at = Len(text)

(* strings.TrimSpace                                                       *)
Trim(s) ==
    LET from == Min({i \in s.from..s.to : i = s.to \/ Kind(i) # "space"})
        to == Min({i \in from..s.to :
                       \A j \in i..(s.to - 1) : Kind(j) = "space"})
    IN  [from |-> from, to |-> to]

(* Nothing matched: the text is its only chunk, if it is not empty.        *)
ReturnText ==
    /\ ~done
    /\ Searched
    /\ matches = << >>
    /\ chunks' = IF text = << >> THEN << >> ELSE << <<WholeText>> >>
    /\ done' = TRUE
    /\ UNCHANGED <<callVars, sentenceVars>>

(* Variant: the sentence that is added is not counted.                     *)
OverflowsAlready(s) ==
    /\ ChunkLength(current) > size
    /\ current # << >>

(* The space that would join the sentence is not counted.                  *)
Overflows(s) ==
    /\ ChunkLength(current) + Width(s) > size
    /\ current # << >>

(* Variant: the last sentence is carried over into the next chunk.         *)
CarryOver(s) == <<Last(current), s>>

(* The chunk that a sentence starts when the one before is full.           *)
StartWith(s) == <<s>>

(* Variant: empty sentences are not skipped.                               *)
NeverBlank(s) == FALSE

Blank(s) == Width(s) = 0

(* One turn of the loop.                                                   *)
Group ==
    /\ ~done
    /\ Searched
    /\ turn < Len(matches)
    /\ turn' = turn + 1
    /\ LET s == Trim(matches[turn'])
       IN  \/ Blank(s) /\ UNCHANGED <<chunks, current>>
           \/ /\ ~Blank(s)
              /\ Overflows(s)
              /\ chunks' = Append(chunks, current)
              /\ current' = StartWith(s)
           \/ /\ ~Blank(s)
              /\ ~Overflows(s)
              /\ current' = Append(current, s)
              /\ UNCHANGED chunks
    /\ UNCHANGED <<callVars, done, at, matches>>

(* After the loop.                                                         *)
Finish ==
    /\ ~done
    /\ Searched
    /\ matches # << >>
    /\ turn = Len(matches)
    /\ chunks' = IF current = << >> THEN chunks ELSE Append(chunks, current)
    /\ done' = TRUE
    /\ UNCHANGED <<callVars, sentenceVars>>

SentenceChunk == FindSentence \/ ReturnText \/ Group \/ Finish
-----------------------------------------------------------------------------
(* The stops that follow the letter at i glue it to what comes after them, *)
(* as in "3.14": that is neither a space nor the end of the text.          *)
Glued(i) ==
    LET stops == SkipFrom(i, NoStop)
        next == SkipFrom(stops, {"stop"})
    IN  next < Len(text) /\ Kind(next) # "space"

(* The letters that no chunk holds are exactly those in front of such      *)
(* stops.                                                                  *)
OnlyGluedTextIsLost ==
    strategy = "sentence" /\ done =>
        \A i \in Positions : Kind(i) = "letter" => (Kept(i) <=> ~Glued(i))

(* Chunks hold the sentences in the order of the text, each of them once.  *)
SentencesInOrder ==
    strategy = "sentence" =>
        \A i, j \in DOMAIN chunks : \A k \in DOMAIN chunks[i], l \in DOMAIN chunks[j] :
            i < j \/ (i = j /\ k < l) => chunks[i][k].to <= chunks[j][l].from

(* A sentence that is larger than the size on its own shares its chunk     *)
(* with no other: the sentences before it are flushed first, and those     *)
(* behind it start the next one.                                           *)
LargeSentencesStandAlone ==
    strategy = "sentence" =>
        \A c \in Range(chunks) : \A p \in Range(c) : Width(p) > size => Len(c) = 1
=============================================================================
