-------------------------- MODULE FixedSizeChunker --------------------------
(***************************************************************************)
(* FixedSizeChunker.Chunk of internal/chunker/chunker.go, one turn of its  *)
(* loop per step.  A text is its length in bytes; a chunk is the interval  *)
(* of bytes that the slice text[start:end] takes.                          *)
(***************************************************************************)
EXTENDS ChunkParameters, Sequences

CONSTANTS
    MaxLength,   \* the longest text, in bytes
    Requested    \* the values a client may ask for as size and as overlap

ASSUME LoopAssumption == MaxLength \in Nat /\ Requested \subseteq Int

VARIABLES
    textLen,  \* len(text)
    size,     \* the parameters of the call, after their defaults
    overlap,
    start,    \* where the next chunk starts
    chunks,   \* the chunks cut so far
    done      \* the chunks have been returned

vars == <<textLen, size, overlap, start, chunks, done>>

Init ==
    /\ textLen \in 0..MaxLength
    /\ \E s, o \in Requested :
          /\ size = EffectiveSize(s)
          /\ overlap = EffectiveOverlap(EffectiveSize(s), o)
    /\ start = 0
    /\ chunks = << >>
    /\ done = FALSE

(* A text of no bytes has no chunks.                                       *)
ReturnNone ==
    /\ ~done
    /\ textLen = 0
    /\ done' = TRUE
    /\ UNCHANGED <<textLen, size, overlap, start, chunks>>

End == IF start + size > textLen THEN textLen ELSE start + size

(* Variant: a tail shorter than a chunk is dropped.                        *)
BreakingOnShortTail == End + size > textLen

(* The loop breaks once a chunk has reached the end of the text.           *)
Breaks == End = textLen

(* Variant: without the overlap.                                           *)
RestartingAtEnd == End

NextStart == End - overlap

Cut ==
    /\ ~done
    /\ start < textLen
    /\ chunks' = Append(chunks, [from |-> start, to |-> End])
    /\ start' = IF Breaks THEN start ELSE NextStart
    /\ done' = (Breaks \/ start' >= textLen)
    /\ UNCHANGED <<textLen, size, overlap>>

Next == ReturnNone \/ Cut

Spec == Init /\ [][Next]_vars
-----------------------------------------------------------------------------
(* The parameters are usable whatever was asked for, and chunks are        *)
(* intervals of the text.                                                  *)
TypeOK ==
    /\ textLen \in Nat
    /\ size \in Nat \ {0}
    /\ overlap \in 0..(size - 1)
    /\ start \in 0..textLen
    /\ chunks \in Seq([from : 0..textLen, to : 0..textLen])
    /\ done \in BOOLEAN

(* Chunks are of the size asked for, only the last one may be shorter, and *)
(* each one starts exactly "overlap" bytes before the end of the one       *)
(* before: no byte of the text is skipped.                                 *)
ChunksOverlap ==
    \A i \in DOMAIN chunks :
        /\ i = 1 => chunks[i].from = 0
        /\ chunks[i].to - chunks[i].from \in 1..size
        /\ i < Len(chunks) =>
              /\ chunks[i].to - chunks[i].from = size
              /\ chunks[i + 1].from = chunks[i].to - overlap

(* When the loop has ended the chunks reach the end of the text.           *)
CoversText ==
    done => IF textLen = 0 THEN chunks = << >>
            ELSE chunks # << >> /\ chunks[Len(chunks)].to = textLen

(* Every chunk after the first holds bytes the one before does not: the    *)
(* last one is never a mere repetition of the overlap.                     *)
EveryChunkIsNew ==
    \A i \in DOMAIN chunks : i > 1 => chunks[i].to > chunks[i - 1].to

(* A turn of the loop ends it or moves on, so that it ends.                *)
EveryCutAdvances == [][done' \/ start' > start]_vars

(* The loop, seen from outside, is the one step that Chunkers has for it:  *)
(* turn by turn it cuts at multiples of size - overlap, and stops at the   *)
(* first chunk that can reach the end.                                     *)
Strategy == INSTANCE Chunkers WITH
    strategy <- "fixed",
    text <- [i \in 1..textLen |-> "letter"],
    chunks <- IF done THEN [i \in DOMAIN chunks |-> <<chunks[i]>>] ELSE << >>,
    at <- 0, matches <- << >>, turn <- 0, current <- << >>

LoopIsOneStep == Strategy!Spec
=============================================================================
