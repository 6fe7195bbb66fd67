------------------------------ MODULE Chunkers ------------------------------
(***************************************************************************)
(* GetChunker of internal/chunker/chunker.go over its three strategies.    *)
(* "fixed" is one step here; FixedSizeChunker has it turn by turn.         *)
(***************************************************************************)
EXTENDS SentenceChunker, RecursiveChunker

vars == <<strategy, text, size, overlap, chunks, done, sentenceVars>>

Init ==
    /\ Call
    /\ at = 0
    /\ matches = << >>
    /\ turn = 0
    /\ current = << >>

FixedSizeChunk ==
    /\ ~done
    /\ chunks' = IF text = << >> THEN << >>
                 ELSE OnePieceEach(FixedSizeChunks(WholeText))
    /\ done' = TRUE
    /\ UNCHANGED callVars

Next ==
    \/ strategy = "fixed" /\ FixedSizeChunk /\ UNCHANGED sentenceVars
    \/ strategy = "sentence" /\ SentenceChunk
    \/ strategy = "recursive" /\ RecursiveChunk /\ UNCHANGED sentenceVars

Spec == Init /\ [][Next]_vars
-----------------------------------------------------------------------------
(* The parameters are usable whatever was asked for, and chunks are made   *)
(* of pieces of the text; the sentence chunker joins no empty ones.        *)
TypeOK ==
    /\ strategy \in DOMAIN Kinds
    /\ text \in Texts(strategy)
    /\ size \in Nat \ {0}
    /\ overlap \in 0..(size - 1)
    /\ done \in BOOLEAN
    /\ chunks \in Seq(Seq(Pieces) \ {<< >>})
    /\ at \in 0..Len(text)
    /\ {matches, current} \subseteq Seq(Pieces)
    /\ turn \in 0..Len(matches)
    /\ strategy = "sentence" =>
           \A c \in Range(chunks) : \A p \in Range(c) : Width(p) > 0

(* docs/api-reference/documents.mdx:111 describes chunk_size as "Maximum   *)
(* characters per chunk".  Sentences are joined by a space that is not     *)
(* counted and a large one is never cut; the overlap that mergeDocs        *)
(* retains comes on top of the size.                                       *)
ChunksWithinSize == \A c \in Range(chunks) : ChunkLength(c) <= size
=============================================================================
