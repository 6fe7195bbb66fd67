-------------------------- MODULE RecursiveChunker --------------------------
(***************************************************************************)
(* RecursiveCharacterChunker.Chunk of internal/chunker/chunker.go: a text  *)
(* is split at blank lines, a part that is still too large at line ends,   *)
(* then at spaces, then anywhere, and small neighbours are merged again.   *)
(* Every string the code handles is a piece of the text, a joined block    *)
(* too, as its parts are neighbours.                                       *)
(***************************************************************************)
EXTENDS ChunkedText

(* The separators, without the last one, "", which every text contains.    *)
BlankLine == <<"newline", "newline">>

LineEnd == <<"newline">>

Space == <<"space">>

(* The positions in a piece at which the separator occurs.                 *)
Occurrences(p, sep) ==
    {i \in p.from..(p.to - Len(sep)) :
        SubSeq(text, i + 1, i + Len(sep)) = sep}

(* strings.Split: the rest is cut at the first occurrence in it, as often  *)
(* as there is one.                                                        *)
CutOff(s, sep) ==
    LET found == Occurrences(s.rest, sep)
    IN  IF found = {} THEN s
        ELSE [parts |-> Append(s.parts, [from |-> s.rest.from, to |-> Min(found)]),
              rest |-> [from |-> Min(found) + Len(sep), to |-> s.rest.to]]

Split(p, sep) ==
    LET cut[n \in 0..Width(p)] ==
            IF n = 0 THEN [parts |-> << >>, rest |-> p] ELSE CutOff(cut[n - 1], sep)
        last == cut[Width(p)]
    IN  Append(last.parts, last.rest)

(* strings.Join of neighbouring parts                                      *)
Join(block) == [from |-> Head(block).from, to |-> Last(block).to]

(* Variant: with > instead of >=.                                          *)
PassesEnd(a, p) == a + size > p.to

ReachesEnd(a, p) == a + size >= p.to

(* FixedSizeChunker: pieces of the size, each starting "overlap" bytes     *)
(* before the end of the one before, until one reaches the end.            *)
FixedSizeChunks(p) ==
    LET Start(i) == p.from + (i - 1) * (size - overlap)
        n == Min({i \in 1..(Width(p) + 1) : ReachesEnd(Start(i), p)})
    IN  [i \in 1..n |-> [from |-> Start(i),
                         to |-> IF i = n THEN p.to ELSE Start(i) + size]]

(* What is left of currentLen when k parts are removed from the block.     *)
LengthWithout(k, block, length, width) ==
    IF k = 0 THEN length
    ELSE length - (block[k].to - block[1].from + width)

(* Variant: without the removal.                                           *)
RetainWholeBlock(block, length, width) == 0

(* How many parts are removed from the front for the rest to be within     *)
(* the overlap.                                                            *)
Removed(block, length, width) ==
    Min({k \in 0..Len(block) :
             k = Len(block)
                 \/ LengthWithout(k, block, length, width) <= overlap})

Exceeds(length, doc, width) == length + Width(doc) + width > size

(* One turn of the loop of mergeDocs.  currentLen counts no separator in   *)
(* front of a part while it is zero, as it is after an empty part.         *)
MergeDoc(m, doc, width) ==
    LET full == Exceeds(m.length, doc, width) /\ m.block # << >>
        k == IF full THEN Removed(m.block, m.length, width) ELSE 0
        length == LengthWithout(k, m.block, m.length, width)
    IN  [merged |-> IF full THEN Append(m.merged, Join(m.block)) ELSE m.merged,
         block |-> Append(SubSeq(m.block, k + 1, Len(m.block)), doc),
         length |-> IF length = 0 THEN Width(doc)
                    ELSE length + Width(doc) + width]

(* The loop of mergeDocs.                                                  *)
MergeLoop(docs, width) ==
    LET loop[n \in 0..Len(docs)] ==
            IF n = 0 THEN [merged |-> << >>, block |-> << >>, length |-> 0]
            ELSE MergeDoc(loop[n - 1], docs[n], width)
    IN  loop[Len(docs)]

(* Variant: the last block is forgotten.                                   *)
MergeWithoutLast(docs, width) == MergeLoop(docs, width).merged

(* mergeDocs                                                               *)
Merge(docs, width) ==
    LET last == MergeLoop(docs, width)
    IN  IF last.block = << >> THEN last.merged
        ELSE Append(last.merged, Join(last.block))

(* One turn of the loop of splitText: a part that is too large is split by *)
(* the separators that follow, behind those collected so far.              *)
TakePart(s, part, width, deeper) ==
    IF Width(part) > size
    THEN [final |-> s.final \o Merge(s.docs, width) \o deeper[part], docs |-> << >>]
    ELSE [s EXCEPT !.docs = Append(@, part)]

(* The loop of splitText, and what it has collected in the end.            *)
TakeParts(parts, width, deeper) ==
    LET taken[n \in 0..Len(parts)] ==
            IF n = 0 THEN [final |-> << >>, docs |-> << >>]
            ELSE TakePart(taken[n - 1], parts[n], width, deeper)
        last == taken[Len(parts)]
    IN  last.final \o Merge(last.docs, width)

(* splitText: what it makes of each piece with a separator and, for what   *)
(* follows, with those behind it.                                          *)
SplitAt(sep, deeper) ==
    [p \in Pieces |->
        IF Width(p) <= size THEN <<p>>
        ELSE IF Occurrences(p, sep) = {} THEN deeper[p]
        ELSE TakeParts(Split(p, sep), Len(sep), deeper)]

SplitAnywhere == [p \in Pieces |-> IF Width(p) <= size THEN <<p>> ELSE FixedSizeChunks(p)]

SplitText ==
    SplitAt(BlankLine, SplitAt(LineEnd, SplitAt(Space, SplitAnywhere)))[WholeText]

RecursiveChunk ==
    /\ ~done
    /\ chunks' = OnePieceEach(SplitText)
    /\ done' = TRUE
    /\ UNCHANGED callVars
-----------------------------------------------------------------------------
From(i) == Head(chunks[i]).from

To(i) == Last(chunks[i]).to

(* Chunks advance, whatever the strategy: each starts at or behind the     *)
(* start of the one before, and ends behind its end.                       *)
ChunksAdvance ==
    \A i \in 1..(Len(chunks) - 1) : From(i) <= From(i + 1) /\ To(i) < To(i + 1)

(* Every letter is in some chunk, of the strategies that keep the text.    *)
NothingLost ==
    strategy # "sentence" /\ done =>
        \A i \in Positions : Kind(i) = "letter" => Kept(i)

(* Words set apart by one space, one line end or one blank line, without   *)
(* anything in front of the first or behind the last.                      *)
Tidy ==
    /\ text # << >>
    /\ {text[1], text[Len(text)]} = {"letter"}
    /\ \A i \in 2..Len(text) :
           text[i - 1] # "letter" /\ text[i] # "letter" =>
               /\ text[i - 1] = "newline"
               /\ text[i] = "newline"
               /\ text[i + 1] = "letter"

(* Of a tidy text no chunk is empty, neighbours share no more than the     *)
(* overlap, and without an overlap no chunk exceeds the size.              *)
TidyTextIsWellCut ==
    strategy = "recursive" /\ Tidy =>
        /\ \A c \in Range(chunks) :
               ChunkLength(c) > 0 /\ (overlap = 0 => ChunkLength(c) <= size)
        /\ \A i \in 1..(Len(chunks) - 1) : From(i + 1) >= To(i) - overlap
=============================================================================
