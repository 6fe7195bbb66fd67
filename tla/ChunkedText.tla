---------------------------- MODULE ChunkedText ----------------------------
(***************************************************************************)
(* A call of GetChunker(strategy).Chunk(text, size, overlap) of            *)
(* internal/chunker/chunker.go: what the strategies share.                 *)
(*                                                                         *)
(* A character is of one of the kinds that its strategy tells apart, and   *)
(* one byte wide.  A piece is the interval of the text that a substring    *)
(* takes, a chunk the sequence of the pieces that are joined in it.        *)
(***************************************************************************)
EXTENDS ChunkParameters, SequencesExt

CONSTANTS
    MaxLength,  \* the longest text
    Requested   \* the values a client may ask for as size and as overlap

ASSUME TextAssumption == MaxLength \in Nat /\ Requested \subseteq Int

VARIABLES
    strategy,
    text,     \* the kinds of its characters
    size,     \* the parameters after their defaults
    overlap,
    chunks,
    done      \* the chunks have been returned

callVars == <<strategy, text, size, overlap>>

Kinds ==
    [fixed |-> {"letter"},
     sentence |-> {"letter", "stop", "space"},
     recursive |-> {"letter", "space", "newline"}]

Kind(i) == text[i + 1]

Positions == 0..(Len(text) - 1)

Pieces == {p \in [from : 0..Len(text), to : 0..Len(text)] : p.from <= p.to}

WholeText == [from |-> 0, to |-> Len(text)]

Width(p) == p.to - p.from

(* The bytes of a chunk: its pieces, and a space between any two.          *)
ChunkLength(c) ==
    LET widths[n \in 0..Len(c)] ==
            IF n = 0 THEN 0 ELSE widths[n - 1] + Width(c[n])
    IN  IF c = << >> THEN 0 ELSE widths[Len(c)] + Len(c) - 1

OnePieceEach(pieces) == [i \in DOMAIN pieces |-> <<pieces[i]>>]

Texts(s) == UNION {[1..n -> Kinds[s]] : n \in 0..MaxLength}

Call ==
    /\ strategy \in DOMAIN Kinds
    /\ text \in Texts(strategy)
    /\ \E s, o \in Requested :
          /\ size = EffectiveSize(s)
          /\ overlap = EffectiveOverlap(EffectiveSize(s), o)
    /\ chunks = << >>
    /\ done = FALSE

Kept(i) ==
    \E c \in Range(chunks) : \E p \in Range(c) : i \in p.from..(p.to - 1)
=============================================================================
