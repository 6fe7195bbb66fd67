-------------------------- MODULE ChunkParameters --------------------------
(***************************************************************************)
(* What every Chunk method of internal/chunker/chunker.go does first: the  *)
(* size and the overlap a client asks for are made usable.                 *)
(***************************************************************************)
EXTENDS Integers

DefaultSize == 500

EffectiveSize(s) == IF s <= 0 THEN DefaultSize ELSE s

(* Variant: without the clamp to the size.                                 *)
UnclampedOverlap(s, o) == IF o < 0 THEN 0 ELSE o

EffectiveOverlap(s, o) ==
    IF o < 0 THEN 0 ELSE IF o >= s THEN s \div 2 ELSE o
=============================================================================
