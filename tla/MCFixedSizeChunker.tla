------------------------- MODULE MCFixedSizeChunker -------------------------
(* A small instance of FixedSizeChunker for TLC: texts of up to twelve     *)
(* bytes, and sizes and overlaps from below zero to beyond the text.       *)
EXTENDS FixedSizeChunker

MCRequested == -1..13
=============================================================================
