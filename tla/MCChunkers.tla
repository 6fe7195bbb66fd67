----------------------------- MODULE MCChunkers -----------------------------
(* A small instance of Chunkers for TLC.                                   *)
EXTENDS Chunkers

MCRequested == 0..4
=============================================================================
