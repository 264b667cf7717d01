--------------------------- MODULE MCWriterLoops ---------------------------
(* Small instances of WriterLoops for TLC. *)
EXTENDS WriterLoops

CONSTANTS w1, w2

=============================================================================
