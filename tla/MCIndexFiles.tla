---------------------------- MODULE MCIndexFiles ----------------------------
(* Small instances of IndexFiles for TLC. *)
EXTENDS IndexFiles, TLC

CONSTANTS r1, r2

Symmetric == Permutations({r1, r2})

=============================================================================
