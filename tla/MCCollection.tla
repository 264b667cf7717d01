---- MODULE MCCollection ----
(* A small instance of Collection. *)
EXTENDS Collection, TLC
CONSTANTS s1, a, b, d1, d2, v1, v2, r1, r2
Symmetric == Permutations({d1, d2}) \cup Permutations({a, b}) \cup Permutations({v1, v2})
====
