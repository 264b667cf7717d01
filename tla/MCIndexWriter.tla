--------------------------- MODULE MCIndexWriter ---------------------------
(* Small instances of IndexWriter for TLC. *)
EXTENDS IndexWriter, TLC

CONSTANTS k1, k2, k3, w1, w2, w3

Symmetric == Permutations({w1, w2, w3})

\* Updates that obsolete part or all of what is there.
TwoBatches == {[upd |-> {k1}, del |-> {}], [upd |-> {k1, k2}, del |-> {}]}

\* Updates that leave a segment with some of its documents beside others.
ThreeBatches == {[upd |-> {k1, k2}, del |-> {}], [upd |-> {k1}, del |-> {}],
                 [upd |-> {k3},     del |-> {}]}

\* The same with deletes, of one identifier beside an update and alone.
SmallBatches == {[upd |-> {k1},     del |-> {}],
                 [upd |-> {k1, k2}, del |-> {}],
                 [upd |-> {k2},     del |-> {k1}],
                 [upd |-> {},       del |-> {k2}]}

=============================================================================
