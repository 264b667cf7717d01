---------------------------- MODULE DurableIndex ----------------------------
(***************************************************************************)
(* What an index writer promises to its callers, with no segment, merge,    *)
(* snapshot or file in sight.  The index is the sequence of contents that   *)
(* the batches produced; some prefix of it is on disk.  A batch is applied  *)
(* atomically, an acknowledgement is only given for what is on disk, and a  *)
(* crash goes back to the saved content and to nothing else.                *)
(***************************************************************************)
EXTENDS Naturals, Sequences

CONSTANTS Keys,       \* document identifiers
          Batches     \* [upd, del]: the identifiers a batch updates and deletes

VARIABLES states,     \* states[i + 1]: the content after the first i batches
          saved,      \* how many batches the newest snapshot on disk holds
          acked       \* how many batches some caller was told are persisted

vars == <<states, saved, acked>>

\* A document is <<identifier, number of the batch that wrote it>>.
Applied(content, b, n) ==
  {d \in content : d[1] \notin b.upd \cup b.del} \cup (b.upd \X {n})

Init == states = <<{}>> /\ saved = 0 /\ acked = 0

Apply ==
  /\ \E b \in Batches :
       states' = Append(states, Applied(states[Len(states)], b, Len(states)))
  /\ UNCHANGED <<saved, acked>>

\* The newest snapshot on disk only ever moves forward.
Save ==
  /\ saved' \in saved .. Len(states) - 1
  /\ UNCHANGED <<states, acked>>

Ack ==
  /\ acked' \in acked .. saved
  /\ UNCHANGED <<states, saved>>

Crash ==
  /\ states' = SubSeq(states, 1, saved + 1)
  /\ UNCHANGED <<saved, acked>>

Next == Apply \/ Save \/ Ack \/ Crash

Spec == Init /\ [][Next]_vars

\* No acknowledged batch is lost: what was acknowledged is part of what is on
\* disk, and what is on disk is part of the history.
NothingAckedIsLost == acked <= saved /\ saved < Len(states)

=============================================================================
