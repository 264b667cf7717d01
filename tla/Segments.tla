------------------------------ MODULE Segments ------------------------------
(***************************************************************************)
(* The data one root of the index is made of, and what batches, persists    *)
(* and merges do to it (index/segment.go, index/introducer.go,              *)
(* index/merge.go).  A segment snapshot is                                  *)
(*   [id, docs, deleted, persisted]                                         *)
(* where docs is the immutable sequence of documents of the segment and     *)
(* deleted the numbers of those that later batches replaced.  A document is *)
(* <<identifier, number of the batch that wrote it>>.  The order of the     *)
(* segments in a root only decides document numbers of the whole index, so  *)
(* a root holds a set of them.                                              *)
(***************************************************************************)
EXTENDS Naturals, Sequences, FiniteSets

Ids(segs) == {s.id : s \in segs}

Segment(segs, id) == CHOOSE s \in segs : s.id = id

\* DocNumbersLive; LiveSize and Count are its cardinality.
Live(s) == DOMAIN s.docs \ s.deleted

\* Every place of a set of segments that holds a live document.
Places(segs) == UNION {{s.id} \X Live(s) : s \in segs}

DocAt(segs, place) == Segment(segs, place[1]).docs[place[2]]

Content(segs) == {DocAt(segs, p) : p \in Places(segs)}

\* segment.DocsMatchingTerms for the identifier terms of a batch.
DocsMatching(s, terms) == {n \in DOMAIN s.docs : s.docs[n][1] \in terms}

NonEmpty(segs) == {s \in segs : Live(s) # {}}

-----------------------------------------------------------------------------
(* Introductions: the set of segments after, from the set before. *)

\* Mutant: segments the batch did not see when it was prepared are left alone.
WithBatchNoLookup(segs, in, new) ==
  LET delta(s) == IF s.id \in DOMAIN in.obsoletes THEN in.obsoletes[s.id] ELSE {}
  IN  NonEmpty({[s EXCEPT !.deleted = @ \cup delta(s)] : s \in segs}) \cup new

\* introduceSegment.  obsoletes holds what the batch worked out optimistically
\* against an older root; segments it did not see are looked up now.
WithBatch(segs, in, new) ==
  LET delta(s) == IF s.id \in DOMAIN in.obsoletes
                    THEN in.obsoletes[s.id]
                    ELSE DocsMatching(s, in.terms)
  IN  NonEmpty({[s EXCEPT !.deleted = @ \cup delta(s)] : s \in segs}) \cup new

\* introducePersist: swap in the persisted wrappers, keep today's deletions.
WithPersisted(segs, ids) ==
  {IF s.id \in ids THEN [s EXCEPT !.persisted = TRUE] ELSE s : s \in segs}

\* A merge of the live documents of "old" into the new segment id: docs is
\* what the merger wrote, num the new number of every place it copied.
Merge(id, old) ==
  LET Before(p, q) == p[1] < q[1] \/ (p[1] = q[1] /\ p[2] <= q[2])
      places == Places(old)
      num    == [p \in places |-> Cardinality({q \in places : Before(q, p)})]
  IN  [id   |-> id,
       old  |-> old,
       num  |-> num,
       docs |-> [m \in 1 .. Cardinality(places) |->
                   DocAt(old, CHOOSE p \in places : num[p] = m)]]

\* Mutant: deletions that came in during the merge are forgotten.
DeletedSinceIgnored(segs, m) == {}

\* ProcessSegmentNow on every merged segment still in the root: the documents
\* deleted since the merge looked at them.
DeletedSince(segs, m) ==
  {m.num[p] : p \in {q \in DOMAIN m.num :
                       \E s \in segs : s.id = q[1] /\ q[2] \in s.deleted}}

\* Merged segments that left the root meanwhile: everything they held.
Vanished(segs, m) == {m.num[p] : p \in {q \in DOMAIN m.num : q[1] \notin Ids(segs)}}

\* introduceMerge: the merged segment, unless nothing in it is live any more.
Merged(segs, m) ==
  LET deleted == DeletedSince(segs, m) \cup Vanished(segs, m)
  IN  IF Len(m.docs) > Cardinality(deleted)
        THEN {[id |-> m.id, docs |-> m.docs, deleted |-> deleted, persisted |-> TRUE]}
        ELSE {}

WithMerge(segs, m) ==
  NonEmpty({s \in segs : s.id \notin Ids(m.old)}) \cup Merged(segs, m)

=============================================================================
