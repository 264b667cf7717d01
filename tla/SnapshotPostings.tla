-------------------------- MODULE SnapshotPostings --------------------------
(***************************************************************************)
(* The postings iterators of a snapshot (index/snapshot.go, postings.go):   *)
(* one puts together the iterators of the segments, and when a search       *)
(* closes it, the snapshot keeps it for the next search in the same field,  *)
(* as long as the snapshot is the newest.  Iterators are pointers to structs, *)
(* which hold slices with the iterators of the segments: Advance may copy    *)
(* one struct over another, and then both have the same slices.             *)
(***************************************************************************)
EXTENDS Integers, Sequences, FiniteSets, FiniteSetsExt, SequencesExt

CONSTANTS Searches,  \* which run side by side
          Offsets,   \* the first document of each segment, a sequence
          TermDocs,  \* the documents of each term, a sequence of sets
          DocCount,  \* documents are 0 .. DocCount - 1
          MaxOpens   \* bound: iterators opened

ASSUME SnapshotPostingsAssumption ==
  /\ Offsets \in Seq(Nat) /\ DocCount \in Nat /\ MaxOpens \in Nat
  /\ TermDocs \in Seq(SUBSET (0 .. DocCount - 1))

VARIABLES
  objects,  \* the iterators: [term, offset, curr, array], numbered as they are opened
  arrays,   \* their slices: of each segment the documents that are left
  pool,     \* fieldTFRs of the field: a sequence of objects, the last one is used first
  using,    \* of each search: its iterator, or 0
  newest,   \* whether the snapshot's epoch is the writer's
  own,      \* ghost: what each search's iterator would be if nobody else had it
  replies,  \* of each search: what it got last, and ghost: what it should have got
  opens,
  rewound   \* ghost: iterators that were recycled while in use, or copied from such

iteratorsVars == <<objects, arrays, pool, using, newest, own, replies, opens, rewound>>

-----------------------------------------------------------------------------
(* One iterator *)

\* segmentIndexAndLocalDocNumFromGlobal.
SegmentAt(n) == Max({k \in DOMAIN Offsets : Offsets[k] <= n})

\* PostingsIterator: a new iterator, or what is left of one that was used before.
Fresh(t) ==
  [term |-> t, offset |-> 1, curr |-> -1,
   left |-> [k \in DOMAIN Offsets |-> {d \in TermDocs[t] : SegmentAt(d) = k}]]

Prepared(old, t) == Fresh(t)

\* Next.
Following(i) ==
  LET ks == {k \in DOMAIN Offsets : k >= i.offset /\ i.left[k] # {}}
      k  == Min(ks)
      d  == Min(i.left[k])
  IN  IF ks = {} THEN [i |-> [i EXCEPT !.offset = Len(Offsets) + 1], doc |-> -1]
      ELSE [i |-> [i EXCEPT !.offset = k, !.curr = d, !.left[k] = @ \ {d}], doc |-> d]

\* Advance, once the iterator does not have to go backwards: straight to the segment.
Onwards(i, n) ==
  LET k == SegmentAt(n)
  IN  Following([i EXCEPT !.offset = k, !.left[k] = {d \in @ : d >= n}])

Backwards(i, n) == i.curr # -1 /\ i.curr >= n

-----------------------------------------------------------------------------

(* Objects and slices *)

At(p) ==
  [term |-> objects[p].term, offset |-> objects[p].offset, curr |-> objects[p].curr,
   left |-> arrays[objects[p].array]]

Struct(i, a) == [term |-> i.term, offset |-> i.offset, curr |-> i.curr, array |-> a]

\* allocPostingsIterator: the one recycled last, or a new one.
Allocated == IF pool # <<>> THEN Last(pool) ELSE opens + 1

\* Mutant: it stays in the pool.
PoppedButKept(some) == some

Popped(some) == IF some # <<>> THEN Front(some) ELSE some

\* recyclePostingsIterator.
Recycled(some, p) == IF newest THEN Append(some, p) ELSE some

-----------------------------------------------------------------------------

IteratorsInit ==
  /\ objects = [p \in 1 .. MaxOpens |-> Struct(Fresh(1), p)]
  /\ arrays = [a \in 1 .. MaxOpens |-> Fresh(1).left]
  /\ pool = <<>> /\ using = [s \in Searches |-> 0] /\ newest = TRUE
  /\ own = [s \in Searches |-> Fresh(1)] /\ replies = [s \in Searches |-> <<-1, -1>>]
  /\ opens = 0 /\ rewound = {}

\* PostingsIterator.
OpenIt(s, t) ==
  LET p == Allocated
      a == objects[p].array
      i == Prepared(At(p), t)
  IN  /\ using[s] = 0 /\ opens < MaxOpens
      /\ objects' = [objects EXCEPT ![p] = Struct(i, a)]
      /\ arrays' = [arrays EXCEPT ![a] = i.left]
      /\ pool' = Popped(pool) /\ using' = [using EXCEPT ![s] = p]
      /\ own' = [own EXCEPT ![s] = Fresh(t)]
      /\ replies' = [replies EXCEPT ![s] = <<-1, -1>>]
      /\ opens' = opens + 1
      /\ UNCHANGED <<newest, rewound>>

AskNext(s) ==
  LET p    == using[s]
      a    == objects[p].array
      got  == Following(At(p))
      true == Following(own[s])
  IN  /\ p # 0
      /\ objects' = [objects EXCEPT ![p] = Struct(got.i, a)]
      /\ arrays' = [arrays EXCEPT ![a] = got.i.left]
      /\ own' = [own EXCEPT ![s] = true.i]
      /\ replies' = [replies EXCEPT ![s] = <<got.doc, true.doc>>]
      /\ UNCHANGED <<pool, using, newest, opens, rewound>>

\* What Advance does to the ghosts of a search.
AdvancesTo(s, n, doc) ==
  LET true == Onwards(IF Backwards(own[s], n) THEN Fresh(own[s].term) ELSE own[s], n)
  IN  /\ own' = [own EXCEPT ![s] = true.i]
      /\ replies' = [replies EXCEPT ![s] = <<doc, true.doc>>]

AskAdvance(s, n) ==
  LET p   == using[s]
      a   == objects[p].array
      got == Onwards(At(p), n)
  IN  /\ p # 0 /\ ~Backwards(At(p), n)
      /\ objects' = [objects EXCEPT ![p] = Struct(got.i, a)]
      /\ arrays' = [arrays EXCEPT ![a] = got.i.left]
      /\ AdvancesTo(s, n, got.doc)
      /\ UNCHANGED <<pool, using, newest, opens, rewound>>

\* Advance, backwards: another iterator is opened, this one is closed, the other one is
\* copied into it, slices and all, and goes on.
AskRewind(s, n) ==
  LET p   == using[s]
      q   == Allocated
      a   == objects[q].array
      i   == Prepared(At(q), objects[p].term)
      got == Onwards(i, n)
  IN  /\ p # 0 /\ Backwards(At(p), n) /\ opens < MaxOpens
      /\ objects' = [objects EXCEPT ![q] = Struct(i, a), ![p] = Struct(got.i, a)]
      /\ arrays' = [arrays EXCEPT ![a] = got.i.left]
      /\ pool' = Recycled(Popped(pool), p)
      /\ AdvancesTo(s, n, got.doc)
      /\ opens' = opens + 1
      /\ rewound' = IF newest \/ q \in rewound THEN rewound \cup {p} ELSE rewound
      /\ UNCHANGED <<using, newest>>

\* Close.
CloseIt(s) ==
  /\ using[s] # 0
  /\ pool' = Recycled(pool, using[s])
  /\ using' = [using EXCEPT ![s] = 0]
  /\ own' = [own EXCEPT ![s] = Fresh(1)] /\ replies' = [replies EXCEPT ![s] = <<-1, -1>>]
  /\ UNCHANGED <<objects, arrays, newest, opens, rewound>>

\* replaceRoot.
RootMovesOn ==
  /\ newest /\ newest' = FALSE
  /\ UNCHANGED <<objects, arrays, pool, using, own, replies, opens, rewound>>

IteratorsNext ==
  \/ RootMovesOn
  \/ \E s \in Searches :
       \/ AskNext(s) \/ CloseIt(s)
       \/ \E t \in DOMAIN TermDocs : OpenIt(s, t)
       \/ \E n \in 0 .. DocCount - 1 : AskAdvance(s, n) \/ AskRewind(s, n)

IteratorsSpec == IteratorsInit /\ [][IteratorsNext]_iteratorsVars

-----------------------------------------------------------------------------
(* Properties *)

\* A search finds what it would find if its iterator were new and nobody else's, whatever
\* searches ran before or run beside it, and whatever becomes of theirs.  Excepted is only
\* an iterator that itself went backwards in the newest snapshot, which offers it to
\* others, or that was copied from such a one: no other search is disturbed by it.
SearchesDoNotMeet ==
  \A s \in Searches : using[s] \notin rewound => replies[s][1] = replies[s][2]
=============================================================================
