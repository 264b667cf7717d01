------------------------- MODULE WriterLoopsProofs -------------------------
(***************************************************************************)
(* What a Close that returns no error leaves behind, for any number of      *)
(* callers, batches and failures: every batch is on disk, and the merger    *)
(* has planned the last root.                                              *)
(*                                                                         *)
(* Neither follows from how Close ended alone.  The invariant says what an  *)
(* answer of the persister means (Behind, Taken), that no batch comes in    *)
(* while Close drains (Held), and what is already settled after the first   *)
(* round (Settled) and after the second answer of the merger (Complete).    *)
(***************************************************************************)
EXTENDS WriterLoops, FiniteSetTheorems, TLAPS

Clean == closer.at \in {"stopping", "waiting", "closed"} /\ ~closer.err

\* Batches arrive one at a time, so the in-memory segments can be counted.
Finite == IsFiniteSet(root.mem)

\* The persister is never ahead of the root; when it is not behind, everything is
\* on disk.
Behind ==
  /\ persister.last <= root.epoch
  /\ persister.last = root.epoch => saved = root.upto /\ root.mem = {}

\* The same of the snapshot it is working on; without one it remembers none.
Taken ==
  /\ persister.pc # "working" => persister.snap = NoSnap
  /\ persister.pc = "working" =>
       /\ persister.snap.epoch <= root.epoch
       /\ persister.snap.epoch = root.epoch =>
            persister.snap.upto = root.upto /\ persister.snap.mem = root.mem

\* Once Close has mutationLock nobody is inside Batch.
Held ==
  /\ closer.at \in {"no", "locking"} => closer.round = 1
  /\ closer.at \notin {"no", "locking"} => \A w \in Writers : caller[w] = "idle"

\* The merger converges only for a Close that waits for it.
Draining ==
  merger.pc = "merging" /\ merger.drain => closer.at = "drain" /\ closer.sent

\* After the first answer of the persister nothing is left in memory, and it
\* stays so.
Settled ==
  (closer.at \in {"drain", "sync"} /\ closer.round = 2) \/ Clean =>
    /\ root.mem = {} /\ persister.snap.mem = {}
    /\ saved = root.upto
    /\ persister.pc = "working" => persister.snap.upto = root.upto

\* After the second answer of the merger the root does not change any more.
Complete ==
  (closer.at = "sync" /\ closer.round = 2) \/ Clean =>
    merger.pc # "merging" /\ merger.planned = root.epoch

IInv ==
  /\ TypeOK /\ Finite /\ Behind /\ Taken /\ Held /\ Draining /\ Settled /\ Complete

-----------------------------------------------------------------------------
(* The types of what several actions make *)

\* A new root.
LEMMA RootType ==
  ASSUME NEW r \in Roots, NEW epoch \in Nat, NEW mem \in SUBSET Nat, NEW files \in Nat
  PROVE  [r EXCEPT !.epoch = epoch, !.mem = mem, !.files = files] \in Roots
BY DEF Roots

\* A watcher that is received.
LEMMA ReceivedType ==
  ASSUME TypeOK, mWatch.at = "sent"
  PROVE  Received(mWatch, persister.last) \in Watchers
BY DEF TypeOK, Watchers, Received, Notified, Woken

\* A plan for the current root, whoever asked for it.
LEMMA PlannedType ==
  ASSUME TypeOK, NEW drain \in BOOLEAN, NEW tasks \in 0 .. root.files, Planned(drain, tasks)
  PROVE  merger' \in Mergers
<1>1. tasks \in Nat /\ root.epoch \in Nat
  BY DEF TypeOK, Roots
<1> QED
  BY <1>1 DEF TypeOK, Mergers, Planned

\* The merger when it has nothing to do.
LEMMA IdleType ==
  ASSUME TypeOK
  PROVE  Idle \in Mergers
BY DEF TypeOK, Mergers, Idle

\* An answer keeps Close between asking for the lock and having returned.
LEMMA AnsweredType ==
  ASSUME TypeOK, NEW err \in BOOLEAN
  PROVE  /\ Answered(err) \in Closers
         /\ closer.at \in {"drain", "sync"} =>
              Answered(err).at \in {"drain", "sync", "stopping"}
BY DEF TypeOK, Closers, Answered

-----------------------------------------------------------------------------
(* The invariant *)

\* A writer has just been opened: everything there is on disk.
LEMMA Initially == Init => IInv
<1> SUFFICES ASSUME Init PROVE IInv
  OBVIOUS
<1> PICK e \in {0, 1}, files \in 0 .. MaxFiles :
       /\ root = [epoch |-> e, mem |-> {}, files |-> files, upto |-> 0]
       /\ persister = [pc |-> "select", last |-> e, merged |-> 0, snap |-> NoSnap,
                       chans |-> {}, err |-> FALSE, timer |-> FALSE]
  BY DEF Init
<1> USE DEF Init
<1>1. TypeOK
  <2>1. root \in Roots
    BY WriterLoopsAssumption DEF Roots
  <2>2. persister \in Persisters /\ merger \in Mergers
    BY DEF Persisters, Mergers, Snaps, NoSnap
  <2>3. closer \in Closers /\ pWatch \in Watchers /\ mWatch \in Watchers
    BY DEF Closers, Watchers, Watcher
  <2> QED
    BY <2>1, <2>2, <2>3 DEF TypeOK
<1>2. Finite
  BY FS_EmptySet DEF Finite
<1>3. Behind /\ Taken /\ Held /\ Draining /\ Settled /\ Complete
  BY DEF Behind, Taken, Held, Draining, Settled, Complete, Clean, NoSnap
<1> QED
  BY <1>1, <1>2, <1>3 DEF IInv

\* A call of Batch starts, which Close has not been asked for yet.
LEMMA BatchStep ==
  ASSUME IInv, NEW w \in Writers, Batch(w)
  PROVE  IInv'
<1> USE DEF IInv, Batch
<1>1. TypeOK'
  BY DEF TypeOK
<1>2. Held'
  BY DEF Held
<1>3. Finite' /\ Behind' /\ Taken' /\ Draining' /\ Settled' /\ Complete'
  BY DEF Finite, Behind, Taken, Draining, Settled, Complete, Clean
<1> QED
  BY <1>1, <1>2, <1>3

\* A batch makes a new root, which the persister is behind of.  Close does not have the
\* lock, since a caller is inside Batch.
LEMMA IntroduceSegmentStep ==
  ASSUME IInv, NEW w \in Writers, IntroduceSegment(w)
  PROVE  IInv'
<1> USE DEF IInv, IntroduceSegment, Notified, Woken
<1>1. TypeOK'
  <2>1. root' \in Roots
    BY DEF TypeOK, Roots
  <2>2. pWatch' \in Watchers
    BY DEF TypeOK, Watchers
  <2> QED
    BY <2>1, <2>2 DEF TypeOK
<1>2. Finite'
  <2>1. IsFiniteSet(root.mem \cup {root.upto + 1})
    BY FS_AddElement DEF Finite
  <2>2. root'.mem \subseteq root.mem \cup {root.upto + 1}
    BY DEF TypeOK
  <2> QED
    BY <2>1, <2>2, FS_Subset DEF Finite
<1>3. Behind'
  BY DEF TypeOK, Persisters, Roots, Behind
<1>4. Taken'
  BY DEF TypeOK, Persisters, Snaps, Roots, Taken
<1>5. Held'
  BY DEF Held
<1>6. Settled'
  BY DEF Settled, Held, Clean
<1>7. Complete'
  BY DEF Complete, Held, Clean
<1>8. Draining'
  BY DEF Draining
<1> QED
  BY <1>1, <1>2, <1>3, <1>4, <1>5, <1>6, <1>7, <1>8

\* A batch that fails leaves the root as it is.
LEMMA IntroduceFailsStep ==
  ASSUME IInv, NEW w \in Writers, IntroduceFails(w)
  PROVE  IInv'
<1> USE DEF IInv, IntroduceFails, Returned
<1>1. TypeOK'
  BY DEF TypeOK
<1>2. Held'
  BY DEF Held
<1>3. Finite' /\ Behind' /\ Taken' /\ Draining' /\ Settled' /\ Complete'
  BY DEF Finite, Behind, Taken, Draining, Settled, Complete, Clean
<1> QED
  BY <1>1, <1>2, <1>3

\* Watchers say when a loop runs, not what it finds.
LEMMA IntroducerWatchStep ==
  ASSUME IInv, IntroducerWatch
  PROVE  IInv'
<1> USE DEF IInv, IntroducerWatch, Notified, Received, Woken, Watcher
<1>1. TypeOK'
  <2>1. pWatch' \in Watchers
    BY DEF TypeOK, Watchers
  <2> QED
    BY <2>1 DEF TypeOK
<1>2. Finite' /\ Behind' /\ Taken' /\ Held' /\ Draining' /\ Settled' /\ Complete'
  BY DEF Finite, Behind, Taken, Held, Draining, Settled, Complete, Clean
<1> QED
  BY <1>1, <1>2

\* The introducer leaves; nothing the invariant speaks of changes.
LEMMA IntroducerStopStep ==
  ASSUME IInv, IntroducerStop
  PROVE  IInv'
<1> USE DEF IInv, IntroducerStop
<1>1. TypeOK'
  BY DEF TypeOK
<1>2. Finite' /\ Behind' /\ Taken' /\ Held' /\ Draining' /\ Settled' /\ Complete'
  BY DEF Finite, Behind, Taken, Held, Draining, Settled, Complete, Clean
<1> QED
  BY <1>1, <1>2

\* A backoff is over, with the error still remembered.
LEMMA PersisterRetryStep ==
  ASSUME IInv, PersisterRetry
  PROVE  IInv'
<1> USE DEF IInv, PersisterRetry
<1>1. TypeOK'
  <2>1. persister' \in Persisters
    BY DEF TypeOK, Persisters
  <2> QED
    BY <2>1 DEF TypeOK
<1>2. Behind'
  BY DEF Behind
<1>3. Taken'
  BY DEF Taken
<1>4. Settled'
  BY DEF Settled, Clean
<1>5. Finite' /\ Held' /\ Draining' /\ Complete'
  BY DEF Finite, Held, Draining, Complete, Clean
<1> QED
  BY <1>1, <1>2, <1>3, <1>4, <1>5

\* An answer with an error ends in a Close with an error.
LEMMA PersisterSyncStep ==
  ASSUME IInv, PersisterSync
  PROVE  IInv'
<1> USE DEF IInv, PersisterSync, Answered
<1>1. TypeOK'
  <2>1. closer' \in Closers
    BY DEF TypeOK, Closers
  <2>2. persister' \in Persisters
    BY DEF TypeOK, Persisters
  <2> QED
    BY <2>1, <2>2 DEF TypeOK
<1>2. Behind'
  BY DEF TypeOK, Persisters, Behind
<1>3. Taken'
  BY DEF TypeOK, Persisters, Taken
<1>4. Held'
  BY DEF TypeOK, Closers, Held
<1>5. Draining'
  BY DEF Draining
<1>6. Settled'
  BY DEF TypeOK, Closers, Persisters, Settled, Clean
<1>7. Complete'
  BY DEF TypeOK, Closers, Complete, Clean
<1>8. Finite'
  BY DEF Finite
<1> QED
  BY <1>1, <1>2, <1>3, <1>4, <1>5, <1>6, <1>7, <1>8

\* The merger subscribes; only what the persister knows of it changes.
LEMMA PersisterWatchStep ==
  ASSUME IInv, PersisterWatch
  PROVE  IInv'
<1> USE DEF IInv, PersisterWatch, Notified, Received, Woken, Watcher
<1>1. TypeOK'
  <2>1. persister' \in Persisters
    BY DEF TypeOK, Persisters, Watchers
  <2>2. mWatch' \in Watchers
    BY DEF TypeOK, Watchers
  <2> QED
    BY <2>1, <2>2 DEF TypeOK
<1>2. Behind'
  BY DEF Behind
<1>3. Taken'
  BY DEF Taken
<1>4. Settled'
  BY DEF Settled, Clean
<1>5. Finite' /\ Held' /\ Draining' /\ Complete'
  BY DEF Finite, Held, Draining, Complete, Clean
<1> QED
  BY <1>1, <1>2, <1>3, <1>4, <1>5

\* The persister goes to its pause without a snapshot.
LEMMA PersisterWakeStep ==
  ASSUME IInv, PersisterWake
  PROVE  IInv'
<1> USE DEF IInv, PersisterWake, Notified, Woken
<1>1. TypeOK'
  <2>1. persister' \in Persisters
    BY DEF TypeOK, Persisters
  <2>2. mWatch' \in Watchers
    BY DEF TypeOK, Watchers
  <2> QED
    BY <2>1, <2>2 DEF TypeOK
<1>2. Behind'
  BY DEF Behind
<1>3. Taken'
  BY DEF Taken
<1>4. Settled'
  BY DEF Settled, Clean
<1>5. Finite' /\ Held' /\ Draining' /\ Complete'
  BY DEF Finite, Held, Draining, Complete, Clean
<1> QED
  BY <1>1, <1>2, <1>3, <1>4, <1>5

\* The nap ends, still without a snapshot.
LEMMA PersisterNapStep ==
  ASSUME IInv, PersisterNap
  PROVE  IInv'
<1> USE DEF IInv, PersisterNap, Notified, Received, Woken, Watcher
<1>1. TypeOK'
  <2>1. persister' \in Persisters
    BY DEF TypeOK, Persisters, Watchers
  <2>2. mWatch' \in Watchers
    BY DEF TypeOK, Watchers
  <2> QED
    BY <2>1, <2>2 DEF TypeOK
<1>2. Behind'
  BY DEF TypeOK, Persisters, Behind
<1>3. Taken'
  BY DEF TypeOK, Persisters, Taken
<1>4. Settled'
  BY DEF TypeOK, Persisters, Settled, Clean
<1>5. Finite' /\ Held' /\ Draining' /\ Complete'
  BY DEF Finite, Held, Draining, Complete, Clean
<1> QED
  BY <1>1, <1>2, <1>3, <1>4, <1>5

\* The pause goes on or ends, still without a snapshot.
LEMMA PersisterPauseStep ==
  ASSUME IInv, PersisterPause
  PROVE  IInv'
<1> USE DEF IInv, PersisterPause, Notified, Received, Woken, Watcher
<1>1. TypeOK'
  <2>1. CASE mWatch.at = "sent" /\ mWatch' = Received(mWatch, persister.last)
    <3>1. mWatch' \in Watchers
      BY <2>1, ReceivedType
    <3>2. persister' \in Persisters
      BY <2>1 DEF TypeOK, Persisters, Watchers
    <3> QED
      BY <3>1, <3>2 DEF TypeOK
  <2>2. CASE closed /\ UNCHANGED mWatch /\ persister' = [persister EXCEPT !.pc = "taking"]
    <3>1. persister' \in Persisters
      BY <2>2 DEF TypeOK, Persisters
    <3> QED
      BY <2>2, <3>1 DEF TypeOK
  <2> QED
    BY <2>1, <2>2
<1>2. Behind'
  BY DEF TypeOK, Persisters, Behind
<1>3. Taken'
  BY DEF TypeOK, Persisters, Taken
<1>4. Settled'
  BY DEF TypeOK, Persisters, Settled, Clean
<1>5. Finite' /\ Held' /\ Draining' /\ Complete'
  BY DEF Finite, Held, Draining, Complete, Clean
<1> QED
  BY <1>1, <1>2, <1>3, <1>4, <1>5

\* The snapshot that is taken is the root.
LEMMA PersisterTakeStep ==
  ASSUME IInv, PersisterTake
  PROVE  IInv'
<1> USE DEF IInv, PersisterTake
<1> DEFINE snap == [epoch |-> root.epoch, mem |-> root.mem, upto |-> root.upto]
<1>a. snap \in Snaps
  BY DEF TypeOK, Roots, Snaps
<1>b. \/ /\ persister' = [persister EXCEPT !.pc = "working", !.chans = told, !.snap = snap]
         /\ told' = {}
      \/ persister' = [persister EXCEPT !.pc = "subscribe"] /\ UNCHANGED told
  OBVIOUS
<1>c. persister' \in Persisters
  <2>1. CASE persister' = [persister EXCEPT !.pc = "working", !.chans = told, !.snap = snap]
    BY <1>a, <2>1 DEF TypeOK, Persisters
  <2>2. CASE persister' = [persister EXCEPT !.pc = "subscribe"]
    BY <2>2 DEF TypeOK, Persisters
  <2> QED
    BY <1>b, <2>1, <2>2
<1>1. TypeOK'
  BY <1>b, <1>c DEF TypeOK
<1>2. Behind'
  BY DEF TypeOK, Persisters, Behind
<1>3. Taken'
  <2>1. CASE persister' = [persister EXCEPT !.pc = "working", !.chans = told, !.snap = snap]
    <3>1. persister'.pc = "working" /\ persister'.snap = snap
      BY <2>1 DEF TypeOK
    <3> QED
      BY <3>1 DEF TypeOK, Roots, Taken
  <2>2. CASE persister' = [persister EXCEPT !.pc = "subscribe"]
    BY <2>2 DEF Taken
  <2> QED
    BY <1>b, <2>1, <2>2
<1>4. Settled'
  <2>1. CASE persister' = [persister EXCEPT !.pc = "working", !.chans = told, !.snap = snap]
    <3>1. persister'.pc = "working" /\ persister'.snap = snap
      BY <2>1 DEF TypeOK
    <3> QED
      BY <3>1 DEF Settled, Clean
  <2>2. CASE persister' = [persister EXCEPT !.pc = "subscribe"]
    BY <2>2 DEF Settled, Clean
  <2> QED
    BY <1>b, <2>1, <2>2
<1>5. Finite' /\ Held' /\ Draining' /\ Complete'
  BY DEF Finite, Held, Draining, Complete, Clean
<1> QED
  BY <1>1, <1>2, <1>3, <1>4, <1>5

\* The persister makes a new root and is behind of it again.
LEMMA PersisterIntroduceStep ==
  ASSUME IInv, PersisterIntroduce
  PROVE  IInv'
<1> USE DEF IInv, PersisterIntroduce, Notified, Woken
<1> DEFINE n == Cardinality(root.mem \cap persister.snap.mem)
<1>a. n \in Nat
  <2>1. IsFiniteSet(root.mem \cap persister.snap.mem)
    BY FS_Subset DEF Finite
  <2> QED
    BY <2>1, FS_CardinalityType
<1> PICK files \in {n, IF n = 0 THEN 0 ELSE 1} :
       root' = [root EXCEPT !.epoch = @ + 1, !.mem = @ \ persister.snap.mem,
                            !.files = @ + files]
  OBVIOUS
<1>b. files \in Nat
  BY <1>a
<1>1. TypeOK'
  <2>1. root' \in Roots
    <3>1. /\ root.epoch + 1 \in Nat /\ root.files + files \in Nat
          /\ root.mem \ persister.snap.mem \in SUBSET Nat
      BY <1>b DEF TypeOK, Roots
    <3> QED
      BY <3>1, RootType DEF TypeOK
  <2>2. persister' \in Persisters
    BY DEF TypeOK, Persisters, Snaps
  <2>3. pWatch' \in Watchers
    BY DEF TypeOK, Watchers
  <2> QED
    BY <2>1, <2>2, <2>3 DEF TypeOK
<1>2. Finite'
  <2>1. root'.mem \subseteq root.mem
    BY DEF TypeOK
  <2> QED
    BY <2>1, FS_Subset DEF Finite
<1>3. Behind'
  BY DEF TypeOK, Persisters, Roots, Behind
<1>4. Taken'
  BY DEF TypeOK, Persisters, Snaps, Roots, Taken
<1>5. Settled'
  BY DEF Settled, Clean
<1>6. Complete'
  BY DEF Complete, Settled, Clean
<1>7. Held' /\ Draining'
  BY DEF Held, Draining
<1> QED
  BY <1>1, <1>2, <1>3, <1>4, <1>5, <1>6, <1>7

\* If the root is still the snapshot, nothing was in memory when it was taken.
LEMMA PersistSucceedsStep ==
  ASSUME IInv, PersistSucceeds
  PROVE  IInv'
<1> USE DEF IInv, PersistSucceeds, Returned, NoSnap, Woken
<1>1. TypeOK'
  <2>1. persister' \in Persisters /\ saved' \in Nat
    BY DEF TypeOK, Persisters, Snaps
  <2>2. mWatch' \in Watchers
    BY DEF TypeOK, Watchers
  <2>3. caller' \in [Writers -> {"idle", "sending", "waiting"}]
    BY DEF TypeOK
  <2> QED
    BY <2>1, <2>2, <2>3 DEF TypeOK
<1>2. Behind'
  BY DEF Behind, Taken
<1>3. Taken'
  BY DEF Taken
<1>4. Held'
  BY DEF Held
<1>5. Settled'
  BY DEF Settled, Clean
<1>6. Finite' /\ Draining' /\ Complete'
  BY DEF Finite, Draining, Complete, Clean
<1> QED
  BY <1>1, <1>2, <1>3, <1>4, <1>5, <1>6

\* The snapshot is given up, and a Close that waits gets the error: it is not clean.
LEMMA PersistFailsStep ==
  ASSUME IInv, PersistFails
  PROVE  IInv'
<1> USE DEF IInv, PersistFails, Failed, Returned, Syncing, Answered, NoSnap
<1>1. TypeOK'
  <2>1. persister' \in Persisters
    BY DEF TypeOK, Persisters, Snaps
  <2>2. closer' \in Closers
    BY DEF TypeOK, Closers
  <2> QED
    BY <2>1, <2>2 DEF TypeOK
<1>2. Behind'
  BY DEF Behind
<1>3. Taken'
  BY DEF Taken
<1>4. Held'
  BY DEF Held
<1>5. Draining'
  BY DEF Draining
<1>6. Settled'
  BY DEF Settled, Clean
<1>7. Complete'
  BY DEF Complete, Clean
<1>8. Finite'
  BY DEF Finite
<1> QED
  BY <1>1, <1>2, <1>3, <1>4, <1>5, <1>6, <1>7, <1>8

\* The persister asks to be woken when the root is newer than what it persisted.
LEMMA PersisterSubscribeStep ==
  ASSUME IInv, PersisterSubscribe
  PROVE  IInv'
<1> USE DEF IInv, PersisterSubscribe, Watcher
<1>1. TypeOK'
  <2>1. persister' \in Persisters
    BY DEF TypeOK, Persisters
  <2>2. pWatch' \in Watchers
    BY DEF TypeOK, Watchers, Persisters
  <2> QED
    BY <2>1, <2>2 DEF TypeOK
<1>2. Behind'
  BY DEF Behind
<1>3. Taken'
  BY DEF Taken
<1>4. Settled'
  BY DEF Settled, Clean
<1>5. Finite' /\ Held' /\ Draining' /\ Complete'
  BY DEF Finite, Held, Draining, Complete, Clean
<1> QED
  BY <1>1, <1>2, <1>3, <1>4, <1>5

\* The persister answers Close when it is not behind the root.
LEMMA PersisterEndStep ==
  ASSUME IInv, PersisterEnd
  PROVE  IInv'
<1> USE DEF IInv, PersisterEnd, Syncing, Answered
<1>1. TypeOK'
  <2>1. closer' \in Closers
    BY DEF TypeOK, Closers
  <2>2. persister' \in Persisters
    BY DEF TypeOK, Persisters
  <2> QED
    BY <2>1, <2>2 DEF TypeOK
<1>2. Behind'
  BY DEF Behind
<1>3. Taken'
  BY DEF Taken
<1>4. Held'
  BY DEF Held
<1>5. Draining'
  BY DEF Draining
<1>6. Settled'
  <2>1. root.epoch = persister.last => root.mem = {} /\ saved = root.upto
    BY DEF Behind
  <2>2. persister.snap = NoSnap /\ persister'.snap = NoSnap /\ persister'.pc = "select"
    BY DEF Taken
  <2>3. CASE Syncing /\ root.epoch = persister.last
    BY <2>1, <2>2, <2>3 DEF Settled, NoSnap
  <2>4. CASE ~(Syncing /\ root.epoch = persister.last)
    BY <2>2, <2>4 DEF Settled, Clean, NoSnap
  <2> QED
    BY <2>3, <2>4
<1>7. Complete'
  BY DEF Complete, Clean
<1>8. Finite'
  BY DEF Finite
<1> QED
  BY <1>1, <1>2, <1>3, <1>4, <1>5, <1>6, <1>7, <1>8

\* A persister that leaves drops its snapshot; what is on disk stays.
LEMMA PersisterStopStep ==
  ASSUME IInv, PersisterStop
  PROVE  IInv'
<1> USE DEF IInv, PersisterStop, Returned, NoSnap
<1>1. TypeOK'
  <2>1. persister' \in Persisters
    BY DEF TypeOK, Persisters, Snaps
  <2> QED
    BY <2>1 DEF TypeOK
<1>2. Behind'
  BY DEF Behind
<1>3. Taken'
  BY DEF Taken
<1>4. Held'
  BY DEF Held
<1>5. Settled'
  BY DEF Settled, Clean
<1>6. Finite' /\ Draining' /\ Complete'
  BY DEF Finite, Draining, Complete, Clean
<1> QED
  BY <1>1, <1>2, <1>3, <1>4, <1>5, <1>6

\* A backoff is over, with the error still remembered.
LEMMA MergerRetryStep ==
  ASSUME IInv, MergerRetry
  PROVE  IInv'
<1> USE DEF IInv, MergerRetry
<1>1. TypeOK'
  <2>1. merger' \in Mergers
    BY DEF TypeOK, Mergers
  <2> QED
    BY <2>1 DEF TypeOK
<1>2. Draining'
  BY DEF Draining
<1>3. Complete'
  BY DEF Complete, Clean
<1>4. Finite' /\ Behind' /\ Taken' /\ Held' /\ Settled'
  BY DEF Finite, Behind, Taken, Held, Settled, Clean
<1> QED
  BY <1>1, <1>2, <1>3, <1>4

\* The merger takes on a Close that waits for it, or gives it the error.
LEMMA MergerDrainStep ==
  ASSUME IInv, MergerDrain
  PROVE  IInv'
<1> USE DEF IInv, MergerDrain, Answered, Planned
<1>1. TypeOK'
  <2>1. closer' \in Closers
    BY DEF TypeOK, Closers
  <2>2. merger' \in Mergers
    <3>1. CASE merger.err
      BY <3>1 DEF TypeOK
    <3>2. CASE ~merger.err
      <4> HIDE DEF Planned
      <4> PICK tasks \in 0 .. root.files : Planned(TRUE, tasks)
        BY <3>2
      <4> QED
        BY PlannedType
    <3> QED
      BY <3>1, <3>2
  <2> QED
    BY <2>1, <2>2 DEF TypeOK
<1>2. Held'
  BY DEF TypeOK, Closers, Held
<1>3. Draining'
  BY DEF TypeOK, Closers, Draining
<1>4. Settled'
  BY DEF TypeOK, Closers, Settled, Clean
<1>5. Complete'
  BY DEF TypeOK, Closers, Complete, Clean
<1>6. Finite' /\ Behind' /\ Taken'
  BY DEF Finite, Behind, Taken
<1> QED
  BY <1>1, <1>2, <1>3, <1>4, <1>5, <1>6

\* A merger that has planned the root does not plan it again.
LEMMA MergerWakeStep ==
  ASSUME IInv, MergerWake
  PROVE  IInv'
<1> USE DEF IInv, MergerWake, Planned
<1>1. TypeOK'
  <2>1. merger' \in Mergers
    <3>1. CASE root.epoch # merger.planned
      <4> HIDE DEF Planned
      <4> PICK tasks \in 0 .. root.files : Planned(FALSE, tasks)
        BY <3>1
      <4> QED
        BY PlannedType
    <3>2. CASE root.epoch = merger.planned
      BY <3>2 DEF TypeOK, Mergers
    <3> QED
      BY <3>1, <3>2
  <2> QED
    BY <2>1 DEF TypeOK
<1>2. Draining'
  BY DEF TypeOK, Mergers, Draining
<1>3. Complete'
  BY DEF TypeOK, Mergers, Complete, Clean
<1>4. Finite' /\ Behind' /\ Taken' /\ Held' /\ Settled'
  BY DEF Finite, Behind, Taken, Held, Settled, Clean
<1> QED
  BY <1>1, <1>2, <1>3, <1>4

\* A merge makes a new root with the same batches.
LEMMA MergerMergeStep ==
  ASSUME IInv, MergerMerge
  PROVE  IInv'
<1> USE DEF IInv, MergerMerge, Notified, Woken
<1> PICK files \in 0 .. root.files : root' = [root EXCEPT !.epoch = @ + 1, !.files = files]
  OBVIOUS
<1>a. files \in Nat
  BY DEF TypeOK
<1>1. TypeOK'
  <2>1. root' \in Roots
    <3>1. root' = [root EXCEPT !.epoch = @ + 1, !.mem = root.mem, !.files = files]
      BY DEF TypeOK
    <3>2. root.epoch + 1 \in Nat /\ root.mem \in SUBSET Nat
      BY DEF TypeOK, Roots
    <3>3. [root EXCEPT !.epoch = root.epoch + 1, !.mem = root.mem, !.files = files] \in Roots
      BY <1>a, <3>2, RootType DEF TypeOK
    <3> QED
      BY <3>1, <3>3
  <2>2. merger' \in Mergers
    BY DEF TypeOK, Mergers
  <2>3. pWatch' \in Watchers
    BY DEF TypeOK, Watchers
  <2> QED
    BY <2>1, <2>2, <2>3 DEF TypeOK
<1>2. Finite'
  BY DEF Finite
<1>3. Behind'
  BY DEF TypeOK, Persisters, Roots, Behind
<1>4. Taken'
  BY DEF TypeOK, Persisters, Snaps, Roots, Taken
<1>5. Draining'
  BY DEF Draining
<1>6. Settled'
  BY DEF Settled, Clean
<1>7. Complete'
  BY DEF Complete, Clean
<1>8. Held'
  BY DEF Held
<1> QED
  BY <1>1, <1>2, <1>3, <1>4, <1>5, <1>6, <1>7, <1>8

\* A merge fails: a Close that waits gets the error and is not clean.
LEMMA MergerFailsStep ==
  ASSUME IInv, MergerFails
  PROVE  IInv'
<1> USE DEF IInv, MergerFails, Answered, Idle
<1>1. TypeOK'
  <2>1. closer' \in Closers
    BY DEF TypeOK, Closers
  <2>2. merger' \in Mergers
    <3>1. merger' = Idle \/ merger' = [Idle EXCEPT !.err = TRUE, !.timer = TRUE]
      OBVIOUS
    <3>2. Idle \in Mergers
      BY IdleType
    <3> HIDE DEF Idle
    <3> QED
      BY <3>1, <3>2 DEF Mergers
  <2> QED
    BY <2>1, <2>2 DEF TypeOK
<1>2. Held'
  <2>1. closer'.at \notin {"no", "locking"} <=> closer.at \notin {"no", "locking"}
    BY AnsweredType DEF Draining
  <2>2. closer'.at \in {"no", "locking"} => closer' = closer
    BY AnsweredType DEF Draining
  <2> QED
    BY <2>1, <2>2 DEF Held
<1>3. Draining'
  BY DEF TypeOK, Mergers, Draining
<1>4. Settled'
  BY DEF TypeOK, Closers, Settled, Clean
<1>5. Complete'
  BY DEF TypeOK, Closers, Complete, Clean
<1>6. Finite' /\ Behind' /\ Taken'
  BY DEF Finite, Behind, Taken
<1> QED
  BY <1>1, <1>2, <1>3, <1>4, <1>5, <1>6

\* The merger answers Close when it has planned the root.
LEMMA MergerDoneStep ==
  ASSUME IInv, MergerDone
  PROVE  IInv'
<1> USE DEF IInv, MergerDone, Answered, Idle, Planned
<1>a. \/ /\ ~merger.drain
         /\ merger' = [Idle EXCEPT !.pc = "subscribe", !.planned = merger.snap,
                                   !.err = FALSE, !.timer = FALSE]
         /\ UNCHANGED closer
      \/ /\ merger.drain /\ root.epoch = merger.snap
         /\ merger' = [Idle EXCEPT !.planned = merger.snap]
         /\ closer' = Answered(FALSE)
      \/ /\ merger.drain /\ root.epoch # merger.snap
         /\ \E tasks \in 0 .. root.files : Planned(TRUE, tasks)
         /\ UNCHANGED closer
  OBVIOUS
<1>b. UNCHANGED closer \/ (closer.at = "drain" /\ closer.sent /\ closer' = Answered(FALSE))
  BY <1>a DEF Draining
<1>1. TypeOK'
  <2>1. closer' \in Closers
    <3> HIDE DEF Answered
    <3> QED
      BY <1>b, AnsweredType DEF TypeOK
  <2>2. merger' \in Mergers
    <3>1. Idle \in Mergers /\ merger.snap \in Nat
      BY IdleType DEF TypeOK, Mergers
    <3> HIDE DEF Idle, Planned
    <3>2. CASE merger' = [Idle EXCEPT !.pc = "subscribe", !.planned = merger.snap,
                                      !.err = FALSE, !.timer = FALSE]
      BY <3>1, <3>2 DEF Mergers
    <3>3. CASE merger' = [Idle EXCEPT !.planned = merger.snap]
      BY <3>1, <3>3 DEF Mergers
    <3>4. CASE \E tasks \in 0 .. root.files : Planned(TRUE, tasks)
      BY <3>4, PlannedType
    <3> QED
      BY <1>a, <3>2, <3>3, <3>4
  <2> QED
    BY <2>1, <2>2 DEF TypeOK
<1>2. Held'
  <2>1. CASE UNCHANGED closer
    BY <2>1 DEF Held
  <2>2. CASE closer.at = "drain" /\ closer.sent /\ closer' = Answered(FALSE)
    BY <2>2 DEF TypeOK, Closers, Held
  <2> QED
    BY <1>b, <2>1, <2>2
<1>3. Draining'
  BY DEF TypeOK, Mergers, Draining
<1>4. Settled'
  <2>1. CASE UNCHANGED closer
    BY <2>1 DEF Settled, Clean
  <2>2. CASE closer.at = "drain" /\ closer.sent /\ closer' = Answered(FALSE)
    <3>1. closer'.at = "sync" /\ closer'.round = closer.round
      BY <2>2 DEF TypeOK, Closers
    <3> QED
      BY <2>2, <3>1 DEF Settled, Clean
  <2> QED
    BY <1>b, <2>1, <2>2
<1>5. Complete'
  BY DEF TypeOK, Mergers, Complete, Clean
<1>6. Finite' /\ Behind' /\ Taken'
  BY DEF Finite, Behind, Taken
<1> QED
  BY <1>1, <1>2, <1>3, <1>4, <1>5, <1>6

\* The merger asks to be woken when something newer than its plan is persisted.
LEMMA MergerSubscribeStep ==
  ASSUME IInv, MergerSubscribe
  PROVE  IInv'
<1> USE DEF IInv, MergerSubscribe, Watcher
<1>1. TypeOK'
  <2>1. merger' \in Mergers
    BY DEF TypeOK, Mergers
  <2>2. mWatch' \in Watchers
    BY DEF TypeOK, Watchers, Mergers
  <2> QED
    BY <2>1, <2>2 DEF TypeOK
<1>2. Draining'
  BY DEF Draining
<1>3. Complete'
  BY DEF Complete, Clean
<1>4. Finite' /\ Behind' /\ Taken' /\ Held' /\ Settled'
  BY DEF Finite, Behind, Taken, Held, Settled, Clean
<1> QED
  BY <1>1, <1>2, <1>3, <1>4

\* A merger that leaves gives up its plan, not what it has planned.
LEMMA MergerStopStep ==
  ASSUME IInv, MergerStop
  PROVE  IInv'
<1> USE DEF IInv, MergerStop, Idle
<1>1. TypeOK'
  <2>1. merger' \in Mergers
    BY DEF TypeOK, Mergers
  <2> QED
    BY <2>1 DEF TypeOK
<1>2. Draining'
  BY DEF Draining
<1>3. Complete'
  BY DEF Complete, Clean
<1>4. Finite' /\ Behind' /\ Taken' /\ Held' /\ Settled'
  BY DEF Finite, Behind, Taken, Held, Settled, Clean
<1> QED
  BY <1>1, <1>2, <1>3, <1>4

\* Close moves on, from one of these places to the next.
LEMMA CloseStartStep ==
  ASSUME IInv, CloseStart
  PROVE  IInv'
<1> USE DEF IInv, CloseStart, Closing
<1>1. TypeOK'
  <2>1. closer' \in Closers
    BY DEF TypeOK, Closers
  <2> QED
    BY <2>1 DEF TypeOK
<1>2. Held'
  BY DEF Held
<1>3. Draining'
  BY DEF Draining
<1>4. Settled'
  BY DEF Settled, Clean
<1>5. Complete'
  BY DEF Complete, Clean
<1>6. Finite' /\ Behind' /\ Taken'
  BY DEF Finite, Behind, Taken
<1> QED
  BY <1>1, <1>2, <1>3, <1>4, <1>5, <1>6

\* Close gets the lock when nobody is inside Batch.
LEMMA CloseLockStep ==
  ASSUME IInv, CloseLock
  PROVE  IInv'
<1> USE DEF IInv, CloseLock, Closing
<1>1. TypeOK'
  <2>1. closer' \in Closers
    BY DEF TypeOK, Closers
  <2> QED
    BY <2>1 DEF TypeOK
<1>2. Held'
  BY DEF Held
<1>3. Draining'
  BY DEF Draining
<1>4. Settled'
  BY DEF Settled, Held, Clean
<1>5. Complete'
  BY DEF Complete, Clean
<1>6. Finite' /\ Behind' /\ Taken'
  BY DEF Finite, Behind, Taken
<1> QED
  BY <1>1, <1>2, <1>3, <1>4, <1>5, <1>6

\* The loops are told to stop.
LEMMA CloseStopStep ==
  ASSUME IInv, CloseStop
  PROVE  IInv'
<1> USE DEF IInv, CloseStop, Closing
<1>1. TypeOK'
  <2>1. closer' \in Closers
    BY DEF TypeOK, Closers
  <2> QED
    BY <2>1 DEF TypeOK
<1>2. Held'
  BY DEF Held
<1>3. Draining'
  BY DEF Draining
<1>4. Settled'
  BY DEF Settled, Clean
<1>5. Complete'
  BY DEF Complete, Clean
<1>6. Finite' /\ Behind' /\ Taken'
  BY DEF Finite, Behind, Taken
<1> QED
  BY <1>1, <1>2, <1>3, <1>4, <1>5, <1>6

\* Close returns what it was told.
LEMMA CloseDoneStep ==
  ASSUME IInv, CloseDone
  PROVE  IInv'
<1> USE DEF IInv, CloseDone, Closing
<1>1. TypeOK'
  <2>1. closer' \in Closers
    BY DEF TypeOK, Closers
  <2> QED
    BY <2>1 DEF TypeOK
<1>2. Held'
  BY DEF Held
<1>3. Draining'
  BY DEF Draining
<1>4. Settled'
  BY DEF Settled, Clean
<1>5. Complete'
  BY DEF Complete, Clean
<1>6. Finite' /\ Behind' /\ Taken'
  BY DEF Finite, Behind, Taken
<1> QED
  BY <1>1, <1>2, <1>3, <1>4, <1>5, <1>6

\* Every step keeps the invariant.
LEMMA Inductive == IInv /\ [Next]_vars => IInv'
<1> SUFFICES ASSUME IInv, [Next]_vars PROVE IInv'
  OBVIOUS
<1>1. ASSUME NEW w \in Writers, Batch(w) PROVE IInv'
  BY <1>1, BatchStep
<1>2. CASE Introducer
  <2>1. ASSUME NEW w \in Writers, IntroduceSegment(w) PROVE IInv'
    BY <2>1, IntroduceSegmentStep
  <2>2. ASSUME NEW w \in Writers, IntroduceFails(w) PROVE IInv'
    BY <2>2, IntroduceFailsStep
  <2> QED
    BY <1>2, <2>1, <2>2, IntroducerWatchStep, IntroducerStopStep DEF Introducer
<1>3. CASE Persister
  BY <1>3, PersisterRetryStep, PersisterSyncStep, PersisterWatchStep, PersisterWakeStep,
     PersisterNapStep, PersisterPauseStep, PersisterTakeStep, PersisterIntroduceStep,
     PersistSucceedsStep, PersistFailsStep, PersisterSubscribeStep, PersisterEndStep,
     PersisterStopStep DEF Persister
<1>4. CASE Merger
  BY <1>4, MergerRetryStep, MergerDrainStep, MergerWakeStep, MergerMergeStep,
     MergerFailsStep, MergerDoneStep, MergerSubscribeStep, MergerStopStep DEF Merger
<1>5. CASE CloseStart \/ Close
  BY <1>5, CloseStartStep, CloseLockStep, CloseStopStep, CloseDoneStep DEF Close
<1>6. CASE UNCHANGED vars
  BY <1>6 DEF vars, IInv, TypeOK, Finite, Behind, Taken, Held, Draining, Settled, Complete, Clean
<1> QED
  BY <1>1, <1>2, <1>3, <1>4, <1>5, <1>6 DEF Next

\* The invariant holds in every state of every behaviour.
LEMMA Invariance == Spec => []IInv
  BY Initially, Inductive, PTL DEF Spec

\* The type invariant of WriterLoops.
THEOREM Typed == Spec => []TypeOK
<1>1. IInv => TypeOK
  BY DEF IInv
<1> QED
  BY <1>1, Invariance, PTL

\* A Close that returns no error leaves every batch on disk, whatever callers,
\* persists, merges and failures it met (writer.go:262-281).
THEOREM CloseIsDurable == Spec => []CleanCloseIsDurable
<1>1. IInv => CleanCloseIsDurable
  BY DEF IInv, Settled, Clean, CleanCloseIsDurable
<1> QED
  BY <1>1, Invariance, PTL

\* A Close that returns no error leaves a root that the merger has planned.
THEOREM CloseIsPlanned == Spec => []CleanCloseIsPlanned
<1>1. IInv => CleanCloseIsPlanned
  BY DEF IInv, Complete, Clean, CleanCloseIsPlanned
<1> QED
  BY <1>1, Invariance, PTL

=============================================================================
