---------------------------- MODULE WriterLoops ----------------------------
(***************************************************************************)
(* How the goroutines of the writer wait for one another: introducerLoop,   *)
(* persisterLoop and mergerLoop, the watchers they leave with each other    *)
(* (index/communication.go), the backoff after a failure (index/retry.go),  *)
(* the pause of a persister that is ahead of the merger, callers of Batch,  *)
(* and Close, which drains both loops before it stops them.                 *)
(*                                                                         *)
(* What is in the segments is left out: a root is its epoch, the in-memory  *)
(* segments it has (named by their batch) and how many persisted ones.      *)
(* File operations may fail any number of times.                            *)
(***************************************************************************)
EXTENDS Naturals, FiniteSets

CONSTANTS Writers,     \* goroutines calling Batch
          Threshold,   \* Config.PersisterNapUnderNumFiles
          MaxFiles,    \* bound: persisted segments in the index that is opened
          MaxBatches   \* bound: calls of Batch

ASSUME WriterLoopsAssumption ==
  Threshold \in Nat \ {0} /\ MaxFiles \in Nat /\ MaxBatches \in Nat

VARIABLES
  unsafe,      \* Config.UnsafeBatch
  root,        \* [epoch, mem, files, upto]
  saved,       \* ghost: how many batches the last snapshot on disk holds
  tried,       \* calls of Batch so far
  caller,      \* where each caller of Batch is
  told,        \* Writer.rootPersisted: callers to tell when this root is persisted
  closer,      \* where Close is: [at, round, sent, err]
  closed,      \* closeCh is closed
  introducer,  \* "running" or "exited"
  persister,   \* [pc, last, merged, snap, chans, err, timer]
  merger,      \* [pc, planned, snap, tasks, drain, err, timer]
  pWatch,      \* the persister's watcher with the introducer: [at, epoch]
  mWatch       \* the merger's watcher with the persister

vars == <<unsafe, root, saved, tried, caller, told, closer, closed, introducer,
          persister, merger, pWatch, mWatch>>

-----------------------------------------------------------------------------
(* Watchers, and the answers that Close waits for *)

\* A watcher is "sent" through a channel with room for it, "held" by the loop on
\* the other side, and "woken" when that closes notifyCh.  Each loop has one,
\* and registers the next only when it was woken.
Watcher(epoch) == [at |-> "sent", epoch |-> epoch]

Woken == [at |-> "woken", epoch |-> 0]

\* NotifySatisfiedWatchers.
Notified(watch, epoch) ==
  IF watch.at = "held" /\ watch.epoch < epoch THEN Woken ELSE watch

\* Mutant: only new events wake a watcher.
ReceivedAsleep(watch, epoch) == [watch EXCEPT !.at = "held"]

\* Add, and NotifySatisfiedWatchers at the end of the loop that received it.
Received(watch, epoch) == Notified([watch EXCEPT !.at = "held"], epoch)

\* Mutant: the merger is not drained again after the persister.
AnsweredOnce(err) ==
  IF err \/ closer.at = "sync"
    THEN [closer EXCEPT !.at = "stopping", !.sent = FALSE, !.err = err]
    ELSE [closer EXCEPT !.at = "sync", !.sent = FALSE]

\* Close gets an answer: drainMerges, syncPersister and both once more, unless
\* one of them fails.
Answered(err) ==
  IF err \/ (closer.at = "sync" /\ closer.round = 2)
    THEN [closer EXCEPT !.at = "stopping", !.sent = FALSE, !.err = err]
    ELSE IF closer.at = "drain"
      THEN [closer EXCEPT !.at = "sync", !.sent = FALSE]
      ELSE [closer EXCEPT !.at = "drain", !.sent = FALSE, !.round = 2]

Returned(ws) == [w \in Writers |-> IF w \in ws THEN "idle" ELSE caller[w]]

NoSnap == [epoch |-> 0, mem |-> {}, upto |-> 0]

\* A new writer on an empty directory, or on one whose newest snapshot is 1.
Init ==
  /\ unsafe \in BOOLEAN
  /\ \E e \in {0, 1}, files \in 0 .. MaxFiles :
       /\ e = 0 => files = 0
       /\ root = [epoch |-> e, mem |-> {}, files |-> files, upto |-> 0]
       /\ persister = [pc |-> "select", last |-> e, merged |-> 0, snap |-> NoSnap,
                       chans |-> {}, err |-> FALSE, timer |-> FALSE]
  /\ saved = 0 /\ tried = 0
  /\ caller = [w \in Writers |-> "idle"] /\ told = {}
  /\ closer = [at |-> "no", round |-> 1, sent |-> FALSE, err |-> FALSE] /\ closed = FALSE
  /\ introducer = "running"
  /\ merger = [pc |-> "select", planned |-> 0, snap |-> 0, tasks |-> 0,
               drain |-> FALSE, err |-> FALSE, timer |-> FALSE]
  /\ pWatch = Watcher(0) /\ mWatch = Watcher(0)

-----------------------------------------------------------------------------
(* Batch.  A caller holds mutationLock until it returns; a call after Close     *)
(* asked for the lock returns ErrClosed in the end and changes nothing.         *)

Batch(w) ==
  /\ caller[w] = "idle" /\ closer.at = "no" /\ tried < MaxBatches
  /\ caller' = [caller EXCEPT ![w] = "sending"]
  /\ tried' = tried + 1
  /\ UNCHANGED <<unsafe, root, saved, told, closer, closed, introducer, persister,
                 merger, pWatch, mWatch>>

\* introducerLoop takes the batch; segments with nothing live left in them leave.
IntroduceSegment(w) ==
  /\ introducer = "running" /\ caller[w] = "sending"
  /\ \E mem \in SUBSET (root.mem \cup {root.upto + 1}), files \in 0 .. root.files :
       root' = [epoch |-> root.epoch + 1, mem |-> mem, files |-> files,
                upto |-> root.upto + 1]
  /\ caller' = [caller EXCEPT ![w] = IF unsafe THEN "idle" ELSE "waiting"]
  /\ told' = IF unsafe THEN told ELSE told \cup {w}
  /\ pWatch' = Notified(pWatch, root'.epoch)
  /\ UNCHANGED <<unsafe, saved, tried, closer, closed, introducer, persister, merger, mWatch>>

\* introduceSegment cannot read a segment and wakes nobody.
IntroduceFails(w) ==
  /\ introducer = "running" /\ caller[w] = "sending"
  /\ root.mem # {} \/ root.files > 0
  /\ caller' = Returned({w})
  /\ UNCHANGED <<unsafe, root, saved, tried, told, closer, closed, introducer,
                 persister, merger, pWatch, mWatch>>

-----------------------------------------------------------------------------
(* introducerLoop *)

IntroducerWatch ==
  /\ introducer = "running" /\ pWatch.at = "sent"
  /\ pWatch' = Received(pWatch, root.epoch)
  /\ UNCHANGED <<unsafe, root, saved, tried, caller, told, closer, closed, introducer,
                 persister, merger, mWatch>>

IntroducerStop ==
  /\ closed /\ introducer = "running"
  /\ introducer' = "exited"
  /\ UNCHANGED <<unsafe, root, saved, tried, caller, told, closer, closed, persister,
                 merger, pWatch, mWatch>>

-----------------------------------------------------------------------------
(* persisterLoop *)

\* retryCh: the backoff is over, the error stays until something succeeds.
PersisterRetry ==
  /\ persister.pc = "select" /\ persister.timer
  /\ persister' = [persister EXCEPT !.timer = FALSE]
  /\ UNCHANGED <<unsafe, root, saved, tried, caller, told, closer, closed, introducer,
                 merger, pWatch, mWatch>>

\* persistSyncs: syncPersister is told an outstanding error, or has to wait.
PersisterSync ==
  /\ persister.pc = "select" /\ closer.at = "sync" /\ ~closer.sent
  /\ IF persister.err
       THEN closer' = Answered(TRUE) /\ UNCHANGED persister
       ELSE /\ closer' = [closer EXCEPT !.sent = TRUE]
            /\ persister' = [persister EXCEPT !.pc = "end"]
  /\ UNCHANGED <<unsafe, root, saved, tried, caller, told, closed, introducer, merger,
                 pWatch, mWatch>>

\* The merger's watcher arrives.
PersisterWatch ==
  /\ persister.pc = "select" /\ mWatch.at = "sent"
  /\ mWatch' = Received(mWatch, persister.last)
  /\ persister' = [persister EXCEPT !.pc = "end", !.merged = mWatch.epoch]
  /\ UNCHANGED <<unsafe, root, saved, tried, caller, told, closer, closed, introducer,
                 merger, pWatch>>

\* What the directory says of the number of files: those of the root are there,
\* and there may be others.
ManyFiles == IF root.files >= Threshold THEN {TRUE} ELSE BOOLEAN

\* The introducer woke us, and we are not in a backoff: the start of
\* pausePersisterForMergerCatchUp.
PersisterWake ==
  /\ persister.pc = "select" /\ ~persister.timer /\ pWatch.at = "woken"
  /\ mWatch' = Notified(mWatch, persister.last)
  /\ \E many \in ManyFiles, pc \in {"napping", "paused", "taking"} :
       /\ pc = "napping" => ~many
       /\ pc = "paused" <=> many /\ persister.merged < persister.last
       /\ persister' = [persister EXCEPT !.pc = pc]
  /\ UNCHANGED <<unsafe, root, saved, tried, caller, told, closer, closed, introducer,
                 merger, pWatch>>

\* The nap ends by itself, or because the merger subscribes.
PersisterNap ==
  /\ persister.pc = "napping"
  /\ \/ UNCHANGED mWatch /\ persister' = [persister EXCEPT !.pc = "taking"]
     \/ /\ mWatch.at = "sent"
        /\ mWatch' = Received(mWatch, persister.last)
        /\ persister' = [persister EXCEPT !.pc = "taking", !.merged = mWatch.epoch]
  /\ UNCHANGED <<unsafe, root, saved, tried, caller, told, closer, closed, introducer,
                 merger, pWatch>>

\* The pause ends when the merger has caught up with what is persisted, when
\* there are fewer files, or when the writer closes.
PersisterPause ==
  /\ persister.pc = "paused"
  /\ \/ /\ mWatch.at = "sent"
        /\ mWatch' = Received(mWatch, persister.last)
        /\ \E many \in ManyFiles :
             persister' = [persister EXCEPT !.merged = mWatch.epoch,
               !.pc = IF many /\ mWatch.epoch < persister.last THEN "paused" ELSE "taking"]
     \/ closed /\ UNCHANGED mWatch /\ persister' = [persister EXCEPT !.pc = "taking"]
  /\ UNCHANGED <<unsafe, root, saved, tried, caller, told, closer, closed, introducer,
                 merger, pWatch>>

PersisterTake ==
  /\ persister.pc = "taking"
  /\ IF root.epoch > persister.last
       THEN /\ persister' = [persister EXCEPT !.pc = "working", !.chans = told,
                 !.snap = [epoch |-> root.epoch, mem |-> root.mem, upto |-> root.upto]]
            /\ told' = {}
       ELSE persister' = [persister EXCEPT !.pc = "subscribe"] /\ UNCHANGED told
  /\ UNCHANGED <<unsafe, root, saved, tried, caller, closer, closed, introducer, merger,
                 pWatch, mWatch>>

\* introducePersist, or introduceMerge of the in-memory merge: the in-memory
\* segments of the snapshot that are still in the root, one by one or as one.
PersisterIntroduce ==
  /\ introducer = "running"
  /\ persister.pc = "working" /\ persister.snap.mem # {}
  /\ LET n == Cardinality(root.mem \cap persister.snap.mem)
     IN  \E files \in {n, IF n = 0 THEN 0 ELSE 1} :
           root' = [root EXCEPT !.epoch = @ + 1, !.mem = @ \ persister.snap.mem,
                                !.files = @ + files]
  /\ persister' = [persister EXCEPT !.snap.mem = {}]
  /\ pWatch' = Notified(pWatch, root'.epoch)
  /\ UNCHANGED <<unsafe, saved, tried, caller, told, closer, closed, introducer, merger,
                 mWatch>>

\* The snapshot is on disk.  If the root moved on meanwhile the next round
\* starts right away, since the old watcher is still woken.
PersistSucceeds ==
  /\ persister.pc = "working" /\ persister.snap.mem = {}
  /\ persister' = [persister EXCEPT !.last = persister.snap.epoch, !.snap = NoSnap,
       !.chans = {}, !.err = FALSE, !.timer = FALSE,
       !.pc = IF root.epoch # persister.snap.epoch THEN "select" ELSE "subscribe"]
  /\ saved' = persister.snap.upto
  /\ caller' = Returned(persister.chans)
  /\ mWatch' = IF mWatch.at = "held" THEN Woken ELSE mWatch
  /\ UNCHANGED <<unsafe, root, tried, told, closer, closed, introducer, merger, pWatch>>

Failed == [persister EXCEPT !.pc = "select", !.snap = NoSnap, !.chans = {},
                            !.err = TRUE, !.timer = TRUE]

Syncing == closer.at = "sync" /\ closer.sent

\* Mutant: a sync that is held waits for the next success.
PersistFailsHolding ==
  /\ persister.pc = "working"
  /\ persister' = Failed
  /\ caller' = Returned(persister.chans)
  /\ UNCHANGED <<unsafe, root, saved, tried, told, closer, closed, introducer, merger,
                 pWatch, mWatch>>

\* Mutant: after a failure the persister waits for a newer root.
PersistFailsWaiting ==
  /\ persister.pc = "working"
  /\ persister' = Failed
  /\ pWatch' = Watcher(root.epoch)
  /\ caller' = Returned(persister.chans)
  /\ closer' = IF Syncing THEN Answered(TRUE) ELSE closer
  /\ UNCHANGED <<unsafe, root, saved, tried, told, closed, introducer, merger, mWatch>>

\* Persisting fails: callers and Close get the error, the backoff starts.
PersistFails ==
  /\ persister.pc = "working"
  /\ persister' = Failed
  /\ caller' = Returned(persister.chans)
  /\ closer' = IF Syncing THEN Answered(TRUE) ELSE closer
  /\ UNCHANGED <<unsafe, root, saved, tried, told, closed, introducer, merger, pWatch, mWatch>>

\* NotifyUsAfter, before cleaning up.
PersisterSubscribe ==
  /\ persister.pc = "subscribe"
  /\ pWatch' = Watcher(persister.last)
  /\ persister' = [persister EXCEPT !.pc = "end"]
  /\ UNCHANGED <<unsafe, root, saved, tried, caller, told, closer, closed, introducer,
                 merger, mWatch>>

\* Mutant: a sync is answered without looking at the root.
PersisterEndUnchecked ==
  /\ persister.pc = "end"
  /\ closer' = IF Syncing THEN Answered(FALSE) ELSE closer
  /\ persister' = [persister EXCEPT !.pc = "select"]
  /\ UNCHANGED <<unsafe, root, saved, tried, caller, told, closed, introducer, merger,
                 pWatch, mWatch>>

\* The end of the loop: a sync is answered once the root is persisted.
PersisterEnd ==
  /\ persister.pc = "end"
  /\ closer' = IF Syncing /\ root.epoch = persister.last THEN Answered(FALSE) ELSE closer
  /\ persister' = [persister EXCEPT !.pc = "select"]
  /\ UNCHANGED <<unsafe, root, saved, tried, caller, told, closed, introducer, merger,
                 pWatch, mWatch>>

\* closeCh: at the select, at NotifyUsAfter, or as ErrClosed from what the
\* persister was doing.
PersisterStop ==
  /\ closed /\ persister.pc \in {"select", "subscribe", "working"}
  /\ persister' = [persister EXCEPT !.pc = "exited", !.snap = NoSnap, !.chans = {}]
  /\ caller' = Returned(persister.chans)
  /\ UNCHANGED <<unsafe, root, saved, tried, told, closer, closed, introducer, merger,
                 pWatch, mWatch>>

-----------------------------------------------------------------------------
(* mergerLoop *)

MergerRetry ==
  /\ merger.pc = "select" /\ merger.timer
  /\ merger' = [merger EXCEPT !.timer = FALSE]
  /\ UNCHANGED <<unsafe, root, saved, tried, caller, told, closer, closed, introducer,
                 persister, pWatch, mWatch>>

\* A plan for the current root: some number of merges of at least two segments.
Planned(drain, tasks) ==
  /\ 2 * tasks <= root.files
  /\ merger' = [merger EXCEPT !.pc = "merging", !.snap = root.epoch, !.tasks = tasks,
                              !.drain = drain]

\* mergeDrains: drainMerges is told an outstanding error, or convergeMerges runs.
MergerDrain ==
  /\ merger.pc = "select" /\ closer.at = "drain" /\ ~closer.sent
  /\ IF merger.err
       THEN closer' = Answered(TRUE) /\ UNCHANGED merger
       ELSE /\ closer' = [closer EXCEPT !.sent = TRUE]
            /\ \E tasks \in 0 .. root.files : Planned(TRUE, tasks)
  /\ UNCHANGED <<unsafe, root, saved, tried, caller, told, closed, introducer, persister,
                 pWatch, mWatch>>

\* The persister woke us, and we are not in a backoff.
MergerWake ==
  /\ merger.pc = "select" /\ ~merger.timer /\ mWatch.at = "woken"
  /\ IF root.epoch # merger.planned
       THEN \E tasks \in 0 .. root.files : Planned(FALSE, tasks)
       ELSE merger' = [merger EXCEPT !.pc = "subscribe"]
  /\ UNCHANGED <<unsafe, root, saved, tried, caller, told, closer, closed, introducer,
                 persister, pWatch, mWatch>>

\* executeMergeTask and introduceMerge: fewer segments, unless batches emptied
\* what was being merged.
MergerMerge ==
  /\ introducer = "running" /\ merger.pc = "merging" /\ merger.tasks > 0
  /\ \E files \in 0 .. root.files :
       /\ root.files > 1 => 0 < files /\ files < root.files
       /\ root.files <= 1 => files = root.files
       /\ root' = [root EXCEPT !.epoch = @ + 1, !.files = files]
  /\ merger' = [merger EXCEPT !.tasks = @ - 1]
  /\ pWatch' = Notified(pWatch, root'.epoch)
  /\ UNCHANGED <<unsafe, saved, tried, caller, told, closer, closed, introducer, persister,
                 mWatch>>

Idle == [merger EXCEPT !.pc = "select", !.snap = 0, !.tasks = 0, !.drain = FALSE]

\* A merge fails: Close gets the error, or the backoff starts.
MergerFails ==
  /\ merger.pc = "merging" /\ merger.tasks > 0
  /\ IF merger.drain
       THEN /\ closer' = Answered(TRUE)
            /\ merger' = Idle
       ELSE /\ merger' = [Idle EXCEPT !.err = TRUE, !.timer = TRUE]
            /\ UNCHANGED closer
  /\ UNCHANGED <<unsafe, root, saved, tried, caller, told, closed, introducer, persister,
                 pWatch, mWatch>>

\* The plan is done.  convergeMerges goes on until a plan is empty and the root
\* has not changed since it was made.
MergerDone ==
  /\ merger.pc = "merging" /\ merger.tasks = 0
  /\ \/ /\ ~merger.drain
        /\ merger' = [Idle EXCEPT !.pc = "subscribe", !.planned = merger.snap,
                                  !.err = FALSE, !.timer = FALSE]
        /\ UNCHANGED closer
     \/ /\ merger.drain /\ root.epoch = merger.snap
        /\ merger' = [Idle EXCEPT !.planned = merger.snap]
        /\ closer' = Answered(FALSE)
     \/ /\ merger.drain /\ root.epoch # merger.snap
        /\ \E tasks \in 0 .. root.files : Planned(TRUE, tasks)
        /\ UNCHANGED closer
  /\ UNCHANGED <<unsafe, root, saved, tried, caller, told, closed, introducer, persister,
                 pWatch, mWatch>>

MergerSubscribe ==
  /\ merger.pc = "subscribe"
  /\ mWatch' = Watcher(merger.planned)
  /\ merger' = [merger EXCEPT !.pc = "select"]
  /\ UNCHANGED <<unsafe, root, saved, tried, caller, told, closer, closed, introducer,
                 persister, pWatch>>

MergerStop ==
  /\ closed /\ merger.pc \in {"select", "subscribe", "merging"}
  /\ merger' = [Idle EXCEPT !.pc = "exited"]
  /\ UNCHANGED <<unsafe, root, saved, tried, caller, told, closer, closed, introducer,
                 persister, pWatch, mWatch>>

-----------------------------------------------------------------------------
(* Close *)

Closing(from, to) ==
  /\ closer.at = from
  /\ closer' = [closer EXCEPT !.at = to]
  /\ UNCHANGED <<unsafe, root, saved, tried, caller, told, introducer, persister, merger,
                 pWatch, mWatch>>

\* Ask for mutationLock, which from now on no new call of Batch gets ...
CloseStart == Closing("no", "locking") /\ UNCHANGED closed

\* ... and get it when those under way have returned.
CloseLock ==
  /\ \A w \in Writers : caller[w] = "idle"
  /\ Closing("locking", "drain")
  /\ UNCHANGED closed

CloseStop == Closing("stopping", "waiting") /\ closed' = TRUE

CloseDone ==
  /\ introducer = "exited" /\ persister.pc = "exited" /\ merger.pc = "exited"
  /\ Closing("waiting", "closed")
  /\ UNCHANGED closed

-----------------------------------------------------------------------------

Introducer ==
  \/ IntroducerWatch \/ IntroducerStop
  \/ \E w \in Writers : IntroduceSegment(w) \/ IntroduceFails(w)

Persister ==
  \/ PersisterRetry \/ PersisterSync \/ PersisterWatch \/ PersisterWake \/ PersisterNap
  \/ PersisterPause \/ PersisterTake \/ PersisterIntroduce \/ PersistSucceeds
  \/ PersistFails \/ PersisterSubscribe \/ PersisterEnd \/ PersisterStop

Merger ==
  \/ MergerRetry \/ MergerDrain \/ MergerWake \/ MergerMerge \/ MergerFails
  \/ MergerDone \/ MergerSubscribe \/ MergerStop

Close == CloseLock \/ CloseStop \/ CloseDone

Next ==
  \/ \E w \in Writers : Batch(w)
  \/ Introducer \/ Persister \/ Merger
  \/ CloseStart \/ Close

Spec == Init /\ [][Next]_vars

\* Goroutines keep running, and a select that is entered again and again does
\* not pass over its ready control channels for ever.  Nothing says that a file
\* operation ever succeeds, or that anybody calls Batch or Close.
Fairness ==
  /\ WF_vars(Introducer) /\ WF_vars(Persister) /\ WF_vars(Merger) /\ WF_vars(Close)
  /\ SF_vars(PersisterSync \/ PersisterWatch \/ PersisterStop)
  /\ SF_vars(MergerDrain \/ MergerStop)

LiveSpec == Spec /\ Fairness

\* Disk space is freed some day: what is tried again and again succeeds.
Recovery == SF_vars(PersisterIntroduce \/ PersistSucceeds) /\ SF_vars(MergerMerge)

RecoverySpec == LiveSpec /\ Recovery

-----------------------------------------------------------------------------
(* Properties *)

Roots    == [epoch : Nat, mem : SUBSET Nat, files : Nat, upto : Nat]
Snaps    == [epoch : Nat, mem : SUBSET Nat, upto : Nat]
Watchers == [at : {"sent", "held", "woken"}, epoch : Nat]

Closers ==
  [at : {"no", "locking", "drain", "sync", "stopping", "waiting", "closed"},
   round : {1, 2}, sent : BOOLEAN, err : BOOLEAN]

Persisters ==
  [pc : {"select", "napping", "paused", "taking", "working", "subscribe", "end", "exited"},
   last : Nat, merged : Nat, chans : SUBSET Writers, snap : Snaps,
   err : BOOLEAN, timer : BOOLEAN]

Mergers ==
  [pc : {"select", "merging", "subscribe", "exited"}, planned : Nat, snap : Nat,
   tasks : Nat, drain : BOOLEAN, err : BOOLEAN, timer : BOOLEAN]

TypeOK ==
  /\ unsafe \in BOOLEAN /\ closed \in BOOLEAN
  /\ root \in Roots
  /\ saved \in Nat /\ tried \in Nat
  /\ caller \in [Writers -> {"idle", "sending", "waiting"}] /\ told \subseteq Writers
  /\ closer \in Closers
  /\ introducer \in {"running", "exited"}
  /\ persister \in Persisters /\ merger \in Mergers
  /\ pWatch \in Watchers /\ mWatch \in Watchers

\* When Close returns without an error every batch is on disk, those of callers
\* that did not wait for it included (writer.go:267-281).
CleanCloseIsDurable == closer.at = "closed" /\ ~closer.err => saved = root.upto

\* "Persisting unsafe batches can introduce a new disk-backed root.  Drain on
\* both sides of the persister barrier so that root is planned as well": after
\* such a Close the merger has planned the last root, whatever woke it between.
CleanCloseIsPlanned == closer.at = "closed" /\ ~closer.err => merger.planned = root.epoch

\* Close returns although file operations go on failing and loops are in their
\* backoff, if no caller of Batch holds mutationLock waiting for the persister
\* and the persister does not stay paused for the merger.
CloseReturns ==
  []<>(persister.pc # "paused") => (unsafe /\ closer.at = "locking" ~> closer.at = "closed")

\* Once operations succeed again every call of Batch and Close returns: no
\* wake-up is lost between the three loops (persister.go:71-81, merge.go:70-100).
BatchReturns ==
  /\ \A w \in Writers : caller[w] # "idle" ~> caller[w] = "idle"
  /\ closer.at = "locking" ~> closer.at = "closed"

\* Failed work is retried "even without new writes" (README.md:241): every
\* batch gets on disk, unless the writer is closed before.
EveryBatchIsSaved ==
  \A n \in 1 .. MaxBatches : root.upto >= n ~> saved >= n \/ closer.at = "closed"

\* "Writer.Close() returns an outstanding background error promptly instead of
\* waiting through backoff" (README.md:253), a failed merge while it is waiting
\* for the persister included.
CloseReturnsPromptly ==
  unsafe /\ closer.at \in {"drain", "sync"} /\ merger.err ~> closer.at = "closed"

=============================================================================
