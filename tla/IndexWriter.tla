---------------------------- MODULE IndexWriter ----------------------------
(***************************************************************************)
(* The writer of package index: goroutines calling Batch, the introducer    *)
(* (the only one that replaces the root), the persister and the merger,     *)
(* over a directory of segment and snapshot files, with the process         *)
(* crashing and reopening the directory.                                    *)
(*                                                                         *)
(* Every action is one handler, or the part of it between two points where  *)
(* another goroutine, a file operation or a crash can come in.  The         *)
(* introducer handles one message at a time and nobody else replaces the    *)
(* root, so each introduction is one step.  "history" and the "upto" of a   *)
(* root or snapshot are ghosts: what each batch left behind, and how many   *)
(* batches a root contains.                                                 *)
(***************************************************************************)
EXTENDS Segments, DeletionPolicy, SequencesExt

CONSTANTS Keys,          \* document identifiers
          Writers,       \* goroutines calling Batch
          Batches,       \* [upd, del]: what a batch may update and delete
          UnsafeBatch,   \* Config.UnsafeBatch: Batch does not wait for persist
          MinMerge,      \* Config.MinSegmentsForInMemoryMerge
          MaxBatches,    \* bound: batches in the history
          MaxMerges,     \* bound: merges by the merger
          MaxFaults,     \* bound: failed file operations
          MaxCrashes     \* bound: crashes of the process

ASSUME IndexWriterAssumption ==
  /\ \A b \in Batches : b.upd \subseteq Keys /\ b.del \subseteq Keys /\ IsFiniteSet(b.upd)
  /\ UnsafeBatch \in BOOLEAN
  /\ {MinMerge, MaxBatches, MaxMerges, MaxFaults, MaxCrashes} \subseteq Nat

VARIABLES
  up,            \* the writer is open
  root,          \* Writer.root: [epoch, segs, upto]
  nextEpoch,     \* nextSnapshotEpoch of introducerLoop
  nextSegmentID, \* Writer.nextSegmentID
  rootPersisted, \* Writer.rootPersisted: the callers to tell about this root
  rootCallbacks, \* Writer.persistedCallbacks, by the batch they belong to
  writer,        \* where each caller of Batch is
  persister,     \* the locals of persisterLoop and what it calls
  merger,        \* the locals of mergerLoop and what it calls
  policy,        \* Writer.deletionPolicy
  segFiles,      \* .seg files: [id, docs]
  snapFiles,     \* .snp files: [epoch, segs, upto, complete]
  history,       \* ghost: the content of the root after each batch
  acked,         \* ghost: the latest batch some caller knows to be persisted
  fired,         \* ghost: the persisted callbacks called since the open
  used           \* [merges, faults, crashes]: how much of each bound is used

memory  == <<up, root, nextEpoch, nextSegmentID, rootPersisted, rootCallbacks,
             writer, persister, merger, policy>>
disk    == <<segFiles, snapFiles>>
ghosts  == <<history, acked, fired, used>>
vars    == <<memory, disk, ghosts>>

-----------------------------------------------------------------------------
(* States of the goroutines. *)

Idle        == [pc |-> "idle"]
Sending(in) == [pc |-> "sending", in |-> in]
Waiting(n)  == [pc |-> "waiting", at |-> n]

\* carried is unpersistedCallbacks, last is lastPersistedEpoch; snap, chans and
\* callbacks are what the loop took from the root, fresh the segments written
\* for it, merge the in-memory merge being introduced.
NoSnap == [epoch |-> 0, segs |-> {}, upto |-> 0]
Resting(last, carried) ==
  [pc |-> "idle", last |-> last, carried |-> carried, snap |-> NoSnap,
   chans |-> {}, callbacks |-> <<>>, fresh |-> {}, merge |-> {}]

ResetMerger == [pc |-> "idle", segs |-> {}, merge |-> {}]

Unpersisted(segs) == {s \in segs : ~s.persisted}

FileOf(id)  == CHOOSE f \in segFiles : f.id = id
HasFile(id) == \E f \in segFiles : f.id = id

Without(ids)    == {f \in segFiles : f.id \notin ids}
Fault           == used.faults < MaxFaults /\ used' = [used EXCEPT !.faults = @ + 1]
Batched         == Len(history) - 1

Init ==
  /\ up = TRUE
  /\ root = NoSnap
  /\ nextEpoch = 1
  /\ nextSegmentID = 1
  /\ rootPersisted = {}
  /\ rootCallbacks = <<>>
  /\ writer = [w \in Writers |-> Idle]
  /\ persister = Resting(0, <<>>)
  /\ merger = ResetMerger
  /\ policy = NewPolicy
  /\ segFiles = {}
  /\ snapFiles = {}
  /\ history = <<{}>>
  /\ acked = 0
  /\ fired = <<>>
  /\ used = [merges |-> 0, faults |-> 0, crashes |-> 0]

-----------------------------------------------------------------------------
(* Batch *)

\* prepareSegment up to the send: take an id and work out, against whatever
\* root is current, which documents the batch obsoletes.
Prepare(w) ==
  /\ up
  /\ writer[w].pc = "idle"
  /\ Batched + Cardinality({v \in Writers : writer[v].pc = "sending"}) < MaxBatches
  /\ \E b \in Batches :
       LET terms == b.upd \cup b.del
       IN  writer' = [writer EXCEPT ![w] = Sending(
             [id        |-> nextSegmentID + 1,
              upd       |-> b.upd,
              terms     |-> terms,
              obsoletes |-> [i \in Ids(root.segs) |->
                               DocsMatching(Segment(root.segs, i), terms)]])]
  /\ nextSegmentID' = nextSegmentID + 1
  /\ UNCHANGED <<up, root, nextEpoch, rootPersisted, rootCallbacks, persister,
                 merger, policy, disk, ghosts>>

\* The segment that batch n brings, none when it only deletes.
NewSegment(in, n) ==
  IF in.upd = {} THEN {}
    ELSE {[id |-> in.id, docs |-> SetToSeq(in.upd \X {n}), deleted |-> {}, persisted |-> FALSE]}

\* introducerLoop takes the batch: introduceSegment and replaceRoot.  A caller
\* that does not wait for the persister returns here.
IntroduceSegment(w) ==
  /\ writer[w].pc = "sending"
  /\ LET in   == writer[w].in
         n    == Len(history)
         segs == WithBatch(root.segs, in, NewSegment(in, n))
     IN  /\ root' = [epoch |-> nextEpoch, segs |-> segs, upto |-> n]
         /\ history' = Append(history, Content(segs))
         /\ rootCallbacks' = Append(rootCallbacks, n)
         /\ writer' = [writer EXCEPT ![w] = IF UnsafeBatch THEN Idle ELSE Waiting(n)]
  /\ rootPersisted' = IF UnsafeBatch THEN rootPersisted ELSE rootPersisted \cup {w}
  /\ nextEpoch' = nextEpoch + 1
  /\ UNCHANGED <<up, nextSegmentID, persister, merger, policy, disk, acked,
                 fired, used>>

\* introduceSegment cannot read a segment: Batch fails, the epoch is spent.
IntroduceFails(w) ==
  /\ writer[w].pc = "sending"
  /\ \E s \in root.segs : s.id \notin DOMAIN writer[w].in.obsoletes
  /\ Fault
  /\ writer' = [writer EXCEPT ![w] = Idle]
  /\ nextEpoch' = nextEpoch + 1
  /\ UNCHANGED <<up, root, nextSegmentID, rootPersisted, rootCallbacks, persister,
                 merger, policy, disk, history, acked, fired>>

-----------------------------------------------------------------------------
(* The persister *)

\* persisterLoop takes a root it has not persisted, and everyone waiting for it.
PersisterTake ==
  /\ up
  /\ persister.pc = "idle"
  /\ root.epoch > persister.last
  /\ persister' = [persister EXCEPT !.pc = "taken", !.snap = root,
                     !.chans = rootPersisted, !.callbacks = rootCallbacks]
  /\ rootPersisted' = {}
  /\ rootCallbacks' = <<>>
  /\ UNCHANGED <<up, root, nextEpoch, nextSegmentID, writer, merger, policy, disk, ghosts>>

\* persistSnapshotMaybeMerge: are there enough in-memory segments to merge?
MayMergeInMemory ==
  LET mem == Unpersisted(persister.snap.segs)
  IN  persister.pc = "taken" /\ mem # {} /\ Cardinality(mem) >= MinMerge

\* Write the merge of the in-memory segments.  Under memory pressure, or when
\* they are too big, persistSnapshotMaybeMerge goes straight to PersistSegment.
PersisterMerge ==
  /\ MayMergeInMemory
  /\ LET m == Merge(nextSegmentID + 1, Unpersisted(persister.snap.segs))
     IN  /\ segFiles' = segFiles \cup {[id |-> m.id, docs |-> m.docs]}
         /\ persister' = [persister EXCEPT !.pc = "merging", !.merge = {m}]
  /\ nextSegmentID' = nextSegmentID + 1
  /\ UNCHANGED <<up, root, nextEpoch, rootPersisted, rootCallbacks, writer,
                 merger, policy, snapFiles, ghosts>>

\* Introduce the merge m: introduceMerge, and the requester removing the file
\* of a merge that was skipped.
IntroduceMerge(m) ==
  /\ root' = [root EXCEPT !.epoch = nextEpoch, !.segs = WithMerge(root.segs, m)]
  /\ segFiles' = IF Merged(root.segs, m) = {} THEN Without({m.id}) ELSE segFiles
  /\ nextEpoch' = nextEpoch + 1

\* Mutant: the equivalent snapshot takes the merged segment as the root has it,
\* with the deletions of batches that are not part of the snapshot.
PersisterMergeDoneAsInRoot ==
  /\ persister.pc = "merging"
  /\ \E m \in persister.merge :
       /\ IntroduceMerge(m)
       /\ LET equiv == {s \in persister.snap.segs : s.persisted} \cup Merged(root.segs, m)
          IN  persister' = [persister EXCEPT !.pc = "writing", !.merge = {},
                              !.snap.segs = IF Merged(root.segs, m) = {} THEN @ ELSE equiv]
  /\ UNCHANGED <<up, nextSegmentID, rootPersisted, rootCallbacks, writer, merger,
                 policy, snapFiles, ghosts>>

\* The rest of mergeSegmentBases and the equivalent snapshot of
\* persistSnapshotMaybeMerge: the merged segment without deletions, under the
\* epoch of the snapshot that was taken.  A skipped merge persists the original.
PersisterMergeDone ==
  /\ persister.pc = "merging"
  /\ \E m \in persister.merge :
       /\ IntroduceMerge(m)
       /\ LET whole == [id |-> m.id, docs |-> m.docs, deleted |-> {}, persisted |-> TRUE]
              equiv == {s \in persister.snap.segs : s.persisted} \cup {whole}
          IN  persister' = [persister EXCEPT !.pc = "writing", !.merge = {},
                              !.snap.segs = IF Merged(root.segs, m) = {} THEN @ ELSE equiv]
  /\ UNCHANGED <<up, nextSegmentID, rootPersisted, rootCallbacks, writer, merger,
                 policy, snapFiles, ghosts>>

\* The segment file that this attempt writes next.
NextToWrite ==
  LET left == {s \in Unpersisted(persister.snap.segs) : s.id \notin persister.fresh}
  IN  {s \in left : \A t \in left : s.id <= t.id}

\* Mutant: only the documents that are live in the snapshot are written.
PersistSegmentLive ==
  /\ persister.pc \in {"taken", "writing"}
  /\ \E s \in NextToWrite :
       /\ segFiles' = segFiles \cup {[id |-> s.id, docs |-> Merge(s.id, {s}).docs]}
       /\ persister' = [persister EXCEPT !.pc = "writing", !.fresh = @ \cup {s.id}]
  /\ UNCHANGED <<up, root, nextEpoch, nextSegmentID, rootPersisted, rootCallbacks,
                 writer, merger, policy, snapFiles, ghosts>>

\* persistSnapshotDirect: one segment file after the other, those of an earlier
\* attempt again.  Which comes first makes no difference.
PersistSegment ==
  /\ persister.pc \in {"taken", "writing"}
  /\ \E s \in NextToWrite :
       /\ segFiles' = segFiles \cup {[id |-> s.id, docs |-> s.docs]}
       /\ persister' = [persister EXCEPT !.pc = "writing", !.fresh = @ \cup {s.id}]
  /\ UNCHANGED <<up, root, nextEpoch, nextSegmentID, rootPersisted, rootCallbacks,
                 writer, merger, policy, snapFiles, ghosts>>

\* prepareIntroducePersist and introducePersist, once every segment is written.
IntroducePersist ==
  /\ persister.pc = "writing"
  /\ persister.fresh # {}
  /\ Ids(Unpersisted(persister.snap.segs)) \subseteq persister.fresh
  /\ root' = [root EXCEPT !.epoch = nextEpoch,
                          !.segs = WithPersisted(root.segs, persister.fresh)]
  /\ nextEpoch' = nextEpoch + 1
  /\ persister' = [persister EXCEPT !.fresh = {},
                     !.snap.segs = WithPersisted(@, persister.fresh)]
  /\ UNCHANGED <<up, nextSegmentID, rootPersisted, rootCallbacks, writer, merger,
                 policy, disk, ghosts>>

\* Directory.Persist of the snapshot creates the file under its final name and
\* then fills it: until it returns the file is there and cannot be read.
SnapshotFile(complete) ==
  [epoch |-> persister.snap.epoch, upto |-> persister.snap.upto, complete |-> complete,
   segs  |-> {[id |-> s.id, deleted |-> s.deleted] : s \in persister.snap.segs}]

SnapshotCreate ==
  /\ persister.pc \in {"taken", "writing"}
  /\ Unpersisted(persister.snap.segs) = {}
  /\ snapFiles' = snapFiles \cup {SnapshotFile(FALSE)}
  /\ persister' = [persister EXCEPT !.pc = "snapshot"]
  /\ UNCHANGED <<up, root, nextEpoch, nextSegmentID, rootPersisted, rootCallbacks,
                 writer, merger, policy, segFiles, ghosts>>

SnapshotWritten ==
  /\ persister.pc = "snapshot"
  /\ snapFiles' = (snapFiles \ {SnapshotFile(FALSE)}) \cup {SnapshotFile(TRUE)}
  /\ policy' = Commit(policy, persister.snap.epoch, Ids(persister.snap.segs))
  /\ persister' = [persister EXCEPT !.pc = "committed"]
  /\ UNCHANGED <<up, root, nextEpoch, nextSegmentID, rootPersisted, rootCallbacks,
                 writer, merger, segFiles, ghosts>>

\* The callers in chans got their answer, an error or none, and Batch returns.
Returned(chans) == [w \in Writers |-> IF w \in chans THEN Idle ELSE writer[w]]

\* Mutant: everyone waiting is told, not only those whose batch was persisted.
PersistSucceedsForAll ==
  /\ persister.pc = "committed"
  /\ writer' = Returned({w \in Writers : writer[w].pc = "waiting"})
  /\ acked' = LET told == {writer[w].at : w \in {v \in Writers : writer[v].pc = "waiting"}}
                            \cup {acked}
              IN  CHOOSE n \in told : \A m \in told : m <= n
  /\ fired' = fired \o persister.carried \o persister.callbacks
  /\ persister' = Resting(persister.snap.epoch, <<>>)
  /\ UNCHANGED <<up, root, nextEpoch, nextSegmentID, rootPersisted, rootCallbacks,
                 merger, policy, disk, history, used>>

\* Back in persisterLoop: tell the callers, then the callbacks, those of failed
\* attempts first.
PersistSucceeds ==
  /\ persister.pc = "committed"
  /\ writer' = Returned(persister.chans)
  /\ acked' = LET told == {writer[w].at : w \in persister.chans} \cup {acked}
              IN  CHOOSE n \in told : \A m \in told : m <= n
  /\ fired' = fired \o persister.carried \o persister.callbacks
  /\ persister' = Resting(persister.snap.epoch, <<>>)
  /\ UNCHANGED <<up, root, nextEpoch, nextSegmentID, rootPersisted, rootCallbacks,
                 merger, policy, disk, history, used>>

\* Mutant: the callbacks of the latest attempt come first.
PersistFailsReordering ==
  /\ persister.pc \in {"taken", "writing", "snapshot"}
  /\ Fault
  /\ snapFiles' = snapFiles \ {SnapshotFile(FALSE)}
  /\ writer' = Returned(persister.chans)
  /\ persister' = Resting(persister.last, persister.callbacks \o persister.carried)
  /\ UNCHANGED <<up, root, nextEpoch, nextSegmentID, rootPersisted, rootCallbacks,
                 merger, policy, segFiles, history, acked, fired>>

\* Mutant: the epoch counts as persisted although persisting it failed.
PersistFailsForGood ==
  /\ persister.pc \in {"taken", "writing", "snapshot"}
  /\ Fault
  /\ snapFiles' = snapFiles \ {SnapshotFile(FALSE)}
  /\ writer' = Returned(persister.chans)
  /\ persister' = Resting(persister.snap.epoch, persister.carried \o persister.callbacks)
  /\ UNCHANGED <<up, root, nextEpoch, nextSegmentID, rootPersisted, rootCallbacks,
                 merger, policy, segFiles, history, acked, fired>>

\* A file operation of this attempt fails.  Directory.Persist removes the file
\* it was writing, even one that an earlier attempt completed; the callers get
\* the error, the callbacks wait for the retry.
PersistFails ==
  /\ persister.pc \in {"taken", "writing", "snapshot"}
  /\ Fault
  /\ snapFiles' = snapFiles \ {SnapshotFile(FALSE)}
  /\ \E broken \in SUBSET Ids(NextToWrite) : segFiles' = Without(broken)
  /\ writer' = Returned(persister.chans)
  /\ persister' = Resting(persister.last, persister.carried \o persister.callbacks)
  /\ \/ UNCHANGED nextSegmentID
     \/ MayMergeInMemory /\ nextSegmentID' = nextSegmentID + 1
  /\ UNCHANGED <<up, root, nextEpoch, rootPersisted, rootCallbacks,
                 merger, policy, history, acked, fired>>

\* deletionPolicy.Cleanup by the idle persister, in its two halves, the first:
\* removals may fail, and what failed is tried again next time.
CleanupSnapshots ==
  /\ up
  /\ persister.pc = "idle"
  /\ policy.deletable # {} \/ Unneeded(policy) # {}
  /\ \E failed \in SUBSET policy.deletable :
       /\ IF failed = {} THEN UNCHANGED used ELSE Fault
       /\ snapFiles' = {f \in snapFiles : f.epoch \notin policy.deletable \ failed}
       /\ policy' = ForgetSnapshots(policy, policy.deletable \ failed)
  /\ persister' = [persister EXCEPT !.pc = "cleaning"]
  /\ UNCHANGED <<up, root, nextEpoch, nextSegmentID, rootPersisted, rootCallbacks,
                 writer, merger, segFiles, history, acked, fired>>

\* The second half: the segment files that no committed snapshot needs.
CleanupSegments ==
  /\ persister.pc = "cleaning"
  /\ \E failed \in SUBSET Unneeded(policy) :
       /\ IF failed = {} THEN UNCHANGED used ELSE Fault
       /\ segFiles' = Without(Unneeded(policy) \ failed)
       /\ policy' = ForgetSegments(policy, Unneeded(policy) \ failed)
  /\ persister' = [persister EXCEPT !.pc = "idle"]
  /\ UNCHANGED <<up, root, nextEpoch, nextSegmentID, rootPersisted, rootCallbacks,
                 writer, merger, snapFiles, history, acked, fired>>

-----------------------------------------------------------------------------
(* The merger *)

\* Mutant: segments that are not persisted yet are planned as well.
MergerPlanAll ==
  /\ up
  /\ merger.pc = "idle"
  /\ used.merges < MaxMerges
  /\ Cardinality(root.segs) > 1
  /\ merger' = [merger EXCEPT !.pc = "planned", !.segs = root.segs]
  /\ UNCHANGED <<up, root, nextEpoch, nextSegmentID, rootPersisted, rootCallbacks,
                 writer, persister, policy, disk, ghosts>>

\* planMergeAtSnapshot: the persisted segments of the current root; the planner
\* has nothing to say about a single one.
MergerPlan ==
  /\ up
  /\ merger.pc = "idle"
  /\ used.merges < MaxMerges
  /\ Cardinality(root.segs \ Unpersisted(root.segs)) > 1
  /\ merger' = [merger EXCEPT !.pc = "planned", !.segs = root.segs \ Unpersisted(root.segs)]
  /\ UNCHANGED <<up, root, nextEpoch, nextSegmentID, rootPersisted, rootCallbacks,
                 writer, persister, policy, disk, ghosts>>

\* executeMergeTask up to the send, for one task of the plan.  The planner picks
\* any group that a merge makes smaller, and no segment twice.
MergerMerge ==
  /\ merger.pc = "planned"
  /\ used.merges < MaxMerges
  /\ \E task \in SUBSET merger.segs :
       LET m == Merge(nextSegmentID + 1, task)
       IN  /\ Cardinality(task) > 1 \/ \E s \in task : s.deleted # {}
           /\ segFiles' = segFiles \cup {[id |-> m.id, docs |-> m.docs]}
           /\ merger' = [pc |-> "merging", segs |-> merger.segs \ task, merge |-> {m}]
  /\ nextSegmentID' = nextSegmentID + 1
  /\ used' = [used EXCEPT !.merges = @ + 1]
  /\ UNCHANGED <<up, root, nextEpoch, rootPersisted, rootCallbacks, writer,
                 persister, policy, snapFiles, history, acked, fired>>

\* The rest of executeMergeTask.
MergerMergeDone ==
  /\ merger.pc = "merging"
  /\ \E m \in merger.merge : IntroduceMerge(m)
  /\ merger' = [merger EXCEPT !.pc = "planned", !.merge = {}]
  /\ UNCHANGED <<up, nextSegmentID, rootPersisted, rootCallbacks, writer,
                 persister, policy, snapFiles, ghosts>>

\* The plan is done, or a merge of it failed: Directory.Persist removed the
\* file, the id is spent and the rest of the plan is dropped.
MergerRest ==
  /\ merger.pc = "planned"
  /\ merger' = ResetMerger
  /\ \/ UNCHANGED <<nextSegmentID, used>>
     \/ nextSegmentID' = nextSegmentID + 1 /\ Fault
  /\ UNCHANGED <<up, root, nextEpoch, rootPersisted, rootCallbacks, writer,
                 persister, policy, disk, history, acked, fired>>

-----------------------------------------------------------------------------
(* Crash and OpenWriter *)

Epochs == {f.epoch : f \in snapFiles}

\* loadSnapshot of a complete file whose segments are all there.
Loadable(f) == f.complete /\ \A s \in f.segs : HasFile(s.id)

Loaded(f) == {[id |-> s.id, docs |-> FileOf(s.id).docs, deleted |-> s.deleted,
               persisted |-> TRUE] : s \in f.segs}

Newest(files) == CHOOSE f \in files : \A g \in files : g.epoch <= f.epoch

\* The newest snapshot that is all there, which is what OpenReader falls back to.
OnDisk ==
  LET complete == {f \in snapFiles : f.complete}
  IN  IF complete = {} THEN [epoch |-> 0, segs |-> {}, upto |-> 0, complete |-> TRUE]
                       ELSE Newest(complete)

\* The process dies; what it had not put in a file is gone.
Crash ==
  /\ up
  /\ used.crashes < MaxCrashes
  /\ up' = FALSE
  /\ root' = NoSnap
  /\ nextEpoch' = 1
  /\ nextSegmentID' = 1
  /\ rootPersisted' = {}
  /\ rootCallbacks' = <<>>
  /\ writer' = [w \in Writers |-> Idle]
  /\ persister' = Resting(0, <<>>)
  /\ merger' = ResetMerger
  /\ policy' = NewPolicy
  /\ history' = SubSeq(history, 1, OnDisk.upto + 1)
  /\ fired' = <<>>
  /\ used' = [used EXCEPT !.crashes = @ + 1]
  /\ UNCHANGED <<disk, acked>>

\* nextSegmentID when the directory is opened: above every segment file.
FirstSegmentID == 1 + (CHOOSE n \in Ids(segFiles) \cup {0} : \A i \in Ids(segFiles) : i <= n)

\* What OpenWriter has told the deletion policy before it cleans up: the snapshots,
\* oldest first, and then every segment file.
PolicyAtOpen ==
  LET ids(e) == {s.id : s \in (CHOOSE f \in snapFiles : f.epoch = e).segs}
      told[epochs \in SUBSET Epochs] ==
        IF epochs = {} THEN NewPolicy
        ELSE LET last == Max(epochs)
             IN  Commit(told[epochs \ {last}], last, ids(last))
  IN  TrackSegmentFiles(told[Epochs], Ids(segFiles))

\* OpenWriter fails unless it can load every snapshot; it makes the newest the root
\* and cleans up.
OpenWriter ==
  /\ ~up
  /\ \A f \in snapFiles : Loadable(f)
  /\ LET tracked == PolicyAtOpen
         cleaned == ForgetSnapshots(tracked, tracked.deletable)
     IN  /\ policy' = ForgetSegments(cleaned, Unneeded(cleaned))
         /\ snapFiles' = {f \in snapFiles : f.epoch \notin tracked.deletable}
         /\ segFiles' = Without(Unneeded(cleaned))
  /\ root' = [epoch |-> OnDisk.epoch, segs |-> Loaded(OnDisk), upto |-> OnDisk.upto]
  /\ nextEpoch' = OnDisk.epoch + 1
  /\ nextSegmentID' = FirstSegmentID
  /\ persister' = Resting(OnDisk.epoch, <<>>)
  /\ up' = TRUE
  /\ UNCHANGED <<rootPersisted, rootCallbacks, writer, merger, ghosts>>

-----------------------------------------------------------------------------

Introducer ==
  \/ \E w \in Writers : IntroduceSegment(w) \/ IntroduceFails(w)
  \/ IntroducePersist \/ PersisterMergeDone \/ MergerMergeDone

Persister ==
  \/ PersisterTake \/ PersisterMerge \/ PersistSegment \/ SnapshotCreate
  \/ SnapshotWritten \/ PersistSucceeds \/ PersistFails
  \/ CleanupSnapshots \/ CleanupSegments

Merger == MergerPlan \/ MergerMerge \/ MergerRest

Next ==
  \/ \E w \in Writers : Prepare(w)
  \/ Introducer \/ Persister \/ Merger
  \/ Crash \/ OpenWriter

Spec == Init /\ [][Next]_vars

\* Every goroutine keeps running: the introducer serves each kind of message
\* sent to it (Go's select starves no channel), the persister and the merger go
\* on, and a failed persist is retried.  Nothing obliges a caller to call Batch,
\* the merger to plan, or anything to fail.
Fairness ==
  /\ \A w \in Writers : WF_vars(IntroduceSegment(w))
  /\ WF_vars(IntroducePersist) /\ WF_vars(PersisterMergeDone) /\ WF_vars(MergerMergeDone)
  /\ WF_vars(Persister)

LiveSpec == Spec /\ Fairness

-----------------------------------------------------------------------------
(* Properties *)

SegmentSnapshots ==
  {s \in [id : Nat, docs : Seq(Keys \X Nat), deleted : SUBSET Nat, persisted : BOOLEAN] :
    s.deleted \subseteq DOMAIN s.docs}

TypeOK ==
  /\ up \in BOOLEAN
  /\ root \in [epoch : Nat, segs : SUBSET SegmentSnapshots, upto : Nat]
  /\ nextEpoch \in Nat /\ nextSegmentID \in Nat
  /\ rootPersisted \subseteq Writers
  /\ rootCallbacks \in Seq(Nat)
  /\ \A w \in Writers : writer[w].pc \in {"idle", "sending", "waiting"}
  /\ persister.pc \in {"idle", "taken", "merging", "writing", "snapshot",
                       "committed", "cleaning"}
  /\ persister.snap \in [epoch : Nat, segs : SUBSET SegmentSnapshots, upto : Nat]
  /\ merger.pc \in {"idle", "planned", "merging"}
  /\ merger.segs \subseteq SegmentSnapshots
  /\ policy \in Policies
  /\ segFiles \subseteq [id : Nat, docs : Seq(Keys \X Nat)]
  /\ snapFiles \subseteq [epoch : Nat, upto : Nat, complete : BOOLEAN,
                          segs : SUBSET [id : Nat, deleted : SUBSET Nat]]
  /\ \A i \in 1 .. Len(history) : history[i] \subseteq Keys \X Nat
  /\ acked \in Nat /\ fired \in Seq(Nat)

\* No identifier is ever live twice, whatever batches, merges and persists of
\* the same segments run at once (introducer.go).
OneLiveDocument ==
  \A p, q \in Places(root.segs) :
    DocAt(root.segs, p)[1] = DocAt(root.segs, q)[1] => p = q

\* Merges and persists change how the root is stored and never what is in it,
\* even when batches deleted the documents while they were being copied.  And no
\* segment of it is empty: executeMergeTask pairs document numbers with task.Segments
\* by index (merge.go:219), and introduceMerge calls a method on what an empty segment
\* left as nil (introducer.go:287).
RootHoldsHistory ==
  /\ up => root.upto = Batched /\ Content(root.segs) = history[root.upto + 1]
  /\ root.segs = NonEmpty(root.segs) /\ merger.segs = NonEmpty(merger.segs)

\* The persister's in-memory merge and the merger never merge the same segment,
\* which would bring its documents into the root twice.
MergesAreDisjoint ==
  \A m \in persister.merge, n \in merger.merge : Ids(m.old) \cap Ids(n.old) = {}

\* Every snapshot on disk that is complete can be loaded and holds exactly what
\* a prefix of the batches left, at any moment at which the process may die.  And
\* the files behind the persisted segments of the root stay on disk, although the
\* deletion policy only knows what committed snapshots need.
SnapshotsAreLoadable ==
  /\ \A f \in snapFiles : f.complete =>
       Loadable(f) /\ Content(Loaded(f)) = history[f.upto + 1]
  /\ \A s \in root.segs : s.persisted => [id |-> s.id, docs |-> s.docs] \in segFiles

\* A persisted callback is called once, in the order of the batches, and never
\* before its batch is on disk, however often persisting had to be retried.
CallbacksInOrder ==
  /\ \A i, j \in DOMAIN fired : i < j => fired[i] < fired[j]
  /\ \A i \in DOMAIN fired : fired[i] <= OnDisk.upto

\* A file that can be read never changes, although a persist that failed is
\* retried: Directory.Persist opens without truncating, so writing an id again with something else would corrupt it.
FilesAreImmutable ==
  [][/\ \A f \in segFiles, g \in segFiles' : f.id = g.id => f = g
     /\ \A f \in snapFiles, g \in snapFiles' :
          f.epoch = g.epoch /\ f.complete => f = g]_disk

\* Every call of Batch returns, with or without an error from the persister, and
\* every persisted callback is eventually called, after any number of failed
\* attempts that is finite and without a further batch to wake anyone up.
EveryBatchIsCalledBack ==
  /\ \A w \in Writers : writer[w].pc # "idle" ~> writer[w].pc = "idle"
  /\ \A n \in 1 .. MaxBatches :
       Batched >= n ~> \E i \in DOMAIN fired : fired[i] = n

\* The writer keeps the promise of a durable index: batches are atomic, what was
\* acknowledged is on disk, and reopening after a crash gives a prefix of the
\* batches that holds everything acknowledged.
Store == INSTANCE DurableIndex WITH states <- history, saved <- OnDisk.upto

ImplementsDurableIndex == Store!Spec

=============================================================================
