--------------------------- MODULE OfflineWriter ---------------------------
(***************************************************************************)
(* The offline writer (index/writer_offline.go): every batch becomes a      *)
(* segment file in a goroutine of its own, Close waits for them and merges  *)
(* the files, at most mergeMax at a time and several merges at once, until  *)
(* one is left, which gets a snapshot.                                      *)
(*                                                                         *)
(* A batch is a number, a segment file the sequence of the batches in it.   *)
(***************************************************************************)
EXTENDS Integers, Sequences, FiniteSets, SequencesExt

CONSTANTS MaxBatches,   \* bound: calls of Batch
          MergeMax,     \* input segments of one merge
          Concurrency,  \* OfflineWriterConcurrency: builds, and merges, at once
          MaxFailures   \* bound: failing builds and file operations

ASSUME OfflineWriterAssumption ==
  MaxBatches \in Nat /\ MergeMax \in Nat /\ MergeMax >= 2
    /\ Concurrency \in Nat \ {0} /\ MaxFailures \in Nat

VARIABLES
  concurrent, \* directoryConcurrent: whether the directory takes concurrent calls
  segCount,   \* the next segment id
  segIDs,     \* the segments built, or left by the last round of merges
  builds,     \* batches accepted and not built: "queued" for a token or "building"
  accepted,   \* ghost: the segment ids of the batches Batch accepted
  buildErr,   \* the batches whose build has failed: the first error is kept
  closing,    \* "open", "waiting", "merging", "closed", "failed"
  tasks,      \* this round's merges: [ids, newID, pc, left]
  segments,   \* the segment files
  snapshot,   \* the segment the snapshot file names, -1 when there is none
  offlineFaults

offlineVars == <<concurrent, segCount, segIDs, builds, accepted, buildErr, closing, tasks,
                 segments, snapshot, offlineFaults>>

-----------------------------------------------------------------------------

OfflineInit ==
  /\ concurrent \in BOOLEAN
  /\ segCount = 0 /\ segIDs = <<>> /\ builds = <<>> /\ accepted = {} /\ buildErr = {}
  /\ closing = "open" /\ tasks = <<>> /\ segments = <<>> /\ snapshot = -1
  /\ offlineFaults = 0

Fault == offlineFaults < MaxFailures /\ offlineFaults' = offlineFaults + 1

\* Batch, up to the wait for a token.
Batch ==
  /\ closing = "open" /\ buildErr = {} /\ segCount < MaxBatches
  /\ segCount' = segCount + 1
  /\ accepted' = accepted \cup {segCount}
  /\ builds' = [b \in DOMAIN builds \cup {segCount} |->
                  IF b = segCount THEN "queued" ELSE builds[b]]
  /\ UNCHANGED <<concurrent, segIDs, buildErr, closing, tasks, segments, snapshot,
                 offlineFaults>>

StartBuild(b) ==
  /\ b \in DOMAIN builds /\ builds[b] = "queued"
  /\ Cardinality({x \in DOMAIN builds : builds[x] = "building"}) < Concurrency
  /\ builds' = [builds EXCEPT ![b] = "building"]
  /\ UNCHANGED <<concurrent, segCount, segIDs, accepted, buildErr, closing, tasks,
                 segments, snapshot, offlineFaults>>

WithFile(id, docs) ==
  [i \in DOMAIN segments \cup {id} |-> IF i = id THEN docs ELSE segments[i]]
WithoutFile(id) == [i \in DOMAIN segments \ {id} |-> segments[i]]

\* buildBatchSegment: the file, then the entry in segIDs or the first error.
BuildSegment(b) ==
  /\ b \in DOMAIN builds /\ builds[b] = "building"
  /\ builds' = [x \in DOMAIN builds \ {b} |-> builds[x]]
  /\ \/ /\ segments' = WithFile(b, <<b>>)
        /\ segIDs' = Append(segIDs, b)
        /\ UNCHANGED <<buildErr, offlineFaults>>
     \/ Fault /\ buildErr' = buildErr \cup {b} /\ UNCHANGED <<segments, segIDs>>
  /\ UNCHANGED <<concurrent, segCount, accepted, closing, tasks, snapshot>>

CloseOffline ==
  /\ closing = "open" /\ closing' = "waiting"
  /\ UNCHANGED <<concurrent, segCount, segIDs, builds, accepted, buildErr, tasks, segments,
                 snapshot, offlineFaults>>

\* Mutant: the segments stay in the order in which they were built.
AsBuilt(ids) == ids

\* The ids in ascending order; none comes twice.
Ordered(ids) ==
  LET S == ToSet(ids)
  IN  [k \in 1 .. Cardinality(S) |-> CHOOSE i \in S : Cardinality({j \in S : j < i}) = k - 1]

\* Close once builds.Wait returns.
BuildsDone ==
  /\ closing = "waiting" /\ builds = <<>>
  /\ closing' = IF buildErr # {} \/ segIDs = <<>> THEN "failed" ELSE "merging"
  /\ segIDs' = Ordered(segIDs)
  /\ UNCHANGED <<concurrent, segCount, builds, accepted, buildErr, tasks, segments, snapshot,
                 offlineFaults>>

\* One round of doMerge: what the n-th task merges, and a last segment left alone.
Groups == (Len(segIDs) + MergeMax - 1) \div MergeMax
Group(n) == SubSeq(segIDs, (n - 1) * MergeMax + 1,
                   IF n * MergeMax > Len(segIDs) THEN Len(segIDs) ELSE n * MergeMax)
LeftAlone == Len(Group(Groups)) = 1

PlanRound ==
  /\ closing = "merging" /\ tasks = <<>> /\ Len(segIDs) > 1
  /\ LET count == IF LeftAlone THEN Groups - 1 ELSE Groups
     IN  /\ tasks' = [n \in 1 .. count |->
                        [ids |-> Group(n), newID |-> segCount + n - 1, pc |-> "todo",
                         left |-> Group(n)]]
         /\ segCount' = segCount + count
  /\ UNCHANGED <<concurrent, segIDs, builds, accepted, buildErr, closing, segments, snapshot,
                 offlineFaults>>

Running == {n \in DOMAIN tasks : tasks[n].pc \in {"merging", "removing"}}
Broken  == {n \in DOMAIN tasks : tasks[n].pc = "failed"}
Parallel == IF concurrent /\ Concurrency > 1 /\ Len(tasks) > 1 THEN Concurrency ELSE 1

\* Tasks start in order; without concurrency none starts after one has failed.
StartMerge(n) ==
  /\ n \in DOMAIN tasks /\ tasks[n].pc = "todo"
  /\ \A m \in 1 .. n - 1 : tasks[m].pc # "todo"
  /\ Cardinality(Running) < Parallel
  /\ Parallel = 1 => Broken = {}
  /\ tasks' = [tasks EXCEPT ![n].pc = "merging"]
  /\ UNCHANGED <<concurrent, segCount, segIDs, builds, accepted, buildErr, closing, segments,
                 snapshot, offlineFaults>>

FailMerge(n) ==
  /\ n \in Running
  /\ Fault
  /\ tasks' = [tasks EXCEPT ![n].pc = "failed"]
  /\ UNCHANGED <<concurrent, segCount, segIDs, builds, accepted, buildErr, closing, segments,
                 snapshot>>

Contents(ids) == FlattenSeq([k \in 1 .. Len(ids) |-> segments[ids[k]]])

\* mergeSegments writes the merged file...
WriteMerge(n) ==
  /\ n \in DOMAIN tasks /\ tasks[n].pc = "merging"
  /\ segments' = WithFile(tasks[n].newID, Contents(tasks[n].ids))
  /\ tasks' = [tasks EXCEPT ![n].pc = "removing"]
  /\ UNCHANGED <<concurrent, segCount, segIDs, builds, accepted, buildErr, closing, snapshot,
                 offlineFaults>>

Removable(n) == tasks[n].pc = "removing"

\* ...and then removes the ones that went into it.
RemoveInput(n) ==
  /\ n \in DOMAIN tasks /\ Removable(n)
  /\ segments' = WithoutFile(Head(tasks[n].left))
  /\ tasks' = [tasks EXCEPT ![n].left = Tail(@),
                            ![n].pc = IF Len(tasks[n].left) = 1 THEN "done" ELSE @]
  /\ UNCHANGED <<concurrent, segCount, segIDs, builds, accepted, buildErr, closing, snapshot,
                 offlineFaults>>

\* The round is over once nothing runs or will: its error ends Close.
RoundDone ==
  /\ tasks # <<>> /\ Running = {}
  /\ \/ /\ \A n \in DOMAIN tasks : tasks[n].pc = "done"
        /\ segIDs' = [n \in 1 .. Groups |-> IF n \in DOMAIN tasks THEN tasks[n].newID
                                                                ELSE Last(segIDs)]
        /\ UNCHANGED closing
     \/ /\ Broken # {} /\ (Parallel > 1 => \A n \in DOMAIN tasks : tasks[n].pc # "todo")
        /\ closing' = "failed" /\ UNCHANGED segIDs
  /\ tasks' = <<>>
  /\ UNCHANGED <<concurrent, segCount, builds, accepted, buildErr, segments, snapshot,
                 offlineFaults>>

WriteSnapshot ==
  /\ closing = "merging" /\ tasks = <<>> /\ Len(segIDs) = 1
  /\ \/ /\ snapshot' = segIDs[1] /\ closing' = "closed" /\ UNCHANGED offlineFaults
     \/ Fault /\ closing' = "failed" /\ UNCHANGED snapshot
  /\ UNCHANGED <<concurrent, segCount, segIDs, builds, accepted, buildErr, tasks, segments>>

OfflineNext ==
  \/ Batch \/ CloseOffline \/ BuildsDone \/ PlanRound \/ RoundDone \/ WriteSnapshot
  \/ \E b \in 0 .. MaxBatches - 1 : StartBuild(b) \/ BuildSegment(b)
  \/ \E n \in 1 .. MaxBatches :
       StartMerge(n) \/ FailMerge(n) \/ WriteMerge(n) \/ RemoveInput(n)

OfflineSpec == OfflineInit /\ [][OfflineNext]_offlineVars

-----------------------------------------------------------------------------
(* Properties *)

Rising(docs) == \A j, k \in DOMAIN docs : j < k => docs[j] < docs[k]

\* Whatever fails among the concurrent merges, a batch that has been built is in a segment
\* file of the directory, and in the one segment of the snapshot once Close returns nil:
\* all accepted batches, each once, in the order of their segment ids.
NothingBuiltIsLost ==
  /\ \A b \in accepted \ (DOMAIN builds \cup buildErr) :
       \E i \in DOMAIN segments : b \in ToSet(segments[i])
  /\ closing = "closed" =>
       /\ DOMAIN segments = {snapshot}
       /\ ToSet(segments[snapshot]) = accepted /\ Rising(segments[snapshot])
=============================================================================
