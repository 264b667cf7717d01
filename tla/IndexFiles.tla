----------------------------- MODULE IndexFiles -----------------------------
(***************************************************************************)
(* The life of the files of an index directory (index/directory_fs.go,      *)
(* index/persister.go, index/deletion.go, OpenWriter and OpenReader of      *)
(* index/writer.go): who writes a segment or snapshot file, who removes it, *)
(* and who still needs it, for a writer that may die at any step and        *)
(* readers in other processes that lock what they load.                     *)
(*                                                                         *)
(* Documents are left out: a root or a snapshot is the set of its segment   *)
(* ids.  A file is locked through flock: by the writer, exclusively, while  *)
(* Directory.Persist fills it or Directory.Remove unlinks it, by readers,   *)
(* shared, while they have it loaded.  A lock is never waited for.          *)
(***************************************************************************)
EXTENDS DeletionPolicy

CONSTANTS Readers,     \* processes calling OpenReader
          MaxID,       \* bound: segment ids
          MaxEpoch,    \* bound: epochs
          MaxCrashes   \* bound: crashes of the writer

ASSUME IndexFilesAssumption == MaxID \in Nat /\ MaxEpoch \in Nat /\ MaxCrashes \in Nat

VARIABLES
  mode,       \* the writer: "closed", "loading" in OpenWriter, or "open"
  todo,       \* epochs that loadSnapshots has not loaded yet
  root,       \* [epoch, mem, files]: the root's in-memory and persisted segments
  nextID,     \* the last segment id handed out
  outputs,    \* merge outputs on disk that are not introduced yet
  job,        \* the snapshot being persisted: [pc, epoch, mem, files]
  last,       \* lastPersistedEpoch
  policy,     \* the deletion policy
  segFiles,   \* ids of the .seg files
  snapFiles,  \* .snp files: [epoch, needs, complete]
  reader,     \* where each reader is
  crashes

vars == <<mode, todo, root, nextID, outputs, job, last, policy, segFiles,
          snapFiles, reader, crashes>>

-----------------------------------------------------------------------------

EmptyRoot == [epoch |-> 0, mem |-> {}, files |-> {}]
NoJob     == [pc |-> "idle", epoch |-> 0, mem |-> {}, files |-> {}]

\* A reader: the epochs left to try, the one it reads with the segments it needs,
\* the segment file it has opened but not locked yet, those it has locked.
\* Ghosts: the complete snapshots when it listed the directory, and the segments
\* it needs that were removed after it read that and before it opened them.
NoReader == [pc |-> "idle", todo |-> {}, epoch |-> 0, needs |-> {}, opened |-> {},
             holds |-> {}, listed |-> {}, lost |-> {}]

Epochs   == {f.epoch : f \in snapFiles}
Complete == {f.epoch : f \in {g \in snapFiles : g.complete}}

\* A file shared by a reader cannot be locked exclusively, so neither removed.
SharedSegments  == UNION {reader[r].holds : r \in Readers}
SharedSnapshots == {reader[r].epoch : r \in {q \in Readers : reader[q].pc = "reading"}}

\* The snapshot that Persist is filling is locked exclusively.
Locked(epoch) == job.pc = "filling" /\ job.epoch = epoch

\* What the readers miss when segment files go away.  A file that is open can be
\* read after it was unlinked.
Losing(removed) ==
  [r \in Readers |->
    LET missing == reader[r].needs \ (reader[r].opened \cup reader[r].holds)
    IN  [reader[r] EXCEPT !.lost = @ \cup (removed \cap missing)]]

Init ==
  /\ mode = "open" /\ todo = {}
  /\ root = EmptyRoot /\ nextID = 0 /\ outputs = {}
  /\ job = NoJob /\ last = 0 /\ policy = NewPolicy
  /\ segFiles = {} /\ snapFiles = {}
  /\ reader = [r \in Readers |-> NoReader]
  /\ crashes = 0

-----------------------------------------------------------------------------
(* The introducer and the merger *)

\* A batch: segments whose last document it obsoletes leave, a new one comes.
IntroduceSegment ==
  /\ mode = "open" /\ root.epoch < MaxEpoch /\ nextID < MaxID
  /\ \E gone \in SUBSET (root.mem \cup root.files) :
       root' = [epoch |-> root.epoch + 1,
                mem   |-> (root.mem \ gone) \cup {nextID + 1},
                files |-> root.files \ gone]
  /\ nextID' = nextID + 1
  /\ UNCHANGED <<mode, todo, outputs, job, last, policy, segFiles, snapFiles, reader, crashes>>

\* Mutant: the policy is told of a merge output before any snapshot needs it.
WriteMergeTracked ==
  /\ mode = "open" /\ nextID < MaxID
  /\ nextID' = nextID + 1
  /\ outputs' = outputs \cup {nextID + 1} /\ segFiles' = segFiles \cup {nextID + 1}
  /\ policy' = TrackSegmentFiles(policy, {nextID + 1})
  /\ UNCHANGED <<mode, todo, root, job, last, snapFiles, reader, crashes>>

\* Mutant: ids of files that are gone are used again.
WriteMergeReusing ==
  /\ mode = "open"
  /\ \E id \in (1 .. MaxID) \ (segFiles \cup root.mem \cup job.mem) :
       outputs' = outputs \cup {id} /\ segFiles' = segFiles \cup {id}
  /\ UNCHANGED <<mode, todo, root, nextID, job, last, policy, snapFiles, reader, crashes>>

\* The merger, or the persister's in-memory merge, writes its output; or that
\* fails, and only the id is spent.
WriteMerge ==
  /\ mode = "open" /\ nextID < MaxID
  /\ nextID' = nextID + 1
  /\ \/ outputs' = outputs \cup {nextID + 1} /\ segFiles' = segFiles \cup {nextID + 1}
     \/ UNCHANGED <<outputs, segFiles>>
  /\ UNCHANGED <<mode, todo, root, job, last, policy, snapFiles, reader, crashes>>

\* introduceMerge of the merger's output, or of the persister's, which then
\* also replaces the in-memory segments of the snapshot being persisted.
IntroduceMerge ==
  /\ root.epoch < MaxEpoch
  /\ \E id \in outputs, gone \in SUBSET (root.mem \cup root.files) :
       /\ outputs' = outputs \ {id}
       /\ root' = [epoch |-> root.epoch + 1, mem |-> root.mem \ gone,
                   files |-> (root.files \ gone) \cup {id}]
       /\ \/ UNCHANGED job /\ gone \subseteq root.files
          \/ /\ job.pc = "writing" /\ job.mem # {}
             /\ gone = job.mem \cap root.mem
             /\ job' = [job EXCEPT !.mem = {}, !.files = @ \cup {id}]
  /\ UNCHANGED <<mode, todo, nextID, last, policy, segFiles, snapFiles, reader, crashes>>

\* A merge with nothing live left in it is skipped (what it merged has left the
\* root already) and its file removed, which may fail.
SkipMerge ==
  /\ root.epoch < MaxEpoch
  /\ root' = [root EXCEPT !.epoch = @ + 1]
  /\ \E id \in outputs :
       /\ outputs' = outputs \ {id}
       /\ \/ UNCHANGED <<segFiles, reader>>
          \/ segFiles' = segFiles \ {id} /\ reader' = Losing({id})
  /\ UNCHANGED <<mode, todo, nextID, job, last, policy, snapFiles, crashes>>

-----------------------------------------------------------------------------
(* The persister *)

\* persisterLoop takes a root that is newer than what is persisted.
Take ==
  /\ mode = "open" /\ job.pc = "idle"
  /\ root.epoch > last
  /\ job' = [pc |-> "writing", epoch |-> root.epoch, mem |-> root.mem, files |-> root.files]
  /\ UNCHANGED <<mode, todo, root, nextID, outputs, last, policy, segFiles,
                 snapFiles, reader, crashes>>

\* persistSnapshotDirect writes the in-memory segments one by one; one written
\* by an attempt that failed is written again, to the same effect.
PersistSegment ==
  /\ job.pc = "writing"
  /\ \E id \in job.mem \ segFiles : segFiles' = segFiles \cup {id}
  /\ UNCHANGED <<mode, todo, root, nextID, outputs, job, last, policy, snapFiles,
                 reader, crashes>>

\* introducePersist: the root, too, now has these segments from disk.
IntroducePersist ==
  /\ job.pc = "writing" /\ root.epoch < MaxEpoch
  /\ job.mem # {} /\ job.mem \subseteq segFiles
  /\ root' = [epoch |-> root.epoch + 1, mem |-> root.mem \ job.mem,
              files |-> root.files \cup (root.mem \cap job.mem)]
  /\ job' = [job EXCEPT !.mem = {}, !.files = @ \cup job.mem]
  /\ UNCHANGED <<mode, todo, nextID, outputs, last, policy, segFiles, snapFiles,
                 reader, crashes>>

\* Directory.Persist of the snapshot: openExclusive creates the file under its
\* final name ...
CreateSnapshot ==
  /\ job.pc = "writing" /\ job.mem = {}
  /\ snapFiles' = IF job.epoch \in Epochs THEN snapFiles
                    ELSE snapFiles \cup {[epoch |-> job.epoch, needs |-> job.files,
                                          complete |-> FALSE]}
  /\ job' = [job EXCEPT !.pc = "created"]
  /\ UNCHANGED <<mode, todo, root, nextID, outputs, last, policy, segFiles, reader,
                 crashes>>

\* ... and then locks it, unless a reader was quicker.  Persist returns that
\* error without removing the file it created.
LockSnapshot ==
  /\ job.pc = "created"
  /\ job' = IF job.epoch \in SharedSnapshots THEN NoJob ELSE [job EXCEPT !.pc = "filling"]
  /\ UNCHANGED <<mode, todo, root, nextID, outputs, last, policy, segFiles, snapFiles,
                 reader, crashes>>

\* Persist returns with the file complete and unlocked, and Commit.
CommitSnapshot ==
  /\ job.pc = "filling"
  /\ snapFiles' = {f \in snapFiles : f.epoch # job.epoch}
                    \cup {[epoch |-> job.epoch, needs |-> job.files, complete |-> TRUE]}
  /\ policy' = Commit(policy, job.epoch, job.files)
  /\ last' = job.epoch
  /\ job' = NoJob
  /\ UNCHANGED <<mode, todo, root, nextID, outputs, segFiles, reader, crashes>>

\* Filling the snapshot or writing a segment fails.  Persist removes the file it
\* was writing, even a segment that an earlier attempt completed.
FailJob ==
  /\ \/ /\ job.pc = "filling"
        /\ snapFiles' = {f \in snapFiles : f.epoch # job.epoch}
        /\ UNCHANGED segFiles
     \/ /\ job.pc = "writing"
        /\ \/ UNCHANGED segFiles
           \/ \E id \in job.mem : segFiles' = segFiles \ {id}
        /\ UNCHANGED snapFiles
  /\ job' = NoJob
  /\ UNCHANGED <<mode, todo, root, nextID, outputs, last, policy, reader, crashes>>

\* Cleanup of the deletion policy, snapshots first.  What cannot be removed now,
\* for one because a reader shares it, is tried again next time.
CleanupSnapshots ==
  /\ mode = "open" /\ job.pc = "idle"
  /\ \E removed \in SUBSET (policy.deletable \ SharedSnapshots) :
       /\ removed # {}
       /\ snapFiles' = {f \in snapFiles : f.epoch \notin removed}
       /\ policy' = ForgetSnapshots(policy, removed)
  /\ UNCHANGED <<mode, todo, root, nextID, outputs, job, last, segFiles, reader, crashes>>

CleanupSegments ==
  /\ mode = "open" /\ job.pc = "idle"
  /\ \E removed \in SUBSET (Unneeded(policy) \ SharedSegments) :
       /\ removed # {}
       /\ segFiles' = segFiles \ removed
       /\ reader' = Losing(removed)
       /\ policy' = ForgetSegments(policy, removed)
  /\ UNCHANGED <<mode, todo, root, nextID, outputs, job, last, snapFiles, crashes>>

-----------------------------------------------------------------------------
(* Crash, or Close after its last Cleanup, and OpenWriter *)

Forget(m) ==
  /\ mode' = m
  /\ root' = EmptyRoot /\ outputs' = {} /\ job' = NoJob /\ last' = 0
  /\ policy' = NewPolicy

Crash ==
  /\ mode # "closed" /\ crashes < MaxCrashes
  /\ Forget("closed") /\ todo' = {} /\ nextID' = 0
  /\ crashes' = crashes + 1
  /\ UNCHANGED <<segFiles, snapFiles, reader>>

\* OpenWriter up to loadSnapshots: ids continue above every segment file.
StartOpen ==
  /\ mode = "closed"
  /\ Forget("loading") /\ todo' = Epochs
  /\ nextID' \in segFiles \cup {0}
  /\ \A id \in segFiles : id <= nextID'
  /\ UNCHANGED <<segFiles, snapFiles, reader, crashes>>

\* One round of loadSnapshots: the oldest epoch left.  One that cannot be loaded
\* fails the open (abortOpen), and nothing is cleaned up.
LoadSnapshot ==
  /\ mode = "loading"
  /\ \E f \in snapFiles :
       /\ f.epoch \in todo
       /\ \A e \in todo : f.epoch <= e
       /\ f.complete /\ f.needs \subseteq segFiles
       /\ policy' = Commit(policy, f.epoch, f.needs)
       /\ root' = [epoch |-> f.epoch, mem |-> {}, files |-> f.needs]
       /\ last' = f.epoch
       /\ todo' = todo \ {f.epoch}
  /\ UNCHANGED <<mode, nextID, outputs, job, segFiles, snapFiles, reader, crashes>>

AbortOpen ==
  /\ mode = "loading"
  /\ \E f \in snapFiles :
       /\ f.epoch \in todo
       /\ \A e \in todo : f.epoch <= e
       /\ ~(f.complete /\ f.needs \subseteq segFiles)
  /\ Forget("closed") /\ todo' = {} /\ nextID' = 0
  /\ UNCHANGED <<segFiles, snapFiles, reader, crashes>>

\* The rest of OpenWriter: every segment file is known from now on.  Its Cleanup
\* is the first CleanupSnapshots and CleanupSegments.
FinishOpen ==
  /\ mode = "loading" /\ todo = {}
  /\ policy' = TrackSegmentFiles(policy, segFiles)
  /\ mode' = "open"
  /\ UNCHANGED <<todo, root, nextID, outputs, job, last, segFiles, snapFiles, reader,
                 crashes>>

-----------------------------------------------------------------------------
(* OpenReader in another process *)

Becomes(r, state) == reader' = [reader EXCEPT ![r] = state]

OnlyReader == UNCHANGED <<mode, todo, root, nextID, outputs, job, last, policy,
                          segFiles, snapFiles, crashes>>

\* Directory.List of the snapshots.
ListSnapshots(r) ==
  /\ reader[r].pc = "idle" /\ snapFiles # {}
  /\ Becomes(r, [NoReader EXCEPT !.pc = "choosing", !.todo = Epochs, !.listed = Complete])
  /\ OnlyReader

Newest(epochs) == CHOOSE e \in epochs : \A f \in epochs : f <= e

\* Mutant: no older snapshot is tried.
RetryNone(r) ==
  [reader[r] EXCEPT !.pc = "choosing", !.todo = {}, !.epoch = 0,
                    !.needs = {}, !.holds = {}, !.lost = {}]

\* loadSnapshot gave up on the epoch: what was loaded is closed, the next older
\* one is tried.
Retry(r) ==
  [reader[r] EXCEPT !.pc = "choosing", !.todo = @ \ {Newest(@)}, !.epoch = 0,
                    !.needs = {}, !.holds = {}, !.lost = {}]

\* openShared of the newest snapshot file left, not there or locked meanwhile.
\* Removing it between the open and the flock leaves the reader what it would
\* have read before, so the two are one step.
OpenSnapshot(r) ==
  /\ reader[r].pc = "choosing" /\ reader[r].todo # {}
  /\ LET e == Newest(reader[r].todo)
     IN  Becomes(r, IF e \in Epochs /\ ~Locked(e)
                      THEN [reader[r] EXCEPT !.pc = "reading", !.epoch = e]
                      ELSE Retry(r))
  /\ OnlyReader

\* ReadFrom, and closing the snapshot file again.
ReadSnapshot(r) ==
  /\ reader[r].pc = "reading"
  /\ \E f \in snapFiles :
       /\ f.epoch = reader[r].epoch
       /\ Becomes(r, IF f.complete
                        THEN [reader[r] EXCEPT !.pc = "loading", !.needs = f.needs]
                        ELSE Retry(r))
  /\ OnlyReader

\* loadSegment for one of its segments: open the file ...
OpenSegment(r) ==
  /\ reader[r].pc = "loading" /\ reader[r].opened = {}
  /\ \E id \in reader[r].needs \ reader[r].holds :
       Becomes(r, IF id \in segFiles THEN [reader[r] EXCEPT !.opened = {id}] ELSE Retry(r))
  /\ OnlyReader

\* ... and lock it, which keeps Remove away from here on.
LockSegment(r) ==
  /\ reader[r].opened # {}
  /\ Becomes(r, [reader[r] EXCEPT !.opened = {}, !.holds = @ \cup reader[r].opened])
  /\ OnlyReader

\* OpenReader returns: with the snapshot, or with no usable snapshot.
ReturnSnapshot(r) ==
  /\ reader[r].pc = "loading" /\ reader[r].needs = reader[r].holds
  /\ Becomes(r, [reader[r] EXCEPT !.pc = "open"])
  /\ OnlyReader

ReturnError(r) ==
  /\ reader[r].pc = "choosing" /\ reader[r].todo = {}
  /\ Becomes(r, [reader[r] EXCEPT !.pc = "failed"])
  /\ OnlyReader

CloseReader(r) ==
  /\ reader[r].pc \in {"open", "failed"}
  /\ Becomes(r, NoReader)
  /\ OnlyReader

-----------------------------------------------------------------------------

Writer ==
  \/ IntroduceSegment \/ WriteMerge \/ IntroduceMerge \/ SkipMerge
  \/ Take \/ PersistSegment \/ IntroducePersist \/ CreateSnapshot \/ LockSnapshot
  \/ CommitSnapshot \/ FailJob \/ CleanupSnapshots \/ CleanupSegments
  \/ Crash \/ StartOpen \/ LoadSnapshot \/ AbortOpen \/ FinishOpen

Reader(r) ==
  \/ ListSnapshots(r) \/ OpenSnapshot(r) \/ ReadSnapshot(r)
  \/ OpenSegment(r) \/ LockSegment(r)
  \/ ReturnSnapshot(r) \/ ReturnError(r) \/ CloseReader(r)

Next == Writer \/ \E r \in Readers : Reader(r)

Spec == Init /\ [][Next]_vars

-----------------------------------------------------------------------------
(* Properties *)

Roots == [epoch : Nat, mem : SUBSET Nat, files : SUBSET Nat]

Jobs == [pc : {"idle", "writing", "created", "filling"}, epoch : Nat,
         mem : SUBSET Nat, files : SUBSET Nat]

SnapFiles == [epoch : Nat, needs : SUBSET Nat, complete : BOOLEAN]

ReaderStates ==
  [pc : {"idle", "choosing", "reading", "loading", "open", "failed"},
   todo : SUBSET Nat, epoch : Nat, needs : SUBSET Nat, opened : SUBSET Nat,
   holds : SUBSET Nat, listed : SUBSET Nat, lost : SUBSET Nat]

TypeOK ==
  /\ mode \in {"closed", "loading", "open"}
  /\ todo \subseteq Nat
  /\ root \in Roots
  /\ nextID \in Nat /\ last \in Nat /\ crashes \in Nat
  /\ outputs \subseteq Nat
  /\ job \in Jobs
  /\ policy \in Policies
  /\ segFiles \subseteq Nat
  /\ snapFiles \subseteq SnapFiles
  /\ reader \in [Readers -> ReaderStates]

\* At any moment, so after a crash at any moment, every complete snapshot file
\* has all its segment files, whatever was merged away, retried or cleaned up.
SnapshotsComplete ==
  \A f \in snapFiles : f.complete => f.needs \subseteq segFiles

\* An open root never loses a file it may still have to load or merge, although
\* the policy learns of a segment only when a snapshot with it is committed.
RootComplete == root.files \subseteq segFiles /\ root.files \cap Unneeded(policy) = {}

\* OpenReader reports no usable snapshot only when it was overtaken: every
\* snapshot it could have used when it listed the directory has been removed.
OnlyOvertakenReadersFail ==
  \A r \in Readers : reader[r].pc = "failed" => reader[r].listed \cap Complete = {}

\* A reader between reading a snapshot and loading its segments never takes a
\* new segment for an old one of the same id.  Only within one session of the
\* writer: when it reopens, ids start again above what is left on disk.
NoSegmentIsMistaken ==
  crashes = 0 => \A r \in Readers : reader[r].holds \cap reader[r].lost = {}

\* The newest complete snapshot is never removed: what was committed last is
\* there to be opened until something newer is.
NewestStays ==
  [][\A e \in Complete : \E f \in Complete' : e <= f]_snapFiles

=============================================================================
