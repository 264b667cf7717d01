-------------------------- MODULE IndexFilesProofs --------------------------
(***************************************************************************)
(* Proofs about IndexFiles, for any number of segments, epochs, crashes and *)
(* readers, and any number of snapshots to keep.                            *)
(*                                                                         *)
(* That no complete snapshot loses a segment file is not inductive: what    *)
(* may be removed is decided from the bookkeeping of the deletion policy,   *)
(* so the invariant has to say how the policy, the root, the snapshot being *)
(* persisted and the merge outputs relate to what is on disk.               *)
(***************************************************************************)
EXTENDS IndexFiles, TLAPS

Active == job.pc # "idle"

\* Outside an open writer, and between two jobs of the persister, there is
\* nothing in memory but what loadSnapshots has loaded.
Quiet ==
  /\ mode # "open" => root.mem = {} /\ outputs = {} /\ ~Active
  /\ ~Active => job.mem = {} /\ job.files = {}
  /\ mode # "loading" => todo = {}

\* Everything that is referred to as a file is one.
OnDisk == UNION {root.files, job.files, outputs} \subseteq segFiles

\* A segment is in memory, a file of the root, or an output of a merge, not two
\* of these; the policy knows of none but files that a commit told it about.
Apart ==
  /\ root.mem \cap (root.files \cup job.files) = {}
  /\ job.mem \cap root.files = {}
  /\ outputs \cap (root.mem \cup root.files \cup job.mem \cup job.files) = {}
  /\ (root.mem \cup job.mem \cup outputs) \cap policy.known = {}

\* Ids that were handed out are not handed out again.
Fresh ==
  mode # "closed" =>
    \A i \in segFiles \cup policy.known \cup root.mem \cup job.mem : i <= nextID

\* Epochs identify snapshots.  Those the policy has seen are not above the last
\* persisted one, which it never retires; those to come are.
Ordered ==
  /\ \A f, g \in snapFiles : f.epoch = g.epoch => f = g
  /\ \A f \in snapFiles : f.epoch > 0
  /\ \A e \in policy.deletable : e < last
  /\ \A i \in 1 .. Len(policy.live) : policy.live[i] <= last
  /\ \A e \in todo : e > last
  /\ Active => job.epoch > last

\* The policy claims every segment of every complete snapshot, and those it
\* knows of the root for the last persisted one.
Claimed ==
  /\ \A x \in policy.needs : x[2] \in policy.known
  /\ mode # "closed" =>
       \A f \in snapFiles : f.complete /\ f.epoch \notin todo =>
         \A i \in f.needs : <<f.epoch, i>> \in policy.needs
  /\ \A i \in root.files : mode = "loading" \/ i \in policy.known => <<last, i>> \in policy.needs
  /\ Active => root.files \cap policy.known \subseteq job.files

\* The last persisted snapshot is the newest complete one.
Newer ==
  mode # "closed" =>
    \A f \in snapFiles : f.complete /\ f.epoch \notin todo =>
      f.epoch <= last /\ \E g \in snapFiles : g.complete /\ g.epoch = last

\* The inductive invariant.
IInv == /\ TypeOK /\ Quiet /\ OnDisk /\ Apart /\ Fresh /\ Ordered /\ Claimed /\ Newer
        /\ SnapshotsComplete

-----------------------------------------------------------------------------

\* The ghost of the readers keeps its type.
LEMMA LosingType ==
  ASSUME TypeOK, NEW removed \in SUBSET Nat
  PROVE  Losing(removed) \in [Readers -> ReaderStates]
<1> SUFFICES ASSUME NEW r \in Readers
             PROVE  Losing(removed)[r] \in ReaderStates
  BY DEF Losing
<1>1. reader[r] \in ReaderStates
  BY DEF TypeOK
<1>2. reader[r].lost \cup (removed \cap (reader[r].needs
        \ (reader[r].opened \cup reader[r].holds))) \in SUBSET Nat
  BY <1>1 DEF ReaderStates
<1> QED
  BY <1>1, <1>2 DEF Losing, ReaderStates

\* Commit returns a policy.
LEMMA CommitType ==
  ASSUME NEW p \in Policies, NEW epoch \in Nat, NEW ids \in SUBSET Nat
  PROVE  Commit(p, epoch, ids) \in Policies
<1> DEFINE live == Append(p.live, epoch)
           n    == Surplus(live)
<1>1. live \in Seq(Nat) /\ Len(live) = Len(p.live) + 1 /\ Len(p.live) \in Nat
  BY DEF Policies
<1>2. n \in Nat /\ n <= Len(live)
  BY <1>1, KeepAssumption DEF Surplus
<1>3. SubSeq(live, n + 1, Len(live)) \in Seq(Nat)
  BY <1>1, <1>2
<1>4. {live[i] : i \in 1 .. n} \in SUBSET Nat
  BY <1>1, <1>2
<1>5. {x \in p.needs : x[1] # epoch} \cup ({epoch} \X ids) \in SUBSET (Nat \X Nat)
  BY DEF Policies
<1> QED
  BY <1>3, <1>4, <1>5 DEF Commit, Policies

\* An epoch above all that came before is retained, and all others stay below it.
LEMMA CommitOrder ==
  ASSUME NEW p \in Policies, NEW epoch \in Nat, NEW ids \in SUBSET Nat,
         \A e \in p.deletable : e < epoch,
         \A i \in 1 .. Len(p.live) : p.live[i] < epoch
  PROVE  /\ \A e \in Commit(p, epoch, ids).deletable : e < epoch
         /\ \A i \in 1 .. Len(Commit(p, epoch, ids).live) : Commit(p, epoch, ids).live[i] <= epoch
<1> DEFINE live == Append(p.live, epoch)
           n    == Surplus(live)
           rest == SubSeq(live, n + 1, Len(live))
<1>1. /\ live \in Seq(Nat) /\ Len(live) = Len(p.live) + 1 /\ Len(p.live) \in Nat
      /\ \A i \in 1 .. Len(p.live) : live[i] = p.live[i]
      /\ live[Len(live)] = epoch
  BY DEF Policies
<1>2. n \in Nat /\ n < Len(live)
  BY <1>1, KeepAssumption DEF Surplus
<1>3. \A i \in 1 .. n : live[i] < epoch
  BY <1>1, <1>2
<1> HIDE DEF live, n
<1>4. Len(rest) = Len(live) - n /\ \A i \in 1 .. Len(rest) : rest[i] = live[i + n]
  <2>1. Len(rest) = Len(live) - n
    BY <1>1, <1>2
  <2>2. ASSUME NEW i \in 1 .. Len(rest)
        PROVE  rest[i] = live[i + n]
    <3>1. rest[i] = live[(n + 1) + i - 1]
      BY <1>1, <1>2, <2>1
    <3>2. (n + 1) + i - 1 = i + n
      BY <1>2
    <3> QED
      BY <3>1, <3>2
  <2> QED
    BY <2>1, <2>2
<1>5. \A i \in 1 .. Len(live) : live[i] <= epoch
  BY <1>1
<1>6. \A i \in 1 .. Len(rest) : rest[i] <= epoch
  <2> SUFFICES ASSUME NEW i \in 1 .. Len(rest)
               PROVE  rest[i] <= epoch
    OBVIOUS
  <2>1. i + n \in 1 .. Len(live)
    BY <1>1, <1>2, <1>4
  <2> QED
    BY <2>1, <1>4, <1>5
<1> USE DEF live, n
<1>7. /\ Commit(p, epoch, ids).deletable = p.deletable \cup {live[i] : i \in 1 .. n}
      /\ Commit(p, epoch, ids).live = rest
  BY DEF Commit
<1>8. \A e \in p.deletable \cup {live[i] : i \in 1 .. n} : e < epoch
  BY <1>3
<1> HIDE DEF live, n, rest
<1> QED
  BY <1>6, <1>7, <1>8

\* What an open writer's policy knows of the complete snapshots.
LEMMA NeededIsKnown ==
  ASSUME IInv, mode = "open", NEW f \in snapFiles, f.complete
  PROVE  /\ f.needs \subseteq policy.known
         /\ \A i \in f.needs : <<f.epoch, i>> \in policy.needs
<1>1. todo = {}
  BY DEF IInv, Quiet
<1>2. \A i \in f.needs : <<f.epoch, i>> \in policy.needs
  BY <1>1 DEF IInv, Claimed
<1>3. ASSUME NEW i \in f.needs
      PROVE  i \in policy.known
  <2>1. <<f.epoch, i>>[2] \in policy.known
    BY <1>2 DEF IInv, Claimed
  <2> QED
    BY <2>1
<1> QED
  BY <1>2, <1>3

-----------------------------------------------------------------------------
(* One lemma per action of the writer, in the order of IndexFiles. *)

\* The new segment has an id above every id in use.
LEMMA IntroduceSegmentStep ==
  ASSUME IInv, IntroduceSegment
  PROVE  IInv'
<1> USE DEF IInv, TypeOK, Roots, Jobs, SnapFiles, IntroduceSegment
<1>1. TypeOK'
  OBVIOUS
<1>2. Quiet'
  BY DEF Quiet, Active
<1>3. OnDisk'
  BY DEF OnDisk
<1>4. Apart'
  BY DEF Apart, Fresh, OnDisk
<1>5. Fresh'
  BY DEF Fresh
<1>6. Ordered'
  BY DEF Ordered, Active
<1>7. Claimed'
  BY DEF Claimed, Active
<1>8. Newer'
  BY DEF Newer
<1>9. SnapshotsComplete'
  BY DEF SnapshotsComplete
<1> QED
  BY <1>1, <1>2, <1>3, <1>4, <1>5, <1>6, <1>7, <1>8, <1>9

\* So has a merge output.
LEMMA WriteMergeStep ==
  ASSUME IInv, WriteMerge
  PROVE  IInv'
<1> USE DEF IInv, TypeOK, Roots, Jobs, SnapFiles, WriteMerge
<1>1. TypeOK'
  <2>1. CASE outputs' = outputs \cup {nextID + 1} /\ segFiles' = segFiles \cup {nextID + 1}
    BY <2>1
  <2>2. CASE UNCHANGED <<outputs, segFiles>>
    BY <2>2
  <2> QED
    BY <2>1, <2>2
<1>2. Quiet'
  BY DEF Quiet, Active
<1>3. OnDisk'
  <2>1. CASE outputs' = outputs \cup {nextID + 1} /\ segFiles' = segFiles \cup {nextID + 1}
    BY <2>1 DEF OnDisk, Quiet
  <2>2. CASE UNCHANGED <<outputs, segFiles>>
    BY <2>2 DEF OnDisk, Quiet
  <2> QED
    BY <2>1, <2>2
<1>4. Apart'
  BY DEF Apart, Fresh, OnDisk
<1>5. Fresh'
  <2>1. CASE outputs' = outputs \cup {nextID + 1} /\ segFiles' = segFiles \cup {nextID + 1}
    BY <2>1 DEF Fresh, OnDisk, Quiet, Policies
  <2>2. CASE UNCHANGED <<outputs, segFiles>>
    BY <2>2 DEF Fresh, OnDisk, Quiet, Policies
  <2> QED
    BY <2>1, <2>2
<1>6. Ordered'
  BY DEF Ordered, Active
<1>7. Claimed'
  BY DEF Claimed, Active
<1>8. Newer'
  BY DEF Newer
<1>9. SnapshotsComplete'
  BY DEF SnapshotsComplete
<1> QED
  BY <1>1, <1>2, <1>3, <1>4, <1>5, <1>6, <1>7, <1>8, <1>9

\* An output becomes a file of the root, which the policy does not know yet.
LEMMA IntroduceMergeStep ==
  ASSUME IInv, IntroduceMerge
  PROVE  IInv'
<1> USE DEF IInv, TypeOK, Roots, Jobs, SnapFiles, IntroduceMerge
<1> PICK id \in outputs, gone \in SUBSET (root.mem \cup root.files) :
       /\ outputs' = outputs \ {id}
       /\ root' = [epoch |-> root.epoch + 1, mem |-> root.mem \ gone,
                   files |-> (root.files \ gone) \cup {id}]
       /\ \/ UNCHANGED job /\ gone \subseteq root.files
          \/ /\ job.pc = "writing" /\ job.mem # {}
             /\ gone = job.mem \cap root.mem
             /\ job' = [job EXCEPT !.mem = {}, !.files = @ \cup {id}]
  OBVIOUS
<1>a. /\ root' \in Roots
      /\ root'.mem = root.mem \ gone /\ root'.files = (root.files \ gone) \cup {id}
  OBVIOUS
<1>b. /\ job' \in Jobs /\ job'.pc = job.pc /\ job'.epoch = job.epoch
      /\ \/ job'.mem = job.mem /\ job'.files = job.files
         \/ job.pc = "writing" /\ job'.mem = {} /\ job'.files = job.files \cup {id}
  <2>1. CASE UNCHANGED job
    BY <2>1
  <2>2. CASE job' = [job EXCEPT !.mem = {}, !.files = @ \cup {id}] /\ job.pc = "writing"
    <3>1. job.files \cup {id} \in SUBSET Nat
      OBVIOUS
    <3> QED
      BY <2>2, <3>1
  <2> QED
    BY <2>1, <2>2
<1>c. root'.epoch >= root.epoch /\ outputs' = outputs \ {id}
  OBVIOUS
<1>1. TypeOK'
  BY <1>a, <1>b, <1>c
<1>2. Quiet'
  BY <1>a, <1>b, <1>c DEF Quiet, Active
<1>3. OnDisk'
  BY <1>a, <1>b, <1>c DEF OnDisk
<1>4. Apart'
  BY <1>a, <1>b, <1>c DEF Apart
<1>5. Fresh'
  BY <1>a, <1>b, <1>c DEF Fresh, OnDisk
<1>6. Ordered'
  BY <1>a, <1>b, <1>c DEF Ordered, Active
<1>7. Claimed'
  BY <1>a, <1>b, <1>c DEF Claimed, Active, Apart, Quiet
<1>8. Newer'
  BY <1>a, <1>b, <1>c DEF Newer
<1>9. SnapshotsComplete'
  BY <1>a, <1>b, <1>c DEF SnapshotsComplete
<1> QED
  BY <1>1, <1>2, <1>3, <1>4, <1>5, <1>6, <1>7, <1>8, <1>9

\* An output that is removed is needed by no complete snapshot.
LEMMA SkipMergeStep ==
  ASSUME IInv, SkipMerge
  PROVE  IInv'
<1> USE DEF IInv, TypeOK, Roots, Jobs, SnapFiles, SkipMerge
<1> PICK id \in outputs :
       /\ outputs' = outputs \ {id}
       /\ \/ UNCHANGED <<segFiles, reader>>
          \/ segFiles' = segFiles \ {id} /\ reader' = Losing({id})
  OBVIOUS
<1>0. reader' \in [Readers -> ReaderStates] /\ (segFiles' = segFiles \/ segFiles' = segFiles \ {id})
  BY LosingType
<1>1. TypeOK'
  BY <1>0
<1>2. Quiet'
  BY DEF Quiet, Active
<1>3. OnDisk'
  BY <1>0 DEF OnDisk, Apart
<1>4. Apart'
  BY DEF Apart
<1>5. Fresh'
  BY DEF Fresh
<1>6. Ordered'
  BY DEF Ordered, Active
<1>7. Claimed'
  BY DEF Claimed, Active
<1>8. Newer'
  BY DEF Newer
<1>9. SnapshotsComplete'
  <2> SUFFICES ASSUME NEW f \in snapFiles, f.complete
               PROVE  f.needs \subseteq segFiles'
    BY DEF SnapshotsComplete
  <2>1. id \notin f.needs
    BY NeededIsKnown DEF Quiet, Apart
  <2> QED
    BY <1>0, <2>1 DEF SnapshotsComplete
<1> QED
  BY <1>1, <1>2, <1>3, <1>4, <1>5, <1>6, <1>7, <1>8, <1>9

\* The job starts with the root's segments and an epoch above the last one.
LEMMA TakeStep ==
  ASSUME IInv, Take
  PROVE  IInv'
<1> USE DEF IInv, TypeOK, Roots, Jobs, SnapFiles, Take
<1>1. TypeOK'
  OBVIOUS
<1>2. Quiet'
  BY DEF Quiet, Active
<1>3. OnDisk'
  BY DEF OnDisk
<1>4. Apart'
  BY DEF Apart
<1>5. Fresh'
  BY DEF Fresh
<1>6. Ordered'
  BY DEF Ordered
<1>7. Claimed'
  BY DEF Claimed
<1>8. Newer'
  BY DEF Newer
<1>9. SnapshotsComplete'
  BY DEF SnapshotsComplete
<1> QED
  BY <1>1, <1>2, <1>3, <1>4, <1>5, <1>6, <1>7, <1>8, <1>9

\* Only segments in memory are written.
LEMMA PersistSegmentStep ==
  ASSUME IInv, PersistSegment
  PROVE  IInv'
<1> USE DEF IInv, TypeOK, Roots, Jobs, SnapFiles, PersistSegment
<1>1. TypeOK'
  OBVIOUS
<1>2. Quiet'
  BY DEF Quiet, Active
<1>3. OnDisk'
  BY DEF OnDisk
<1>4. Apart'
  BY DEF Apart
<1>5. Fresh'
  BY DEF Fresh
<1>6. Ordered'
  BY DEF Ordered, Active
<1>7. Claimed'
  BY DEF Claimed, Active
<1>8. Newer'
  BY DEF Newer
<1>9. SnapshotsComplete'
  BY DEF SnapshotsComplete
<1> QED
  BY <1>1, <1>2, <1>3, <1>4, <1>5, <1>6, <1>7, <1>8, <1>9

\* Segments in memory become files of the root and of the job together.
LEMMA IntroducePersistStep ==
  ASSUME IInv, IntroducePersist
  PROVE  IInv'
<1> USE DEF IInv, TypeOK, Roots, Jobs, SnapFiles, IntroducePersist
<1>1. TypeOK'
  <2>1. root.files \cup (root.mem \cap job.mem) \in SUBSET Nat /\ job.files \cup job.mem \in SUBSET Nat
    OBVIOUS
  <2>2. root' \in Roots
    BY <2>1
  <2>3. job' \in Jobs
    BY <2>1
  <2> QED
    BY <2>2, <2>3
<1>2. Quiet'
  BY DEF Quiet, Active
<1>3. OnDisk'
  BY DEF OnDisk
<1>4. Apart'
  BY DEF Apart
<1>5. Fresh'
  BY DEF Fresh
<1>6. Ordered'
  BY DEF Ordered, Active
<1>7. Claimed'
  BY DEF Claimed, Apart, Quiet
<1>8. Newer'
  BY DEF Newer
<1>9. SnapshotsComplete'
  BY DEF SnapshotsComplete
<1> QED
  BY <1>1, <1>2, <1>3, <1>4, <1>5, <1>6, <1>7, <1>8, <1>9

\* A new snapshot file is not complete.
LEMMA CreateSnapshotStep ==
  ASSUME IInv, CreateSnapshot
  PROVE  IInv'
<1> USE DEF IInv, TypeOK, Roots, Jobs, SnapFiles, CreateSnapshot, Epochs
<1> DEFINE new == [epoch |-> job.epoch, needs |-> job.files, complete |-> FALSE]
<1>a. /\ new \in SnapFiles /\ new.epoch = job.epoch /\ ~new.complete
      /\ \/ snapFiles' = snapFiles
         \/ snapFiles' = snapFiles \cup {new} /\ \A f \in snapFiles : f.epoch # job.epoch
  OBVIOUS
<1>b. /\ job' \in Jobs /\ job'.epoch = job.epoch
      /\ job'.mem = job.mem /\ job'.files = job.files
  OBVIOUS
<1>c. mode = "open" /\ Active /\ Active'
  BY DEF Quiet, Active
<1> HIDE DEF new
<1>1. TypeOK'
  BY <1>a, <1>b
<1>2. Quiet'
  BY DEF Quiet, Active
<1>3. OnDisk'
  BY DEF OnDisk
<1>4. Apart'
  BY DEF Apart
<1>5. Fresh'
  BY DEF Fresh
<1>6. Ordered'
  BY <1>a, <1>b, <1>c DEF Ordered
<1>7. Claimed'
  BY <1>a, <1>b, <1>c DEF Claimed, Active
<1>8. Newer'
  BY <1>a DEF Newer
<1>9. SnapshotsComplete'
  BY <1>a DEF SnapshotsComplete
<1> QED
  BY <1>1, <1>2, <1>3, <1>4, <1>5, <1>6, <1>7, <1>8, <1>9

\* A job given up leaves what it wrote.
LEMMA LockSnapshotStep ==
  ASSUME IInv, LockSnapshot
  PROVE  IInv'
<1> USE DEF IInv, TypeOK, Roots, Jobs, SnapFiles, LockSnapshot, NoJob
<1>1. TypeOK'
  OBVIOUS
<1>2. Quiet'
  BY DEF Quiet, Active
<1>3. OnDisk'
  BY DEF OnDisk
<1>4. Apart'
  BY DEF Apart
<1>5. Fresh'
  BY DEF Fresh
<1>6. Ordered'
  BY DEF Ordered, Active
<1>7. Claimed'
  BY DEF Claimed, Active
<1>8. Newer'
  BY DEF Newer
<1>9. SnapshotsComplete'
  BY DEF SnapshotsComplete
<1> QED
  BY <1>1, <1>2, <1>3, <1>4, <1>5, <1>6, <1>7, <1>8, <1>9

\* The completed snapshot has all its files, and the policy claims them at once.
LEMMA CommitSnapshotStep ==
  ASSUME IInv, CommitSnapshot
  PROVE  IInv'
<1> USE DEF IInv, TypeOK, Roots, Jobs, SnapFiles, CommitSnapshot, NoJob, Commit
<1> DEFINE new == [epoch |-> job.epoch, needs |-> job.files, complete |-> TRUE]
<1>a. mode = "open" /\ Active /\ todo = {} /\ job.epoch > last
  BY DEF Quiet, Active, Ordered
<1>b. policy' \in Policies
  BY CommitType
<1>c. /\ policy'.known = policy.known \cup job.files
      /\ policy'.needs = {x \in policy.needs : x[1] # job.epoch} \cup ({job.epoch} \X job.files)
  BY DEF Commit
<1>d. /\ \A e \in policy'.deletable : e < job.epoch
      /\ \A i \in 1 .. Len(policy'.live) : policy'.live[i] <= job.epoch
  <2>1. \A e \in policy.deletable : e < job.epoch
    BY <1>a DEF Ordered, Policies
  <2>2. \A i \in 1 .. Len(policy.live) : policy.live[i] < job.epoch
    BY <1>a DEF Ordered, Policies
  <2> QED
    BY <2>1, <2>2, CommitOrder
<1>e. /\ new \in SnapFiles /\ new.epoch = job.epoch /\ new.needs = job.files /\ new.complete
      /\ \A f : f \in snapFiles' <=> f = new \/ (f \in snapFiles /\ f.epoch # job.epoch)
  OBVIOUS
<1>f. job' = NoJob /\ NoJob \in Jobs /\ NoJob.pc = "idle" /\ NoJob.mem = {} /\ NoJob.files = {}
  OBVIOUS
<1> HIDE DEF new
<1>1. TypeOK'
  <2>1. snapFiles' \subseteq SnapFiles
    BY <1>e
  <2> QED
    BY <1>b, <1>f, <2>1
<1>2. Quiet'
  BY DEF Quiet, Active
<1>3. OnDisk'
  BY DEF OnDisk
<1>4. Apart'
  BY <1>c, <1>f DEF Apart
<1>5. Fresh'
  BY <1>a, <1>c, <1>f DEF Fresh, OnDisk
<1>6. Ordered'
  <2>1. \A f, g \in snapFiles' : f.epoch = g.epoch => f = g
    BY <1>e DEF Ordered
  <2>2. \A f \in snapFiles' : f.epoch > 0
    BY <1>a, <1>e DEF Ordered
  <2> QED
    BY <1>a, <1>d, <1>f, <2>1, <2>2 DEF Ordered, Active
<1>7. Claimed'
  <2>1. \A i \in job.files : <<job.epoch, i>> \in policy'.needs
    BY <1>c
  <2>2. \A x \in policy'.needs : x[2] \in policy'.known
    BY <1>c DEF Claimed
  <2>3. ASSUME NEW f \in snapFiles', f.complete, NEW i \in f.needs
        PROVE  <<f.epoch, i>> \in policy'.needs
    <3>1. CASE f = new
      BY <1>e, <2>1, <2>3, <3>1
    <3>2. CASE f \in snapFiles /\ f.epoch # job.epoch
      <4>1. <<f.epoch, i>> \in policy.needs /\ <<f.epoch, i>>[1] # job.epoch
        BY <1>a, <2>3, <3>2, NeededIsKnown
      <4> QED
        BY <1>c, <4>1
    <3> QED
      BY <1>e, <3>1, <3>2
  <2>4. \A i \in root.files : i \in policy'.known => i \in job.files
    BY <1>a, <1>c DEF Claimed
  <2> QED
    BY <1>a, <1>f, <2>1, <2>2, <2>3, <2>4 DEF Claimed, Active
<1>8. Newer'
  <2>1. \A f \in snapFiles' : f.complete => f.epoch <= job.epoch
    BY <1>a, <1>e DEF Newer
  <2> QED
    BY <1>e, <2>1 DEF Newer
<1>9. SnapshotsComplete'
  BY <1>e DEF SnapshotsComplete, OnDisk
<1> QED
  BY <1>1, <1>2, <1>3, <1>4, <1>5, <1>6, <1>7, <1>8, <1>9

\* What a failed job removes was in memory, so in no complete snapshot, or not complete.
LEMMA FailJobStep ==
  ASSUME IInv, FailJob
  PROVE  IInv'
<1> USE DEF IInv, TypeOK, Roots, Jobs, SnapFiles, FailJob, NoJob
<1>a. PICK broken \in SUBSET job.mem : segFiles' = segFiles \ broken
  <2>1. CASE segFiles' = segFiles
    <3>1. segFiles' = segFiles \ {}
      BY <2>1
    <3> QED
      BY <3>1
  <2>2. ASSUME NEW id \in job.mem, segFiles' = segFiles \ {id}
        PROVE  \E broken \in SUBSET job.mem : segFiles' = segFiles \ broken
    <3>1. {id} \in SUBSET job.mem
      OBVIOUS
    <3> QED
      BY <2>2, <3>1
  <2> QED
    BY <2>1, <2>2
<1>b. /\ snapFiles' \subseteq snapFiles
      /\ \A f \in snapFiles : f.epoch # job.epoch => f \in snapFiles'
  OBVIOUS
<1>c. job' = NoJob /\ NoJob \in Jobs /\ NoJob.pc = "idle" /\ NoJob.mem = {} /\ NoJob.files = {}
  OBVIOUS
<1>d. mode = "open" /\ Active
  BY DEF Quiet, Active
<1>1. TypeOK'
  <2>1. snapFiles' \subseteq SnapFiles /\ segFiles' \subseteq Nat
    BY <1>a, <1>b
  <2> QED
    BY <1>c, <2>1
<1>2. Quiet'
  BY <1>a, <1>b, <1>c, <1>d DEF Quiet, Active
<1>3. OnDisk'
  BY <1>a, <1>b, <1>c, <1>d DEF OnDisk, Apart
<1>4. Apart'
  BY <1>a, <1>b, <1>c, <1>d DEF Apart
<1>5. Fresh'
  <2>1. segFiles' \subseteq segFiles
    BY <1>a
  <2> QED
    BY <1>c, <2>1 DEF Fresh
<1>6. Ordered'
  BY <1>a, <1>b, <1>c, <1>d DEF Ordered, Active
<1>7. Claimed'
  BY <1>a, <1>b, <1>c, <1>d DEF Claimed, Active
<1>8. Newer'
  BY <1>a, <1>b, <1>c, <1>d DEF Newer, Ordered
<1>9. SnapshotsComplete'
  <2> SUFFICES ASSUME NEW f \in snapFiles, f.complete
               PROVE  f.needs \subseteq segFiles \ broken
    BY <1>a, <1>b DEF SnapshotsComplete
  <2>1. f.needs \cap broken = {}
    BY <1>a, <1>d, NeededIsKnown DEF Apart
  <2> QED
    BY <2>1 DEF SnapshotsComplete
<1> QED
  BY <1>1, <1>2, <1>3, <1>4, <1>5, <1>6, <1>7, <1>8, <1>9

\* Retired snapshots give up their claims; the last one is not among them.
LEMMA CleanupSnapshotsStep ==
  ASSUME IInv, CleanupSnapshots
  PROVE  IInv'
<1> USE DEF IInv, TypeOK, Roots, Jobs, SnapFiles, CleanupSnapshots, ForgetSnapshots, Policies
<1> PICK removed \in SUBSET (policy.deletable \ SharedSnapshots) :
       /\ snapFiles' = {f \in snapFiles : f.epoch \notin removed}
       /\ policy' = ForgetSnapshots(policy, removed)
  OBVIOUS
<1>a. last \notin removed
  BY DEF Ordered
<1>b. snapFiles' \subseteq snapFiles /\ \A f \in snapFiles' : f.epoch \notin removed
  OBVIOUS
<1>c. /\ policy' \in Policies
      /\ policy'.needs = {x \in policy.needs : x[1] \notin removed}
      /\ policy'.live = policy.live /\ policy'.known = policy.known
      /\ policy'.deletable = policy.deletable \ removed
  <2>1. {x \in policy.needs : x[1] \notin removed} \in SUBSET (Nat \X Nat)
    OBVIOUS
  <2>2. policy.deletable \ removed \in SUBSET Nat
    OBVIOUS
  <2> QED
    BY <2>1, <2>2
<1>1. TypeOK'
  <2>1. snapFiles' \subseteq SnapFiles
    BY <1>b
  <2> QED
    BY <1>c, <2>1
<1>2. Quiet'
  BY DEF Quiet, Active
<1>3. OnDisk'
  BY DEF OnDisk
<1>4. Apart'
  BY DEF Apart
<1>5. Fresh'
  BY DEF Fresh
<1>6. Ordered'
  BY DEF Ordered, Active
<1>7. Claimed'
  <2>1. ASSUME NEW e \in Nat, e \notin removed, NEW i, <<e, i>> \in policy.needs
        PROVE  <<e, i>> \in policy'.needs
    <3>1. <<e, i>>[1] = e
      OBVIOUS
    <3> QED
      BY <1>c, <2>1, <3>1
  <2>2. \A x \in policy'.needs : x[2] \in policy'.known
    BY <1>c DEF Claimed
  <2>3. ASSUME NEW f \in snapFiles', f.complete, NEW i \in f.needs
        PROVE  <<f.epoch, i>> \in policy'.needs
    BY <1>b, <2>1, <2>3, NeededIsKnown
  <2>4. \A i \in root.files : i \in policy'.known => <<last, i>> \in policy'.needs
    BY <1>a, <1>c, <2>1 DEF Claimed
  <2> QED
    BY <1>c, <2>2, <2>3, <2>4 DEF Claimed, Active
<1>8. Newer'
  BY <1>a DEF Newer
<1>9. SnapshotsComplete'
  BY DEF SnapshotsComplete
<1> QED
  BY <1>1, <1>2, <1>3, <1>4, <1>5, <1>6, <1>7, <1>8, <1>9

\* What is removed is claimed by no snapshot, and is not in the root.
LEMMA CleanupSegmentsStep ==
  ASSUME IInv, CleanupSegments
  PROVE  IInv'
<1> USE DEF IInv, TypeOK, Roots, Jobs, SnapFiles, CleanupSegments, ForgetSegments, Policies
<1> PICK removed \in SUBSET (Unneeded(policy) \ SharedSegments) :
       /\ segFiles' = segFiles \ removed
       /\ reader' = Losing(removed)
       /\ policy' = ForgetSegments(policy, removed)
  OBVIOUS
<1>a. /\ removed \subseteq policy.known /\ removed \subseteq Nat
      /\ \A x \in policy.needs : x[2] \notin removed
  BY DEF Unneeded
<1>b. reader' \in [Readers -> ReaderStates]
  BY <1>a, LosingType
<1>c. /\ policy' \in Policies
      /\ policy'.known = policy.known \ removed /\ policy'.needs = policy.needs
      /\ policy'.live = policy.live /\ policy'.deletable = policy.deletable
  BY <1>a
<1>d. ASSUME NEW i \in removed, NEW e
      PROVE  <<e, i>> \notin policy.needs
  <2>1. <<e, i>>[2] = i
    OBVIOUS
  <2> QED
    BY <1>a, <2>1
<1>1. TypeOK'
  BY <1>a, <1>b, <1>c
<1>2. Quiet'
  BY DEF Quiet, Active
<1>3. OnDisk'
  <2>1. root.files \cap removed = {}
    BY <1>a, <1>d DEF Claimed
  <2>2. outputs \cap removed = {} /\ job.files = {}
    BY <1>a DEF Apart, Quiet, Active
  <2> QED
    BY <2>1, <2>2 DEF OnDisk
<1>4. Apart'
  BY <1>a, <1>c DEF Apart
<1>5. Fresh'
  BY <1>a, <1>c DEF Fresh
<1>6. Ordered'
  BY <1>a, <1>c DEF Ordered, Active
<1>7. Claimed'
  BY <1>a, <1>c DEF Claimed, Active
<1>8. Newer'
  BY DEF Newer
<1>9. SnapshotsComplete'
  <2> SUFFICES ASSUME NEW f \in snapFiles, f.complete
               PROVE  f.needs \subseteq segFiles \ removed
    BY DEF SnapshotsComplete
  <2>1. f.needs \cap removed = {}
    BY <1>d, NeededIsKnown
  <2> QED
    BY <2>1 DEF SnapshotsComplete
<1> QED
  BY <1>1, <1>2, <1>3, <1>4, <1>5, <1>6, <1>7, <1>8, <1>9

\* A crash forgets the claims with everything else.
LEMMA CrashStep ==
  ASSUME IInv, Crash
  PROVE  IInv'
<1> USE DEF IInv, TypeOK, Roots, Jobs, SnapFiles, Crash, Forget, EmptyRoot,
           NoJob, NewPolicy, Policies
<1>1. TypeOK'
  OBVIOUS
<1>2. Quiet'
  BY DEF Quiet, Active
<1>3. OnDisk'
  BY DEF OnDisk
<1>4. Apart'
  BY DEF Apart
<1>5. Fresh'
  BY DEF Fresh
<1>6. Ordered'
  BY DEF Ordered, Active
<1>7. Claimed'
  BY DEF Claimed
<1>8. Newer'
  BY DEF Newer
<1>9. SnapshotsComplete'
  BY DEF SnapshotsComplete
<1> QED
  BY <1>1, <1>2, <1>3, <1>4, <1>5, <1>6, <1>7, <1>8, <1>9

\* Nothing is loaded and nothing claimed yet.
LEMMA StartOpenStep ==
  ASSUME IInv, StartOpen
  PROVE  IInv'
<1> USE DEF IInv, TypeOK, Roots, Jobs, SnapFiles, StartOpen, Forget, EmptyRoot,
           NoJob, NewPolicy, Policies, Epochs
<1>a. /\ nextID' \in Nat /\ \A id \in segFiles : id <= nextID'
  OBVIOUS
<1>b. /\ NewPolicy \in Policies /\ NewPolicy.known = {} /\ NewPolicy.needs = {}
      /\ EmptyRoot \in Roots /\ EmptyRoot.mem = {} /\ EmptyRoot.files = {}
      /\ NoJob \in Jobs /\ NoJob.mem = {}
  OBVIOUS
<1>1. TypeOK'
  <2>1. todo' \in SUBSET Nat
    OBVIOUS
  <2> QED
    BY <1>a, <1>b, <2>1
<1>2. Quiet'
  BY DEF Quiet, Active
<1>3. OnDisk'
  BY DEF OnDisk
<1>4. Apart'
  BY DEF Apart
<1>5. Fresh'
  BY <1>a, <1>b DEF Fresh
<1>6. Ordered'
  BY DEF Ordered, Active
<1>7. Claimed'
  BY DEF Claimed
<1>8. Newer'
  BY DEF Newer
<1>9. SnapshotsComplete'
  BY DEF SnapshotsComplete
<1> QED
  BY <1>1, <1>2, <1>3, <1>4, <1>5, <1>6, <1>7, <1>8, <1>9

\* Each snapshot loaded is claimed, oldest first.
LEMMA LoadSnapshotStep ==
  ASSUME IInv, LoadSnapshot
  PROVE  IInv'
<1> USE DEF IInv, TypeOK, Roots, Jobs, SnapFiles, LoadSnapshot, Commit
<1> PICK f \in snapFiles :
       /\ f.epoch \in todo
       /\ \A e \in todo : f.epoch <= e
       /\ f.complete /\ f.needs \subseteq segFiles
       /\ policy' = Commit(policy, f.epoch, f.needs)
       /\ root' = [epoch |-> f.epoch, mem |-> {}, files |-> f.needs]
       /\ last' = f.epoch
       /\ todo' = todo \ {f.epoch}
  OBVIOUS
<1>a. f.epoch \in Nat /\ f.needs \in SUBSET Nat /\ f.epoch > last
  BY DEF Ordered
<1>b. policy' \in Policies
  BY <1>a, CommitType
<1>c. /\ policy'.known = policy.known \cup f.needs
      /\ policy'.needs = {x \in policy.needs : x[1] # f.epoch} \cup ({f.epoch} \X f.needs)
  BY DEF Commit
<1>d. /\ \A e \in policy'.deletable : e < f.epoch
      /\ \A i \in 1 .. Len(policy'.live) : policy'.live[i] <= f.epoch
  <2>1. \A e \in policy.deletable : e < f.epoch
    BY <1>a DEF Ordered, Policies
  <2>2. \A i \in 1 .. Len(policy.live) : policy.live[i] < f.epoch
    BY <1>a DEF Ordered, Policies
  <2> QED
    BY <1>a, <2>1, <2>2, CommitOrder
<1>e. root' \in Roots /\ root'.mem = {} /\ root'.files = f.needs
  BY <1>a
<1>1. TypeOK'
  <2>1. todo' \subseteq Nat /\ last' \in Nat
    BY <1>a
  <2> QED
    BY <1>b, <1>e, <2>1
<1>2. Quiet'
  BY DEF Quiet, Active
<1>3. OnDisk'
  BY DEF OnDisk
<1>4. Apart'
  BY DEF Apart, Quiet
<1>5. Fresh'
  BY DEF Fresh
<1>6. Ordered'
  <2>1. \A e \in todo' : e > f.epoch
    OBVIOUS
  <2>2. ~Active
    BY DEF Quiet
  <2> QED
    BY <1>d, <2>1, <2>2 DEF Ordered, Active
<1>7. Claimed'
  <2>1. \A i \in f.needs : <<f.epoch, i>> \in policy'.needs
    BY <1>c
  <2>2. \A x \in policy'.needs : x[2] \in policy'.known
    BY <1>c DEF Claimed
  <2>3. ASSUME NEW g \in snapFiles, g.complete, g.epoch \notin todo', NEW i \in g.needs
        PROVE  <<g.epoch, i>> \in policy'.needs
    <3>1. CASE g.epoch = f.epoch
      BY <2>1, <2>3, <3>1 DEF Ordered
    <3>2. CASE g.epoch # f.epoch
      <4>1. <<g.epoch, i>> \in policy.needs /\ <<g.epoch, i>>[1] # f.epoch
        BY <2>3, <3>2 DEF Claimed
      <4> QED
        BY <1>c, <4>1
    <3> QED
      BY <3>1, <3>2
  <2>4. ~Active
    BY DEF Quiet
  <2> QED
    BY <1>e, <2>1, <2>2, <2>3, <2>4 DEF Claimed, Active
<1>8. Newer'
  BY DEF Newer, Ordered
<1>9. SnapshotsComplete'
  BY DEF SnapshotsComplete
<1> QED
  BY <1>1, <1>2, <1>3, <1>4, <1>5, <1>6, <1>7, <1>8, <1>9

\* An aborted open has removed nothing.
LEMMA AbortOpenStep ==
  ASSUME IInv, AbortOpen
  PROVE  IInv'
<1> USE DEF IInv, TypeOK, Roots, Jobs, SnapFiles, AbortOpen, Forget, EmptyRoot,
           NoJob, NewPolicy, Policies
<1>1. TypeOK'
  OBVIOUS
<1>2. Quiet'
  BY DEF Quiet, Active
<1>3. OnDisk'
  BY DEF OnDisk
<1>4. Apart'
  BY DEF Apart
<1>5. Fresh'
  BY DEF Fresh
<1>6. Ordered'
  BY DEF Ordered, Active
<1>7. Claimed'
  BY DEF Claimed
<1>8. Newer'
  BY DEF Newer
<1>9. SnapshotsComplete'
  BY DEF SnapshotsComplete
<1> QED
  BY <1>1, <1>2, <1>3, <1>4, <1>5, <1>6, <1>7, <1>8, <1>9

\* Every snapshot is claimed before unknown files may be cleaned up.
LEMMA FinishOpenStep ==
  ASSUME IInv, FinishOpen
  PROVE  IInv'
<1> USE DEF IInv, TypeOK, Roots, Jobs, SnapFiles, FinishOpen, TrackSegmentFiles, Policies
<1>1. TypeOK'
  <2>1. policy.known \cup segFiles \in SUBSET Nat
    OBVIOUS
  <2>2. policy' \in Policies
    BY <2>1
  <2> QED
    BY <2>2
<1>2. Quiet'
  BY DEF Quiet
<1>3. OnDisk'
  BY DEF OnDisk
<1>4. Apart'
  BY DEF Apart, Quiet
<1>5. Fresh'
  BY DEF Fresh
<1>6. Ordered'
  BY DEF Ordered, Active
<1>7. Claimed'
  BY DEF Claimed, Active
<1>8. Newer'
  BY DEF Newer
<1>9. SnapshotsComplete'
  BY DEF SnapshotsComplete
<1> QED
  BY <1>1, <1>2, <1>3, <1>4, <1>5, <1>6, <1>7, <1>8, <1>9

\* Readers move nothing but themselves.
LEMMA ReaderStep ==
  ASSUME IInv, NEW r \in Readers, Reader(r)
  PROVE  IInv'
<1> USE DEF OnlyReader, Becomes
<1>1. reader \in [Readers -> ReaderStates] /\ reader[r] \in ReaderStates
  BY DEF IInv, TypeOK
<1>2. Retry(r) \in ReaderStates
  <2>1. reader[r].todo \ {Newest(reader[r].todo)} \in SUBSET Nat
    BY <1>1 DEF ReaderStates
  <2> QED
    BY <1>1, <2>1 DEF Retry, ReaderStates
<1>3. \A state \in ReaderStates : Becomes(r, state) => reader' \in [Readers -> ReaderStates]
  BY <1>1
<1>4. reader' \in [Readers -> ReaderStates] /\ OnlyReader
  <2>1. CASE ListSnapshots(r)
    <3>1. Epochs \in SUBSET Nat /\ Complete \in SUBSET Nat
      BY DEF IInv, TypeOK, SnapFiles, Epochs, Complete
    <3>2. [NoReader EXCEPT !.pc = "choosing", !.todo = Epochs, !.listed = Complete] \in ReaderStates
      BY <3>1 DEF NoReader, ReaderStates
    <3> QED
      BY <2>1, <3>2, <1>3 DEF ListSnapshots
  <2>2. CASE OpenSnapshot(r)
    <3> DEFINE e == Newest(reader[r].todo)
    <3>1. e \in Epochs => e \in Nat
      BY DEF IInv, TypeOK, SnapFiles, Epochs
    <3>2. e \in Nat => [reader[r] EXCEPT !.pc = "reading", !.epoch = e] \in ReaderStates
      BY <1>1 DEF ReaderStates
    <3> HIDE DEF e
    <3> QED
      BY <2>2, <3>1, <3>2, <1>2, <1>3 DEF OpenSnapshot, e
  <2>3. CASE ReadSnapshot(r)
    <3>1. \A f \in snapFiles : [reader[r] EXCEPT !.pc = "loading", !.needs = f.needs] \in ReaderStates
      BY <1>1 DEF IInv, TypeOK, SnapFiles, ReaderStates
    <3> QED
      BY <2>3, <3>1, <1>2, <1>3 DEF ReadSnapshot
  <2>4. CASE OpenSegment(r)
    <3>1. \A id \in reader[r].needs : [reader[r] EXCEPT !.opened = {id}] \in ReaderStates
      BY <1>1 DEF ReaderStates
    <3> QED
      BY <2>4, <3>1, <1>2, <1>3 DEF OpenSegment
  <2>5. CASE LockSegment(r)
    <3>1. reader[r].holds \cup reader[r].opened \in SUBSET Nat
      BY <1>1 DEF ReaderStates
    <3>2. [reader[r] EXCEPT !.opened = {}, !.holds = @ \cup reader[r].opened] \in ReaderStates
      BY <1>1, <3>1 DEF ReaderStates
    <3> QED
      BY <2>5, <3>2, <1>3 DEF LockSegment
  <2>6. CASE ReturnSnapshot(r)
    <3>1. [reader[r] EXCEPT !.pc = "open"] \in ReaderStates
      BY <1>1 DEF ReaderStates
    <3> QED
      BY <2>6, <3>1, <1>3 DEF ReturnSnapshot
  <2>7. CASE ReturnError(r)
    <3>1. [reader[r] EXCEPT !.pc = "failed"] \in ReaderStates
      BY <1>1 DEF ReaderStates
    <3> QED
      BY <2>7, <3>1, <1>3 DEF ReturnError
  <2>8. CASE CloseReader(r)
    <3>1. NoReader \in ReaderStates
      BY DEF NoReader, ReaderStates
    <3> QED
      BY <2>8, <3>1, <1>3 DEF CloseReader
  <2> QED
    BY <2>1, <2>2, <2>3, <2>4, <2>5, <2>6, <2>7, <2>8 DEF Reader
<1> QED
  BY <1>4 DEF IInv, TypeOK, Quiet, Active, OnDisk, Apart, Fresh, Ordered, Claimed, Newer, SnapshotsComplete

-----------------------------------------------------------------------------

\* The invariant holds of an empty directory,
LEMMA Initially == Init => IInv
<1> SUFFICES ASSUME Init PROVE IInv
  OBVIOUS
<1> USE DEF Init, EmptyRoot, NoJob, NewPolicy
<1>1. TypeOK
  <2>1. NewPolicy \in Policies /\ EmptyRoot \in Roots /\ NoJob \in Jobs /\ NoReader \in ReaderStates
    BY DEF Policies, Roots, Jobs, NoReader, ReaderStates
  <2> QED
    BY <2>1 DEF TypeOK
<1> QED
  BY <1>1 DEF IInv, Quiet, Active, OnDisk, Apart, Fresh, Ordered, Claimed, Newer, SnapshotsComplete

\* every step keeps it,
LEMMA Inductive == IInv /\ [Next]_vars => IInv'
<1> SUFFICES ASSUME IInv, [Next]_vars PROVE IInv'
  OBVIOUS
<1>1. CASE Writer
  BY <1>1, IntroduceSegmentStep, WriteMergeStep, IntroduceMergeStep, SkipMergeStep,
     TakeStep, PersistSegmentStep, IntroducePersistStep, CreateSnapshotStep,
     LockSnapshotStep, CommitSnapshotStep, FailJobStep, CleanupSnapshotsStep,
     CleanupSegmentsStep, CrashStep, StartOpenStep, LoadSnapshotStep,
     AbortOpenStep, FinishOpenStep
     DEF Writer
<1>2. CASE \E r \in Readers : Reader(r)
  BY <1>2, ReaderStep
<1>3. CASE UNCHANGED vars
  BY <1>3 DEF vars, IInv, TypeOK, Quiet, Active, OnDisk, Apart, Fresh, Ordered, Claimed,
              Newer, SnapshotsComplete
<1> QED
  BY <1>1, <1>2, <1>3 DEF Next

\* so it holds for ever.
LEMMA Invariance == Spec => []IInv
  BY Initially, Inductive, PTL DEF Spec

\* Every variable keeps its type in every behaviour.
THEOREM Typed == Spec => []TypeOK
<1>1. IInv => TypeOK
  BY DEF IInv
<1> QED
  BY <1>1, Invariance, PTL

\* No complete snapshot file ever lacks a segment file (persister.go, deletion.go):
\* whenever the process dies, each one can be opened.
THEOREM NoSegmentIsLost == Spec => []SnapshotsComplete
<1>1. IInv => SnapshotsComplete
  BY DEF IInv
<1> QED
  BY <1>1, Invariance, PTL

\* Cleanup never removes a file behind the root, which the merger may still read.
THEOREM RootIsSafe == Spec => []RootComplete
<1>1. IInv => RootComplete
  <2> SUFFICES ASSUME IInv, NEW i \in root.files
               PROVE  i \in segFiles /\ i \notin Unneeded(policy)
    BY DEF RootComplete
  <2>1. i \in policy.known => <<last, i>> \in policy.needs
    BY DEF IInv, Claimed
  <2>2. <<last, i>>[2] = i
    OBVIOUS
  <2> QED
    BY <2>1, <2>2 DEF IInv, OnDisk, Unneeded
<1> QED
  BY <1>1, Invariance, PTL

\* The steps of the writer that change the snapshot files, or what the readers miss.
LEMMA WriterFrame ==
  ASSUME Writer
  PROVE  \/ UNCHANGED <<snapFiles, reader>>
         \/ SkipMerge \/ CleanupSegments
         \/ CreateSnapshot \/ CommitSnapshot \/ FailJob \/ CleanupSnapshots
<1>1. CASE IntroduceSegment \/ WriteMerge \/ IntroduceMerge
  BY <1>1 DEF IntroduceSegment, WriteMerge, IntroduceMerge
<1>2. CASE Take \/ PersistSegment \/ IntroducePersist \/ LockSnapshot
  BY <1>2 DEF Take, PersistSegment, IntroducePersist, LockSnapshot
<1>3. CASE Crash \/ StartOpen \/ LoadSnapshot \/ AbortOpen \/ FinishOpen
  BY <1>3 DEF Crash, StartOpen, LoadSnapshot, AbortOpen, FinishOpen
<1> QED
  BY <1>1, <1>2, <1>3 DEF Writer

\* A reader changes nothing but its own state.
LEMMA ReaderFrame ==
  ASSUME NEW r \in Readers, Reader(r), TypeOK
  PROVE  /\ OnlyReader
         /\ \A q \in Readers \ {r} : reader'[q] = reader[q]
<1>1. reader \in [Readers -> ReaderStates]
  BY DEF TypeOK
<1>2. CASE ListSnapshots(r) \/ OpenSnapshot(r) \/ ReadSnapshot(r)
  BY <1>1, <1>2 DEF ListSnapshots, OpenSnapshot, ReadSnapshot, Becomes
<1>3. CASE OpenSegment(r) \/ LockSegment(r)
  BY <1>1, <1>3 DEF OpenSegment, LockSegment, Becomes
<1>4. CASE ReturnSnapshot(r) \/ ReturnError(r) \/ CloseReader(r)
  BY <1>1, <1>4 DEF ReturnSnapshot, ReturnError, CloseReader, Becomes
<1> QED
  BY <1>2, <1>3, <1>4 DEF Reader

\* The newest complete snapshot stays or is overtaken, as a fact about one step.
LEMMA NewestStep ==
  ASSUME IInv, [Next]_vars
  PROVE  \A e \in Complete : \E n \in Complete' : e <= n
<1> SUFFICES ASSUME NEW f \in snapFiles, f.complete
             PROVE  \E g \in snapFiles' : g.complete /\ f.epoch <= g.epoch
  BY DEF Complete
<1>1. f.epoch \in Nat /\ last \in Nat
  BY DEF IInv, TypeOK, SnapFiles
<1>2. CASE snapFiles' = snapFiles
  BY <1>1, <1>2
<1>3. CASE CreateSnapshot
  BY <1>1, <1>3 DEF CreateSnapshot
<1>4. CASE CommitSnapshot
  <2> DEFINE new == [epoch |-> job.epoch, needs |-> job.files, complete |-> TRUE]
  <2>1. new \in snapFiles' /\ new.complete /\ new.epoch = job.epoch
    BY <1>4 DEF CommitSnapshot
  <2>2. f.epoch <= last /\ job.epoch > last /\ job.epoch \in Nat
    BY <1>4 DEF CommitSnapshot, IInv, TypeOK, Jobs, Quiet, Newer, Ordered, Active
  <2> QED
    BY <1>1, <2>1, <2>2
<1>5. CASE FailJob
  <2>1. f.epoch <= last /\ job.epoch > last /\ job.epoch \in Nat
    BY <1>5 DEF FailJob, IInv, TypeOK, Jobs, Quiet, Newer, Ordered, Active
  <2>2. f \in snapFiles'
    BY <1>1, <1>5, <2>1 DEF FailJob
  <2> QED
    BY <1>1, <2>2
<1>6. CASE CleanupSnapshots
  <2>1. PICK g \in snapFiles : g.complete /\ g.epoch = last /\ f.epoch <= last
    BY <1>6 DEF CleanupSnapshots, IInv, Quiet, Newer
  <2>2. g \in snapFiles'
    BY <1>6, <2>1 DEF CleanupSnapshots, IInv, TypeOK, Ordered
  <2> QED
    BY <2>1, <2>2
<1>7. snapFiles' = snapFiles \/ CreateSnapshot \/ CommitSnapshot \/ FailJob \/ CleanupSnapshots
  <2>1. CASE Writer
    BY <2>1, WriterFrame DEF SkipMerge, CleanupSegments
  <2>2. ASSUME NEW r \in Readers, Reader(r)
        PROVE  snapFiles' = snapFiles
    BY <2>2, ReaderFrame DEF IInv, OnlyReader
  <2> QED
    BY <2>1, <2>2 DEF Next, vars
<1> QED
  BY <1>2, <1>3, <1>4, <1>5, <1>6, <1>7

\* The newest complete snapshot is only ever replaced by a newer one: a failed
\* persist, a cleanup or an aborted open never takes it away.
THEOREM NewestIsKept == Spec => NewestStays
<1>1. IInv /\ [Next]_vars => [\A e \in Complete : \E f \in Complete' : e <= f]_snapFiles
  BY NewestStep
<1> QED
  BY <1>1, Invariance, PTL DEF Spec, NewestStays

-----------------------------------------------------------------------------
(* Readers in other processes *)

\* What a reader knows.  While it looks for a snapshot, it has still to try whatever it
\* listed and is complete; what it failed to load is not complete any more.
Awaits(r) ==
  /\ \A e \in reader[r].listed : \E n \in Complete : e <= n
  /\ reader[r].pc \in {"choosing", "reading", "loading"} =>
       reader[r].listed \cap Complete \subseteq reader[r].todo
  /\ reader[r].pc \in {"reading", "loading"} => reader[r].epoch = Newest(reader[r].todo)
  /\ reader[r].pc = "loading" =>
       /\ \E n \in Complete : reader[r].epoch <= n
       /\ \A f \in snapFiles :
            f.complete /\ f.epoch = reader[r].epoch => f.needs = reader[r].needs
  /\ reader[r].pc = "failed" => reader[r].listed \cap Complete = {}

Awaited == \A r \in Readers : Awaits(r)

\* The writer does not take from a reader what it has, and a snapshot that it completes is
\* newer than all there were.
LEMMA WriterLeavesReaders ==
  ASSUME IInv, Writer
  PROVE  /\ \A r \in Readers :
              /\ reader'[r].pc = reader[r].pc /\ reader'[r].todo = reader[r].todo
              /\ reader'[r].epoch = reader[r].epoch /\ reader'[r].needs = reader[r].needs
              /\ reader'[r].listed = reader[r].listed
         /\ \A f \in snapFiles' : f.complete =>
              \/ f \in snapFiles
              \/ \A n \in Complete : n < f.epoch
<1>1. CASE SkipMerge \/ CleanupSegments
  <2>1. reader' = reader \/ \E removed : reader' = Losing(removed)
    BY <1>1 DEF SkipMerge, CleanupSegments
  <2>2. snapFiles' = snapFiles
    BY <1>1 DEF SkipMerge, CleanupSegments
  <2>3. reader \in [Readers -> ReaderStates]
    BY DEF IInv, TypeOK
  <2> QED
    BY <2>1, <2>2, <2>3 DEF Losing, ReaderStates
<1>2. CASE CommitSnapshot
  <2>1. reader' = reader
    BY <1>2 DEF CommitSnapshot
  <2>2. \A f \in snapFiles : f.epoch \in Nat
    BY DEF IInv, TypeOK, SnapFiles
  <2>3. \A f \in snapFiles : f.complete => f.epoch < job.epoch
    BY <1>2, <2>2 DEF CommitSnapshot, IInv, TypeOK, Jobs, Quiet, Newer, Ordered, Active
  <2>4. \A n \in Complete : n < job.epoch
    BY <2>3 DEF Complete
  <2>5. \A f \in snapFiles' : f \in snapFiles \/ f.epoch = job.epoch
    BY <1>2 DEF CommitSnapshot
  <2> QED
    BY <2>1, <2>4, <2>5
<1>3. CASE CreateSnapshot
  BY <1>3 DEF CreateSnapshot
<1>4. CASE FailJob \/ CleanupSnapshots
  BY <1>4 DEF FailJob, CleanupSnapshots
<1> QED
  BY <1>1, <1>2, <1>3, <1>4, WriterFrame

\* Whatever the writer does, a complete snapshot that a reader has listed or read was there
\* before.
LEMMA AwaitedByWriter ==
  ASSUME IInv, Awaited, Writer
  PROVE  Awaited'
<1> USE DEF Awaits
<1> SUFFICES ASSUME NEW r \in Readers
             PROVE  Awaits(r)'
  BY DEF Awaited
<1> DEFINE R == reader[r]
<1>0. Awaits(r)
  BY DEF Awaited
<1>1. /\ reader'[r].pc = R.pc /\ reader'[r].todo = R.todo /\ reader'[r].epoch = R.epoch
      /\ reader'[r].needs = R.needs /\ reader'[r].listed = R.listed
  BY WriterLeavesReaders
<1>2. \A e \in Complete : \E n \in Complete' : e <= n
  BY NewestStep DEF Next
<1>3. R \in ReaderStates /\ Complete \subseteq Nat /\ Complete' \subseteq Nat
  <2>1. TypeOK'
    BY Inductive DEF Next, IInv
  <2> QED
    BY <2>1 DEF IInv, TypeOK, SnapFiles, Complete
<1>4. \A e \in Nat : (\E n \in Complete : e <= n) =>
        /\ \E n \in Complete' : e <= n
        /\ \A f \in snapFiles' : f.complete /\ f.epoch = e => f \in snapFiles
  <2> SUFFICES ASSUME NEW e \in Nat, NEW n \in Complete, e <= n
               PROVE  /\ \E m \in Complete' : e <= m
                      /\ \A f \in snapFiles' : f.complete /\ f.epoch = e => f \in snapFiles
    OBVIOUS
  <2>1. \E m \in Complete' : e <= m
    BY <1>2, <1>3
  <2>2. \A f \in snapFiles' : f.complete /\ f.epoch = e => f \in snapFiles
    BY <1>3, WriterLeavesReaders
  <2> QED
    BY <2>1, <2>2
<1>5. R.listed \cap Complete' \subseteq R.listed \cap Complete
  <2> SUFFICES ASSUME NEW e \in R.listed, e \in Complete'
               PROVE  e \in Complete
    OBVIOUS
  <2>1. PICK f \in snapFiles' : f.complete /\ f.epoch = e
    BY DEF Complete
  <2>2. f \in snapFiles
    BY <1>0, <1>3, <1>4, <2>1 DEF ReaderStates
  <2> QED
    BY <2>1, <2>2 DEF Complete
<1>6. \A e \in R.listed : \E n \in Complete' : e <= n
  BY <1>0, <1>3, <1>4 DEF ReaderStates
<1>7. R.pc = "loading" =>
        /\ \E n \in Complete' : R.epoch <= n
        /\ \A f \in snapFiles' : f.complete /\ f.epoch = R.epoch => f.needs = R.needs
  BY <1>0, <1>3, <1>4 DEF ReaderStates
<1> QED
  BY <1>0, <1>1, <1>5, <1>6, <1>7

\* A reader gives up a snapshot only when it is not complete any more.
LEMMA AwaitedByReader ==
  ASSUME IInv, Awaited, NEW r \in Readers, Reader(r)
  PROVE  Awaited'
<1> DEFINE R == reader[r]
<1> USE DEF OnlyReader, Becomes, Awaits
<1>1. reader \in [Readers -> ReaderStates] /\ R \in ReaderStates
  BY DEF IInv, TypeOK
<1>2. UNCHANGED <<snapFiles, segFiles, job, last, todo, mode>> /\ Complete' = Complete
  BY ReaderFrame DEF IInv, Complete
<1>3. \A q \in Readers \ {r} : reader'[q] = reader[q]
  BY ReaderFrame DEF IInv
<1>4. \A f, g \in snapFiles : f.epoch = g.epoch => f = g
  BY DEF IInv, Ordered
<1> SUFFICES Awaits(r)'
  BY <1>2, <1>3 DEF Awaited
<1>5. Awaits(r)
  BY DEF Awaited
<1>6. /\ Retry(r).pc = "choosing" /\ Retry(r).listed = R.listed
      /\ Retry(r).todo = R.todo \ {Newest(R.todo)}
  BY <1>1 DEF Retry, ReaderStates
<1>7. ASSUME R.pc \in {"choosing", "reading", "loading"}, reader'[r] = Retry(r),
             Newest(R.todo) \notin Complete
      PROVE  Awaits(r)'
  BY <1>2, <1>5, <1>6, <1>7
<1>8. CASE ListSnapshots(r)
  <2>1. /\ reader'[r].pc = "choosing" /\ reader'[r].todo = Epochs
        /\ reader'[r].listed = Complete
    BY <1>1, <1>8 DEF ListSnapshots, NoReader
  <2>2. Complete \subseteq Epochs /\ Complete \subseteq Nat
    BY DEF Complete, Epochs, IInv, TypeOK, SnapFiles
  <2>3. \A e \in Complete : e <= e
    BY <2>2
  <2> QED
    BY <1>2, <2>1, <2>2, <2>3
<1>9. CASE OpenSnapshot(r)
  <2> DEFINE e == Newest(R.todo)
  <2>1. CASE e \in Epochs /\ ~Locked(e)
    <3>1. reader'[r] = [R EXCEPT !.pc = "reading", !.epoch = e]
      BY <1>1, <1>9, <2>1 DEF OpenSnapshot
    <3>2. /\ reader'[r].pc = "reading" /\ reader'[r].epoch = e
          /\ reader'[r].todo = R.todo /\ reader'[r].listed = R.listed
      BY <1>1, <3>1 DEF ReaderStates
    <3> QED
      BY <1>2, <1>5, <1>9, <3>2 DEF OpenSnapshot
  <2>2. CASE ~(e \in Epochs /\ ~Locked(e))
    <3>1. reader'[r] = Retry(r) /\ R.pc = "choosing"
      BY <1>1, <1>9, <2>2 DEF OpenSnapshot
    <3>2. ASSUME NEW f \in snapFiles, f.complete, f.epoch = e
          PROVE  FALSE
      <4>1. e \in Epochs
        BY <3>2 DEF Epochs
      <4>2. job.pc = "filling" /\ job.epoch = f.epoch
        BY <2>2, <3>2, <4>1 DEF Locked
      <4>3. job.epoch \in Nat /\ last \in Nat /\ job.epoch > last
        BY <4>2 DEF IInv, TypeOK, Jobs, Ordered, Active
      <4>4. mode = "open" /\ todo = {}
        BY <4>2 DEF IInv, TypeOK, Quiet, Active
      <4>5. f.epoch <= last
        BY <3>2, <4>4 DEF IInv, Newer
      <4> QED
        BY <4>2, <4>3, <4>5
    <3>3. Newest(R.todo) \notin Complete
      BY <3>2 DEF Complete
    <3> QED
      BY <1>7, <3>1, <3>3
  <2> QED
    BY <2>1, <2>2
<1>10. CASE ReadSnapshot(r)
  <2>1. PICK f \in snapFiles :
          /\ f.epoch = R.epoch
          /\ Becomes(r, IF f.complete
                           THEN [R EXCEPT !.pc = "loading", !.needs = f.needs]
                           ELSE Retry(r))
    BY <1>10 DEF ReadSnapshot
  <2>2. R.pc = "reading" /\ R.epoch = Newest(R.todo)
    BY <1>5, <1>10 DEF ReadSnapshot
  <2>3. CASE f.complete
    <3>1. /\ reader'[r].pc = "loading" /\ reader'[r].epoch = R.epoch
          /\ reader'[r].todo = R.todo /\ reader'[r].listed = R.listed
          /\ reader'[r].needs = f.needs
      BY <1>1, <2>1, <2>3 DEF ReaderStates
    <3>2. R.epoch \in Complete /\ R.epoch <= R.epoch
      BY <1>1, <2>1, <2>3 DEF Complete, ReaderStates
    <3>3. \A g \in snapFiles : g.complete /\ g.epoch = R.epoch => g.needs = f.needs
      BY <1>4, <2>1
    <3> QED
      BY <1>2, <1>5, <2>2, <3>1, <3>2, <3>3
  <2>4. CASE ~f.complete
    <3>1. reader'[r] = Retry(r)
      BY <1>1, <2>1, <2>4
    <3>2. R.epoch \notin Complete
      BY <1>4, <2>1, <2>4 DEF Complete
    <3> QED
      BY <1>7, <2>2, <3>1, <3>2
  <2> QED
    BY <2>3, <2>4
<1>11. CASE OpenSegment(r)
  <2>1. PICK id \in R.needs \ R.holds :
          Becomes(r, IF id \in segFiles THEN [R EXCEPT !.opened = {id}] ELSE Retry(r))
    BY <1>11 DEF OpenSegment
  <2>2. R.pc = "loading" /\ R.epoch = Newest(R.todo)
    BY <1>5, <1>11 DEF OpenSegment
  <2>3. CASE id \in segFiles
    <3>1. reader'[r] = [R EXCEPT !.opened = {id}]
      BY <1>1, <2>1, <2>3
    <3>2. /\ reader'[r].pc = R.pc /\ reader'[r].epoch = R.epoch
          /\ reader'[r].todo = R.todo /\ reader'[r].listed = R.listed
          /\ reader'[r].needs = R.needs
      BY <1>1, <3>1 DEF ReaderStates
    <3> QED
      BY <1>2, <1>5, <3>2
  <2>4. CASE id \notin segFiles
    <3>1. reader'[r] = Retry(r)
      BY <1>1, <2>1, <2>4
    <3>2. R.epoch \notin Complete
      BY <1>5, <2>1, <2>2, <2>4 DEF Complete, IInv, SnapshotsComplete
    <3> QED
      BY <1>7, <2>2, <3>1, <3>2
  <2> QED
    BY <2>3, <2>4
<1>12. CASE LockSegment(r)
  <2>1. reader'[r] = [R EXCEPT !.opened = {}, !.holds = @ \cup R.opened]
    BY <1>1, <1>12 DEF LockSegment
  <2>2. /\ reader'[r].pc = R.pc /\ reader'[r].epoch = R.epoch
        /\ reader'[r].todo = R.todo /\ reader'[r].listed = R.listed
        /\ reader'[r].needs = R.needs
    BY <1>1, <2>1 DEF ReaderStates
  <2> QED
    BY <1>2, <1>5, <2>2
<1>13. CASE ReturnSnapshot(r)
  <2>1. reader'[r].pc = "open" /\ reader'[r].listed = R.listed
    BY <1>1, <1>13 DEF ReturnSnapshot, ReaderStates
  <2> QED
    BY <1>2, <1>5, <2>1
<1>14. CASE ReturnError(r)
  <2>1. reader'[r].pc = "failed" /\ reader'[r].listed = R.listed
    BY <1>1, <1>14 DEF ReturnError, ReaderStates
  <2> QED
    BY <1>2, <1>5, <1>14, <2>1 DEF ReturnError
<1>15. CASE CloseReader(r)
  <2>1. reader'[r].pc = "idle" /\ reader'[r].listed = {}
    BY <1>1, <1>15 DEF CloseReader, NoReader
  <2> QED
    BY <1>2, <2>1
<1> QED
  BY <1>8, <1>9, <1>10, <1>11, <1>12, <1>13, <1>14, <1>15 DEF Reader

\* OpenReader finds no usable snapshot (index/writer.go) only if every snapshot that was
\* complete when it listed the directory has been removed meanwhile.
THEOREM ReadersAreOvertaken == Spec => []OnlyOvertakenReadersFail
<1>1. Init => Awaited
  BY DEF Init, NoReader, Awaited, Awaits
<1>2. IInv /\ Awaited /\ [Next]_vars => Awaited'
  <2> SUFFICES ASSUME IInv, Awaited, [Next]_vars PROVE Awaited'
    OBVIOUS
  <2>1. CASE UNCHANGED vars
    BY <2>1 DEF vars, Awaited, Awaits, Complete
  <2> QED
    BY <2>1, AwaitedByWriter, AwaitedByReader DEF Next
<1>3. Awaited => OnlyOvertakenReadersFail
  BY DEF Awaited, Awaits, OnlyOvertakenReadersFail
<1> QED
  BY <1>1, <1>2, <1>3, Invariance, PTL DEF Spec

\* The ids of segments that are in memory or on disk, and of those that a merge has written.
Present == UNION {segFiles, root.mem, job.mem, outputs}

\* In the first session of the writer, a segment file that a reader found missing never
\* comes back: its id was handed out, and is used by nothing any more.
GoneFor(r) ==
  \A i \in reader[r].lost :
    i <= nextID /\ i \notin UNION {Present, reader[r].opened, reader[r].holds}

Gone == crashes = 0 => mode = "open" /\ \A r \in Readers : GoneFor(r)

\* In an open writer, the only id that comes is the next one.
LEMMA OnlyNewIdsCome ==
  ASSUME IInv, mode = "open", Writer, ~Crash, NEW i \in Nat, i <= nextID, i \notin Present
  PROVE  i <= nextID' /\ i \notin Present'
<1> USE DEF Present
<1>1. nextID \in Nat /\ nextID + 1 # i
  BY DEF IInv, TypeOK
<1>2. CASE IntroduceSegment
  BY <1>1, <1>2 DEF IntroduceSegment
<1>3. CASE WriteMerge
  BY <1>1, <1>3 DEF WriteMerge
<1>4. CASE IntroduceMerge
  <2>1. PICK id \in outputs, gone \in SUBSET (root.mem \cup root.files) :
          /\ outputs' = outputs \ {id}
          /\ root' = [epoch |-> root.epoch + 1, mem |-> root.mem \ gone,
                      files |-> (root.files \ gone) \cup {id}]
          /\ job' = job \/ job' = [job EXCEPT !.mem = {}, !.files = @ \cup {id}]
    BY <1>4 DEF IntroduceMerge
  <2>2. job'.mem \subseteq job.mem
    BY <2>1 DEF IInv, TypeOK, Jobs
  <2> QED
    BY <1>1, <1>4, <2>1, <2>2 DEF IntroduceMerge
<1>5. CASE SkipMerge
  BY <1>1, <1>5 DEF SkipMerge, IInv, TypeOK, Roots
<1>6. CASE Take \/ PersistSegment
  BY <1>1, <1>6 DEF Take, PersistSegment
<1>7. CASE IntroducePersist
  BY <1>1, <1>7 DEF IntroducePersist, IInv, TypeOK, Jobs
<1>8. CASE CreateSnapshot \/ LockSnapshot
  BY <1>1, <1>8 DEF CreateSnapshot, LockSnapshot, NoJob, IInv, TypeOK, Jobs
<1>9. CASE CommitSnapshot \/ FailJob
  BY <1>1, <1>9 DEF CommitSnapshot, FailJob, NoJob
<1>10. CASE CleanupSnapshots \/ CleanupSegments
  BY <1>1, <1>10 DEF CleanupSnapshots, CleanupSegments
<1>11. CASE StartOpen \/ LoadSnapshot \/ AbortOpen \/ FinishOpen
  BY <1>11 DEF StartOpen, LoadSnapshot, AbortOpen, FinishOpen
<1> QED
  BY <1>2, <1>3, <1>4, <1>5, <1>6, <1>7, <1>8, <1>9, <1>10, <1>11 DEF Writer

\* What the writer removes, no step of its own can bring back.
LEMMA GoneByWriter ==
  ASSUME IInv, Gone, Writer
  PROVE  Gone'
<1> SUFFICES ASSUME crashes' = 0
             PROVE  mode' = "open" /\ \A r \in Readers : GoneFor(r)'
  BY DEF Gone
<1>1. crashes = 0 /\ ~Crash
  <2>1. ~Crash
    BY DEF Crash, IInv, TypeOK
  <2>2. ASSUME IntroduceSegment \/ WriteMerge \/ IntroduceMerge \/ SkipMerge
        PROVE  crashes = 0
    BY <2>2 DEF IntroduceSegment, WriteMerge, IntroduceMerge, SkipMerge
  <2>3. ASSUME Take \/ PersistSegment \/ IntroducePersist \/ CreateSnapshot \/ LockSnapshot
        PROVE  crashes = 0
    BY <2>3 DEF Take, PersistSegment, IntroducePersist, CreateSnapshot, LockSnapshot
  <2>4. ASSUME CommitSnapshot \/ FailJob \/ CleanupSnapshots \/ CleanupSegments
        PROVE  crashes = 0
    BY <2>4 DEF CommitSnapshot, FailJob, CleanupSnapshots, CleanupSegments
  <2>5. ASSUME StartOpen \/ LoadSnapshot \/ AbortOpen \/ FinishOpen
        PROVE  crashes = 0
    BY <2>5 DEF StartOpen, LoadSnapshot, AbortOpen, FinishOpen
  <2> QED
    BY <2>1, <2>2, <2>3, <2>4, <2>5 DEF Writer
<1>2. mode = "open" /\ \A r \in Readers : GoneFor(r)
  BY <1>1 DEF Gone
<1>3. mode' = "open"
  <2>1. CASE IntroduceSegment \/ WriteMerge \/ IntroduceMerge \/ SkipMerge
    BY <1>2, <2>1 DEF IntroduceSegment, WriteMerge, IntroduceMerge, SkipMerge
  <2>2. CASE Take \/ PersistSegment \/ IntroducePersist \/ CreateSnapshot \/ LockSnapshot
    BY <1>2, <2>2 DEF Take, PersistSegment, IntroducePersist, CreateSnapshot, LockSnapshot
  <2>3. CASE CommitSnapshot \/ FailJob \/ CleanupSnapshots \/ CleanupSegments
    BY <1>2, <2>3 DEF CommitSnapshot, FailJob, CleanupSnapshots, CleanupSegments
  <2>4. ~(StartOpen \/ LoadSnapshot \/ AbortOpen \/ FinishOpen)
    BY <1>2 DEF StartOpen, LoadSnapshot, AbortOpen, FinishOpen
  <2> QED
    BY <1>1, <2>1, <2>2, <2>3, <2>4 DEF Writer
<1>4. reader \in [Readers -> ReaderStates] /\ nextID \in Nat
  BY DEF IInv, TypeOK
<1>5. ASSUME NEW r \in Readers, reader'[r] = reader[r]
      PROVE  GoneFor(r)'
  <2>1. \A i \in reader[r].lost : i \in Nat
    BY <1>4 DEF ReaderStates
  <2> QED
    BY <1>1, <1>2, <1>5, <2>1, OnlyNewIdsCome DEF GoneFor
<1>6. ASSUME NEW r \in Readers, NEW removed \in SUBSET Nat, reader' = Losing(removed),
             \A i \in removed : i <= nextID' /\ i \notin Present'
      PROVE  GoneFor(r)'
  <2> SUFFICES ASSUME NEW i \in reader'[r].lost
               PROVE  i <= nextID' /\ i \notin UNION {Present', reader'[r].opened, reader'[r].holds}
    BY DEF GoneFor
  <2>1. /\ reader'[r].opened = reader[r].opened /\ reader'[r].holds = reader[r].holds
        /\ reader'[r].lost = reader[r].lost \cup
             (removed \cap (reader[r].needs \ (reader[r].opened \cup reader[r].holds)))
    BY <1>4, <1>6 DEF Losing, ReaderStates
  <2>2. CASE i \in reader[r].lost
    <3>1. i \in Nat
      BY <1>4, <2>2 DEF ReaderStates
    <3> QED
      BY <1>1, <1>2, <2>1, <2>2, <3>1, OnlyNewIdsCome DEF GoneFor
  <2>3. CASE i \notin reader[r].lost
    BY <1>6, <2>1, <2>3
  <2> QED
    BY <2>2, <2>3
<1>7. CASE SkipMerge
  <2>1. PICK id \in outputs :
          /\ outputs' = outputs \ {id}
          /\ \/ UNCHANGED <<segFiles, reader>>
             \/ segFiles' = segFiles \ {id} /\ reader' = Losing({id})
    BY <1>7 DEF SkipMerge
  <2>2. CASE reader' = reader
    BY <1>3, <1>5, <2>2
  <2>3. CASE segFiles' = segFiles \ {id} /\ reader' = Losing({id})
    <3>1. id \in segFiles /\ id \in Nat /\ id <= nextID
      BY <1>2 DEF IInv, OnDisk, Fresh, TypeOK
    <3>2. id \notin root.mem /\ id \notin job.mem
      BY DEF IInv, Apart
    <3>3. root'.mem = root.mem /\ job' = job /\ nextID' = nextID
      BY <1>7 DEF SkipMerge, IInv, TypeOK, Roots
    <3>4. id <= nextID' /\ id \notin Present'
      BY <2>1, <2>3, <3>1, <3>2, <3>3 DEF Present
    <3> QED
      BY <1>3, <1>6, <2>3, <3>1, <3>4
  <2> QED
    BY <2>1, <2>2, <2>3
<1>8. CASE CleanupSegments
  <2>1. PICK removed \in SUBSET (Unneeded(policy) \ SharedSegments) :
          segFiles' = segFiles \ removed /\ reader' = Losing(removed)
    BY <1>8 DEF CleanupSegments
  <2>2. \A i \in removed : i \in policy.known /\ i \in Nat /\ i <= nextID
    BY <1>2, <2>1 DEF Unneeded, IInv, TypeOK, Policies, Fresh
  <2>3. \A i \in removed : i \notin UNION {root.mem, job.mem, outputs}
    BY <2>2 DEF IInv, Apart
  <2>4. \A i \in removed : i <= nextID' /\ i \notin Present'
    BY <1>8, <2>1, <2>2, <2>3 DEF Present, CleanupSegments
  <2> QED
    BY <1>3, <1>6, <2>1, <2>2, <2>4
<1>9. CASE reader' = reader
  BY <1>3, <1>5, <1>9
<1> QED
  BY <1>7, <1>8, <1>9, WriterFrame DEF CreateSnapshot, CommitSnapshot, FailJob, CleanupSnapshots

\* A reader opens only what is there.
LEMMA GoneByReader ==
  ASSUME IInv, Gone, NEW r \in Readers, Reader(r)
  PROVE  Gone'
<1> DEFINE R == reader[r]
<1>1. /\ UNCHANGED <<mode, crashes, nextID>> /\ Present' = Present
      /\ \A q \in Readers \ {r} : reader'[q] = reader[q]
  BY ReaderFrame DEF IInv, OnlyReader, Present
<1>2. reader \in [Readers -> ReaderStates] /\ R \in ReaderStates
  BY DEF IInv, TypeOK
<1> SUFFICES ASSUME GoneFor(r)
             PROVE  GoneFor(r)'
  BY <1>1 DEF Gone, GoneFor
<1> USE DEF Becomes
<1>3. ASSUME reader'[r].lost = {}
      PROVE  GoneFor(r)'
  BY <1>3 DEF GoneFor
<1>4. ASSUME reader'[r].lost = R.lost,
             UNION {reader'[r].opened, reader'[r].holds} \subseteq
               UNION {R.opened, R.holds, segFiles}
      PROVE  GoneFor(r)'
  BY <1>1, <1>4 DEF GoneFor, Present
<1>5. Retry(r).lost = {} /\ NoReader.lost = {}
  BY <1>2 DEF Retry, NoReader, ReaderStates
<1>6. CASE ListSnapshots(r) \/ CloseReader(r)
  <2>1. reader'[r].lost = {}
    BY <1>2, <1>5, <1>6 DEF ListSnapshots, CloseReader, NoReader
  <2> QED
    BY <1>3, <2>1
<1>7. CASE OpenSnapshot(r)
  <2>1. reader'[r] = Retry(r) \/ \E e : reader'[r] = [R EXCEPT !.pc = "reading", !.epoch = e]
    BY <1>2, <1>7 DEF OpenSnapshot
  <2>2. CASE reader'[r] = Retry(r)
    BY <1>3, <1>5, <2>2
  <2>3. ASSUME NEW e, reader'[r] = [R EXCEPT !.pc = "reading", !.epoch = e]
        PROVE  GoneFor(r)'
    <3>1. /\ reader'[r].lost = R.lost /\ reader'[r].opened = R.opened
          /\ reader'[r].holds = R.holds
      BY <1>2, <2>3 DEF ReaderStates
    <3> QED
      BY <1>4, <3>1
  <2> QED
    BY <2>1, <2>2, <2>3
<1>8. CASE ReadSnapshot(r)
  <2>1. reader'[r] = Retry(r) \/ \E n : reader'[r] = [R EXCEPT !.pc = "loading", !.needs = n]
    BY <1>2, <1>8 DEF ReadSnapshot
  <2>2. CASE reader'[r] = Retry(r)
    BY <1>3, <1>5, <2>2
  <2>3. ASSUME NEW n, reader'[r] = [R EXCEPT !.pc = "loading", !.needs = n]
        PROVE  GoneFor(r)'
    <3>1. /\ reader'[r].lost = R.lost /\ reader'[r].opened = R.opened
          /\ reader'[r].holds = R.holds
      BY <1>2, <2>3 DEF ReaderStates
    <3> QED
      BY <1>4, <3>1
  <2> QED
    BY <2>1, <2>2, <2>3
<1>9. CASE OpenSegment(r)
  <2>1. reader'[r] = Retry(r) \/ \E id \in segFiles : reader'[r] = [R EXCEPT !.opened = {id}]
    BY <1>2, <1>9 DEF OpenSegment
  <2>2. CASE reader'[r] = Retry(r)
    BY <1>3, <1>5, <2>2
  <2>3. ASSUME NEW id \in segFiles, reader'[r] = [R EXCEPT !.opened = {id}]
        PROVE  GoneFor(r)'
    <3>1. reader'[r].lost = R.lost /\ reader'[r].opened = {id} /\ reader'[r].holds = R.holds
      BY <1>2, <2>3 DEF ReaderStates
    <3> QED
      BY <1>4, <3>1
  <2> QED
    BY <2>1, <2>2, <2>3
<1>10. CASE LockSegment(r)
  <2>1. /\ reader'[r].lost = R.lost /\ reader'[r].opened = {}
        /\ reader'[r].holds = R.holds \cup R.opened
    BY <1>2, <1>10 DEF LockSegment, ReaderStates
  <2> QED
    BY <1>4, <2>1
<1>11. CASE ReturnSnapshot(r) \/ ReturnError(r)
  <2>1. reader'[r].lost = R.lost /\ reader'[r].opened = R.opened /\ reader'[r].holds = R.holds
    BY <1>2, <1>11 DEF ReturnSnapshot, ReturnError, ReaderStates
  <2> QED
    BY <1>4, <2>1
<1> QED
  BY <1>6, <1>7, <1>8, <1>9, <1>10, <1>11 DEF Reader

\* A reader between the snapshot file and its segments (loadSegment, index/writer.go) never
\* opens a new segment under the id of an old one, as long as the writer is not reopened.
THEOREM SegmentsAreNotMistaken == Spec => []NoSegmentIsMistaken
<1>1. Init => Gone
  BY DEF Init, NoReader, Gone, GoneFor
<1>2. IInv /\ Gone /\ [Next]_vars => Gone'
  <2> SUFFICES ASSUME IInv, Gone, [Next]_vars PROVE Gone'
    OBVIOUS
  <2>1. CASE UNCHANGED vars
    BY <2>1 DEF vars, Gone, GoneFor, Present
  <2> QED
    BY <2>1, GoneByWriter, GoneByReader DEF Next
<1>3. Gone => NoSegmentIsMistaken
  BY DEF Gone, GoneFor, NoSegmentIsMistaken
<1> QED
  BY <1>1, <1>2, <1>3, Invariance, PTL DEF Spec

=============================================================================
