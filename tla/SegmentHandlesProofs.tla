------------------------ MODULE SegmentHandlesProofs ------------------------
(***************************************************************************)
(* Proofs about SegmentHandles, for any readers, any number of segments and *)
(* of failures.  Reference counts are sound because they are a census: a    *)
(* snapshot counts the places that name it (Users), a file the snapshots it *)
(* is in and the places outside snapshots that have it (Others).            *)
(***************************************************************************)
EXTENDS SegmentHandles, FiniteSetTheorems, SequenceTheorems, WellFoundedInduction, TLAPS

Segment == [kind : {"mem", "view", "file"}, file : Nat]
SegMaps == UNION {[D -> Segment] : D \in SUBSET Nat}
Snapshot == [refs : Int, segs : SegMaps]
Works == [pc : {"idle", "stopped", "working", "merged", "introduced", "skipped", "direct",
                "sending", "waiting", "writing"},
          snap : Nat, old : SUBSET Nat, done : SUBSET Nat, file : Nat, new : Nat]

One(condition) == IF condition THEN 1 ELSE 0

Published(l) == work[l].pc \in {"introduced", "skipped"}
Unplaced(l)  == work[l].pc \in {"merged", "skipped"}
HasMap       == work["persister"].pc \in {"sending", "waiting"}
ReadersOf(n) == {r \in Readers : reader[r] = n}
OtherLoop(l) == IF l = "persister" THEN "merger" ELSE "persister"

\* A loop uses the snapshot it took, and the one it is answered with.
Holds(l, n) == One(work[l].snap = n) + One(Published(l) /\ work[l].new = n)
Users(n) == Cardinality(ReadersOf(n)) + One(root = n) + Holds("persister", n) + Holds("merger", n)

\* Who has a file open beside snapshots: a loop with a merge no root has, the persister
\* by the shared map, the introducer by the root it builds.
Has(l, f) == One(Unplaced(l) /\ work[l].file = f)
MapHas(f) == One(HasMap /\ f \in FilesOf(persisted))
Others(f) == Has("persister", f) + Has("merger", f) + MapHas(f)
               + One(f \in FilesOf(introducer.segs))

SnapsOf(snaps, f) == {n \in 1 .. Len(snaps) : f \in FilesOf(snaps[n].segs)}

\* Nobody looks into a snapshot without users.
Proper(snaps) ==
  /\ snaps \in Seq(Snapshot)
  /\ \A n \in 1 .. Len(snaps) :
       snaps[n].refs \in Nat /\ (snaps[n].refs = 0 => snaps[n].segs = <<>>)

\* What a count is beyond the snapshots with the file.
Balance(counts, snaps, f) == counts[f] - Cardinality(SnapsOf(snaps, f))

-----------------------------------------------------------------------------
(* The inductive invariant *)

Typed ==
  /\ ids \in Nat /\ faults \in Nat /\ interrupted \in BOOLEAN
  /\ files \in Seq(Int) /\ snapshots \in Seq(Snapshot)
  /\ root \in Nat /\ last \in Nat /\ persisted \in SegMaps
  /\ introducer \in [pc : {"idle", "persist", "stopped"}, todo : SUBSET Nat, segs : SegMaps]
  /\ work \in [Loops -> Works] /\ reader \in [Readers -> Nat]
  /\ retrying \in [Loops -> BOOLEAN]
  /\ closer \in {"open", "draining", "closing", "closed"}

\* Where everybody is.
Places ==
  /\ root # 0 => root = Len(snapshots)
  /\ closer = "closed" <=> root = 0
  /\ closer = "closed" => introducer.pc = "stopped" /\ \A l \in Loops : work[l].pc = "stopped"
  /\ \A l \in Loops : work[l].pc \in {"idle", "stopped"} <=> work[l].snap = 0
  /\ introducer.pc # "persist" => introducer.todo = {} /\ introducer.segs = <<>>
  /\ introducer.pc = "persist" => /\ introducer.todo \subseteq DOMAIN Segs
                                  /\ DOMAIN introducer.segs = DOMAIN Segs \ introducer.todo

\* Every name is one of a snapshot there is.
Named ==
  /\ \A r \in Readers : reader[r] <= Len(snapshots)
  /\ \A l \in Loops : /\ work[l].snap <= Len(snapshots)
                      /\ Published(l) => work[l].new \in 1 .. Len(snapshots)
  /\ last \in 1 .. Len(snapshots)

\* Snapshots count their users.
Counted ==
  \A n \in 1 .. Len(snapshots) :
    /\ IsFiniteSet(ReadersOf(n)) /\ snapshots[n].refs = Users(n)
    /\ snapshots[n].refs = 0 => snapshots[n].segs = <<>>

\* Segments as snapshots, the shared map and the introducer have them: no file twice.
SoundIn(segs, maxId, maxFile) ==
  /\ DOMAIN segs \subseteq 1 .. maxId
  /\ \A i \in DOMAIN segs : segs[i].file \in 0 .. maxFile
  /\ \A i, j \in DOMAIN segs : segs[i].file = segs[j].file /\ segs[i].file # 0 => i = j

Sound(segs) == SoundIn(segs, ids, Len(files))

\* No two have the same new file or id.
Distinct ==
  /\ \A n \in 1 .. Len(snapshots) : Sound(snapshots[n].segs)
  /\ Sound(persisted) /\ Sound(introducer.segs)
  /\ \A n \in 1 .. Len(snapshots) : FilesOf(persisted) \cap FilesOf(snapshots[n].segs) = {}
  /\ FilesOf(persisted) \cap FilesOf(introducer.segs) = {}
  /\ \A i \in DOMAIN introducer.segs :
       introducer.segs[i] = Segs[i] \/ introducer.segs[i].file \notin FilesOf(Segs)

\* A merge no root has is nobody else's, nor is its id.
OwnMerges ==
  \A l \in Loops :
    /\ Unplaced(l) =>
         /\ work[l].file \in 1 .. Len(files)
         /\ \A n \in 1 .. Len(snapshots) : work[l].file \notin FilesOf(snapshots[n].segs)
         /\ work[l].file \notin FilesOf(persisted) \cup FilesOf(introducer.segs)
         /\ Unplaced(OtherLoop(l)) => work[OtherLoop(l)].file # work[l].file
    /\ work[l].pc = "merged" =>
         /\ work[l].new \in 1 .. ids /\ work[l].new \notin DOMAIN Segs
         /\ work[OtherLoop(l)].pc = "merged" => work[OtherLoop(l)].new # work[l].new

\* Files count who has them; an interrupted Close may close them too early.
Balanced ==
  \A f \in 1 .. Len(files) :
    /\ Balance(files, snapshots, f) <= Others(f)
    /\ ~ interrupted => Balance(files, snapshots, f) = Others(f)

\* A root that was persisted has nothing in memory, nor has any after a Close that
\* drained: there is no shared map any more for closeCh to take away.
Drains ==
  /\ root # 0 /\ root = last => InMemory(Segs) = {}
  /\ work["persister"].pc \in {"introduced", "skipped", "direct"} => work["persister"].snap # root
  /\ work["persister"].pc = "waiting" /\ introducer.pc # "persist" => work["persister"].snap # root
  /\ work["persister"].pc = "writing" /\ work["persister"].snap = root => InMemory(Segs) = {}
  /\ introducer.pc = "persist" /\ work["persister"].pc # "waiting" => interrupted
  /\ closer \in {"closing", "closed"} /\ ~ interrupted =>
       /\ InMemory(Segs) = {} /\ ~ HasMap /\ introducer.pc # "persist"
       /\ \A l \in Loops : work[l].snap # 0 => InMemory(Mine(l)) = {}

IInv == Typed /\ Places /\ Named /\ Counted /\ Distinct /\ OwnMerges /\ Balanced /\ Drains

-----------------------------------------------------------------------------
(* Counting *)

\* A set of numbers that is not empty has a least member, which Min gives.
LEMMA LeastIn ==
  ASSUME NEW S \in SUBSET Nat, S # {}
  PROVE  Min(S) \in S
<1> DEFINE R == {ss \in Nat \X Nat : ss[1] < ss[2]}
<1>1. IsWellFoundedOn(R, Nat)
  BY NatLessThanWellFounded DEF OpToRel
<1>2. \A i, n \in Nat : i < n => <<i, n>> \in R
  OBVIOUS
<1> HIDE DEF R
<1>3. PICK n \in S : \A i \in S : <<i, n>> \notin R
  BY <1>1, WFMin
<1>4. \A i \in S : i \in Nat /\ ~(i < n)
  BY <1>2, <1>3
<1>5. \A i \in S : n <= i
  BY <1>4
<1> QED
  BY <1>5 DEF Min

\* Numbering the members of a set of numbers by their rank uses up 1 .. Cardinality.
LEMMA Ranks ==
  ASSUME NEW N \in Nat, NEW S \in SUBSET (1 .. N)
  PROVE  /\ IsFiniteSet(S) /\ Cardinality(S) \in Nat
         /\ \A i \in S : Cardinality({j \in S : j <= i}) \in 1 .. Cardinality(S)
         /\ \A i, k \in S : Cardinality({j \in S : j <= i}) = Cardinality({j \in S : j <= k}) => i = k
         /\ \A r \in 1 .. Cardinality(S) : \E i \in S : Cardinality({j \in S : j <= i}) = r
<1> DEFINE Upto(i) == {j \in S : j <= i}
           rank == [i \in S |-> Cardinality(Upto(i))]
<1>1. IsFiniteSet(S) /\ Cardinality(S) \in Nat
  <2>1. IsFiniteSet(1 .. N)
    BY FS_Interval
  <2> QED
    BY <2>1, FS_Subset, FS_CardinalityType
<1>2. ASSUME NEW i \in S
      PROVE  IsFiniteSet(Upto(i)) /\ Cardinality(Upto(i)) \in 1 .. Cardinality(S)
  <2>1. Upto(i) \in SUBSET S
    OBVIOUS
  <2>2. IsFiniteSet(Upto(i)) /\ Cardinality(Upto(i)) <= Cardinality(S)
    BY <1>1, <2>1, FS_Subset
  <2>3. Cardinality(Upto(i)) \in Nat
    BY <2>2, FS_CardinalityType
  <2>4. i \in Upto(i)
    OBVIOUS
  <2>5. Cardinality(Upto(i)) # 0
    BY <2>2, <2>4, FS_EmptySet
  <2> QED
    BY <1>1, <2>2, <2>3, <2>5
<1>3. ASSUME NEW i \in S, NEW k \in S, i < k
      PROVE  Cardinality(Upto(i)) < Cardinality(Upto(k))
  <2>1. \A j \in S : j <= i => j <= k
    BY <1>3
  <2>4. Upto(i) \in SUBSET Upto(k)
    BY <2>1
  <2>2. k \in Upto(k) /\ k \notin Upto(i)
    BY <1>3
  <2>3. Cardinality(Upto(i)) <= Cardinality(Upto(k)) /\ Cardinality(Upto(i)) # Cardinality(Upto(k))
    BY <1>2, <2>4, <2>2, FS_Subset
  <2> QED
    BY <1>2, <2>3
<1>4. ASSUME NEW i \in S, NEW k \in S, Cardinality(Upto(i)) = Cardinality(Upto(k))
      PROVE  i = k
  <2>1. ~(i < k)
    <3> SUFFICES ASSUME i < k PROVE FALSE
      OBVIOUS
    <3>1. Cardinality(Upto(i)) < Cardinality(Upto(k))
      BY <1>3
    <3> QED
      BY <1>2, <1>4, <3>1
  <2>2. ~(k < i)
    <3> SUFFICES ASSUME k < i PROVE FALSE
      OBVIOUS
    <3>1. Cardinality(Upto(k)) < Cardinality(Upto(i))
      BY <1>3
    <3> QED
      BY <1>2, <1>4, <3>1
  <2> QED
    BY <2>1, <2>2
<1> HIDE DEF Upto
<1>5. rank \in Injection(S, 1 .. Cardinality(S))
  BY <1>2, <1>4 DEF Injection, IsInjective
<1>6. IsFiniteSet(1 .. Cardinality(S)) /\ Cardinality(1 .. Cardinality(S)) = Cardinality(S)
  BY <1>1, FS_Interval
<1>7. rank \in Surjection(S, 1 .. Cardinality(S))
  BY <1>5, <1>6, FS_Injection
<1>8. \A r \in 1 .. Cardinality(S) : \E i \in S : Cardinality(Upto(i)) = r
  BY <1>7 DEF Surjection
<1> QED
  BY <1>1, <1>2, <1>4, <1>8 DEF Upto

\* What AddRefs and, below, DropRefs make of each count.
LEMMA AddedRefs ==
  ASSUME NEW counts \in Seq(Int), NEW some
  PROVE  /\ AddRefs(counts, some) \in Seq(Int) /\ Len(AddRefs(counts, some)) = Len(counts)
         /\ \A f \in 1 .. Len(counts) : AddRefs(counts, some)[f] = counts[f] + One(f \in some)
  BY DEF AddRefs, One

LEMMA DroppedRefs ==
  ASSUME NEW counts \in Seq(Int), NEW some
  PROVE  /\ DropRefs(counts, some) \in Seq(Int) /\ Len(DropRefs(counts, some)) = Len(counts)
         /\ \A f \in 1 .. Len(counts) : DropRefs(counts, some)[f] = counts[f] - One(f \in some)
  BY DEF DropRefs, One

\* A snapshot that gave up its segments has no files.
LEMMA NoSegments == <<>> \in SegMaps /\ DOMAIN <<>> = {} /\ FilesOf(<<>>) = {} /\ InMemory(<<>>) = {}
  BY DEF SegMaps, FilesOf, InMemory

\* A file is in finitely many snapshots.
LEMMA SnapsFinite ==
  ASSUME NEW snaps \in Seq(Snapshot), NEW f
  PROVE  IsFiniteSet(SnapsOf(snaps, f)) /\ Cardinality(SnapsOf(snaps, f)) \in Nat
<1>1. Len(snaps) \in Nat
  OBVIOUS
<1>2. IsFiniteSet(1 .. Len(snaps))
  BY <1>1, FS_Interval
<1>3. SnapsOf(snaps, f) \in SUBSET (1 .. Len(snaps))
  BY DEF SnapsOf
<1> QED
  BY <1>2, <1>3, FS_Subset, FS_CardinalityType

\* A snapshot that somebody uses gives up its segments with its last user, and its files
\* then have a snapshot and a reference less.
LEMMA OneUserLess ==
  ASSUME NEW snaps \in Seq(Snapshot), NEW n \in 1 .. Len(snaps), NEW counts \in Seq(Int)
  PROVE  /\ Decremented(snaps, n) \in Seq(Snapshot)
         /\ Len(Decremented(snaps, n)) = Len(snaps)
         /\ \A m \in 1 .. Len(snaps) :
              /\ Decremented(snaps, n)[m].refs = snaps[m].refs - One(m = n)
              /\ Decremented(snaps, n)[m].segs =
                   IF m = n /\ snaps[n].refs = 1 THEN <<>> ELSE snaps[m].segs
         /\ WithoutUser(counts, snaps, n) \in Seq(Int)
         /\ Len(WithoutUser(counts, snaps, n)) = Len(counts)
         /\ \A f \in 1 .. Len(counts) :
              Balance(WithoutUser(counts, snaps, n), Decremented(snaps, n), f)
                = Balance(counts, snaps, f)
<1> DEFINE new == [refs |-> snaps[n].refs - 1,
                   segs |-> IF snaps[n].refs = 1 THEN <<>> ELSE snaps[n].segs]
<1>0. snaps[n] \in Snapshot
  OBVIOUS
<1>1. snaps[n].refs \in Int /\ snaps[n].segs \in SegMaps /\ new \in Snapshot
  BY <1>0, NoSegments DEF Snapshot
<1>2. Decremented(snaps, n) = [snaps EXCEPT ![n] = new]
  BY DEF Decremented
<1> HIDE DEF new
<1>3. /\ Decremented(snaps, n) \in Seq(Snapshot) /\ Len(Decremented(snaps, n)) = Len(snaps)
      /\ \A m \in 1 .. Len(snaps) : Decremented(snaps, n)[m] = IF m = n THEN new ELSE snaps[m]
  BY <1>1, <1>2, ExceptSeq
<1>4. \A m \in 1 .. Len(snaps) :
        /\ Decremented(snaps, n)[m].refs = snaps[m].refs - One(m = n)
        /\ Decremented(snaps, n)[m].segs =
             IF m = n /\ snaps[n].refs = 1 THEN <<>> ELSE snaps[m].segs
  <2> TAKE m \in 1 .. Len(snaps)
  <2>1. snaps[m] \in Snapshot
    OBVIOUS
  <2> QED
    BY <1>3, <2>1 DEF new, One, Snapshot
<1>5. /\ WithoutUser(counts, snaps, n) \in Seq(Int)
      /\ Len(WithoutUser(counts, snaps, n)) = Len(counts)
  BY DroppedRefs DEF WithoutUser
<1>6. ASSUME NEW f \in 1 .. Len(counts)
      PROVE  Balance(WithoutUser(counts, snaps, n), Decremented(snaps, n), f)
               = Balance(counts, snaps, f)
  <2>1. IsFiniteSet(SnapsOf(snaps, f)) /\ Cardinality(SnapsOf(snaps, f)) \in Nat
    BY SnapsFinite
  <2>2. counts[f] \in Int
    OBVIOUS
  <2>3. CASE snaps[n].refs = 1
    <3>1. SnapsOf(Decremented(snaps, n), f) = SnapsOf(snaps, f) \ {n}
      BY <1>3, <1>4, <2>3, NoSegments DEF SnapsOf
    <3>2. Cardinality(SnapsOf(snaps, f) \ {n})
            = Cardinality(SnapsOf(snaps, f)) - One(f \in FilesOf(snaps[n].segs))
      <4>1. n \in SnapsOf(snaps, f) <=> f \in FilesOf(snaps[n].segs)
        BY DEF SnapsOf
      <4> HIDE DEF SnapsOf
      <4>2. Cardinality(SnapsOf(snaps, f) \ {n}) = IF n \in SnapsOf(snaps, f)
              THEN Cardinality(SnapsOf(snaps, f)) - 1 ELSE Cardinality(SnapsOf(snaps, f))
        BY <2>1, FS_RemoveElement
      <4> QED
        BY <2>1, <4>1, <4>2 DEF One
    <3>3. WithoutUser(counts, snaps, n)[f] = counts[f] - One(f \in FilesOf(snaps[n].segs))
      BY <2>3, DroppedRefs DEF WithoutUser
    <3> QED
      BY <2>1, <2>2, <3>1, <3>2, <3>3 DEF Balance, One
  <2>4. CASE snaps[n].refs # 1
    <3>1. SnapsOf(Decremented(snaps, n), f) = SnapsOf(snaps, f)
      BY <1>3, <1>4, <2>4 DEF SnapsOf
    <3> QED
      BY <2>4, <3>1 DEF Balance, WithoutUser
  <2> QED
    BY <2>3, <2>4
<1> QED
  BY <1>3, <1>4, <1>5, <1>6

\* currentSnapshot: one user more.
WithUser(snaps, n) == [snaps EXCEPT ![n].refs = @ + 1]

\* A user more changes no segments, and so no balance.
LEMMA OneUserMore ==
  ASSUME NEW snaps \in Seq(Snapshot), NEW n \in 1 .. Len(snaps), NEW counts \in Seq(Int),
         NEW new, new = WithUser(snaps, n)
  PROVE  /\ new \in Seq(Snapshot) /\ Len(new) = Len(snaps)
         /\ \A m \in 1 .. Len(snaps) : /\ new[m].refs = snaps[m].refs + One(m = n)
                                       /\ new[m].segs = snaps[m].segs
         /\ \A f : Balance(counts, new, f) = Balance(counts, snaps, f)
<1> DEFINE one == [refs |-> snaps[n].refs + 1, segs |-> snaps[n].segs]
<1>0. snaps[n] \in Snapshot
  OBVIOUS
<1>1. snaps[n] = [refs |-> snaps[n].refs, segs |-> snaps[n].segs]
  BY <1>0 DEF Snapshot
<1>6. one \in Snapshot
  BY <1>0 DEF Snapshot
<1>2. new = [snaps EXCEPT ![n] = one]
  <2>1. [snaps[n] EXCEPT !.refs = snaps[n].refs + 1] = one
    BY <1>1
  <2> QED
    BY <2>1 DEF WithUser
<1> HIDE DEF one
<1>3. /\ new \in Seq(Snapshot) /\ Len(new) = Len(snaps)
      /\ \A m \in 1 .. Len(snaps) : new[m] = IF m = n THEN one ELSE snaps[m]
  <2> DEFINE s == [snaps EXCEPT ![n] = one]
  <2>1. /\ s \in Seq(Snapshot) /\ Len(s) = Len(snaps)
        /\ \A m \in 1 .. Len(snaps) : s[m] = IF m = n THEN one ELSE snaps[m]
    BY <1>6, ExceptSeq
  <2> HIDE DEF s
  <2>2. new = s
    BY <1>2 DEF s
  <2> QED
    BY <2>1, <2>2
<1>4. \A m \in 1 .. Len(snaps) : /\ new[m].refs = snaps[m].refs + One(m = n)
                                 /\ new[m].segs = snaps[m].segs
  <2> TAKE m \in 1 .. Len(snaps)
  <2>1. snaps[m] \in Snapshot
    OBVIOUS
  <2> QED
    BY <1>3, <2>1 DEF one, One, Snapshot
<1>5. \A f : SnapsOf(new, f) = SnapsOf(snaps, f)
  BY <1>3, <1>4 DEF SnapsOf
<1> QED
  BY <1>3, <1>4, <1>5 DEF Balance

\* A new snapshot is one more for the files in it.
LEMMA OneSnapshotMore ==
  ASSUME NEW snaps \in Seq(Snapshot), NEW one \in Snapshot, NEW counts \in Seq(Int)
  PROVE  /\ Append(snaps, one) \in Seq(Snapshot) /\ Len(Append(snaps, one)) = Len(snaps) + 1
         /\ \A m \in 1 .. Len(snaps) : Append(snaps, one)[m] = snaps[m]
         /\ Append(snaps, one)[Len(snaps) + 1] = one
         /\ \A f \in 1 .. Len(counts) :
              Balance(counts, Append(snaps, one), f)
                = Balance(counts, snaps, f) - One(f \in FilesOf(one.segs))
<1> DEFINE new == Append(snaps, one)
           segs == one.segs
<1>3. /\ new \in Seq(Snapshot) /\ Len(new) = Len(snaps) + 1
      /\ \A m \in 1 .. Len(snaps) : new[m] = snaps[m]
      /\ new[Len(snaps) + 1] = one
  BY AppendProperties
<1> HIDE DEF new
<1>4. ASSUME NEW f \in 1 .. Len(counts)
      PROVE  Balance(counts, new, f) = Balance(counts, snaps, f) - One(f \in FilesOf(segs))
  <2>1. IsFiniteSet(SnapsOf(snaps, f)) /\ Cardinality(SnapsOf(snaps, f)) \in Nat
    BY SnapsFinite
  <2>2. SnapsOf(new, f) = IF f \in FilesOf(segs) THEN SnapsOf(snaps, f) \cup {Len(snaps) + 1}
                                                 ELSE SnapsOf(snaps, f)
    <3>1. Len(snaps) \in Nat
      OBVIOUS
    <3>2. 1 .. Len(new) = (1 .. Len(snaps)) \cup {Len(snaps) + 1}
      BY <1>3, <3>1
    <3>3. f \in FilesOf(new[Len(snaps) + 1].segs) <=> f \in FilesOf(segs)
      BY <1>3
    <3> QED
      BY <1>3, <3>2, <3>3 DEF SnapsOf
  <2>3. Len(snaps) + 1 \notin SnapsOf(snaps, f)
    BY DEF SnapsOf
  <2>6. Cardinality(SnapsOf(snaps, f) \cup {Len(snaps) + 1}) = Cardinality(SnapsOf(snaps, f)) + 1
    BY <2>1, <2>3, FS_AddElement
  <2>4. Cardinality(SnapsOf(new, f)) = Cardinality(SnapsOf(snaps, f)) + One(f \in FilesOf(segs))
    BY <2>1, <2>2, <2>6 DEF One
  <2>5. counts[f] \in Int
    OBVIOUS
  <2> QED
    BY <2>1, <2>4, <2>5 DEF Balance, One
<1> QED
  BY <1>3, <1>4 DEF new

-----------------------------------------------------------------------------
(* States and steps *)

\* What is counted counts once.
LEMMA OneType == \A condition : One(condition) \in {0, 1}
  BY DEF One

\* What the invariant says of the types of snapshots, files and the root.
LEMMA Shapes ==
  ASSUME IInv
  PROVE  /\ Len(snapshots) \in Nat /\ Len(files) \in Nat
         /\ \A n \in 1 .. Len(snapshots) : snapshots[n] \in Snapshot
         /\ \A n \in 1 .. Len(snapshots) : snapshots[n].refs \in Int /\ snapshots[n].segs \in SegMaps
         /\ \A f \in 1 .. Len(files) : files[f] \in Int
         /\ \A l \in Loops : work[l] \in Works /\ work[l].snap \in 0 .. Len(snapshots)
<1>1. files \in Seq(Int) /\ snapshots \in Seq(Snapshot)
  BY DEF IInv, Typed
<1>2. \A n \in 1 .. Len(snapshots) : snapshots[n] \in Snapshot
  BY <1>1
<1>3. \A n \in 1 .. Len(snapshots) : snapshots[n].refs \in Int /\ snapshots[n].segs \in SegMaps
  BY <1>2 DEF Snapshot
<1>4. \A l \in Loops : work[l] \in Works
  BY DEF IInv, Typed
<1>5. \A l \in Loops : work[l].snap \in Nat /\ work[l].snap <= Len(snapshots)
  BY <1>4 DEF Works, IInv, Named
<1> QED
  BY <1>1, <1>2, <1>3, <1>4, <1>5

\* Whoever names a snapshot is one of those it counts.
LEMMA Using ==
  ASSUME IInv, NEW n \in 1 .. Len(snapshots)
  PROVE  /\ Cardinality(ReadersOf(n)) \in Nat /\ IsFiniteSet(ReadersOf(n))
         /\ snapshots[n].refs \in Nat /\ snapshots[n].refs = Users(n)
         /\ root = n => snapshots[n].refs >= 1
         /\ \A l \in Loops : One(root = n) + Holds(l, n) <= snapshots[n].refs
         /\ \A r \in Readers : reader[r] = n => One(root = n) + 1 <= snapshots[n].refs
<1>1. IsFiniteSet(ReadersOf(n)) /\ snapshots[n].refs = Users(n)
  BY DEF IInv, Counted
<1>2. Cardinality(ReadersOf(n)) \in Nat
  BY <1>1, FS_CardinalityType
<1>3. \A l \in Loops : Holds(l, n) \in Nat
  BY DEF Holds, One
<1>4. Holds("persister", n) \in Nat /\ Holds("merger", n) \in Nat /\ One(root = n) \in {0, 1}
  BY <1>3, OneType DEF Loops
<1>5. \A l \in Loops : One(root = n) + Holds(l, n) <= Users(n)
  BY <1>2, <1>4 DEF Users, Loops
<1>6. ASSUME NEW r \in Readers, reader[r] = n
      PROVE  One(root = n) + 1 <= Users(n)
  <2>1. ReadersOf(n) # {}
    BY <1>6 DEF ReadersOf
  <2>2. Cardinality(ReadersOf(n)) # 0
    BY <1>1, <2>1, FS_EmptySet
  <2> QED
    BY <1>2, <1>4, <2>2 DEF Users
<1>7. Users(n) \in Nat
  BY <1>2, <1>4 DEF Users
<1>8. root = n => One(root = n) = 1
  BY DEF One
<1>9. root = n => Users(n) >= 1
  BY <1>2, <1>4, <1>8 DEF Users
<1> QED
  BY <1>1, <1>2, <1>5, <1>6, <1>7, <1>9

\* Giving up a snapshot in use, and its files' counts with it.
GivesUp(snaps, n, counts, new, rest) ==
  /\ Proper(new) /\ Len(new) = Len(snaps)
  /\ \A m \in 1 .. Len(snaps) :
       /\ new[m].refs = snaps[m].refs - One(m = n)
       /\ new[m].refs # 0 => new[m].segs = snaps[m].segs
  /\ rest \in Seq(Int) /\ Len(rest) = Len(counts)
  /\ \A f \in 1 .. Len(counts) : Balance(rest, new, f) = Balance(counts, snaps, f)

\* decRef of a proper snapshot gives one up and leaves the others proper.
LEMMA Releasing ==
  ASSUME NEW snaps, Proper(snaps), NEW n \in 1 .. Len(snaps), snaps[n].refs >= 1,
         NEW counts \in Seq(Int), NEW new, new = Decremented(snaps, n),
         NEW rest, rest = WithoutUser(counts, snaps, n)
  PROVE  GivesUp(snaps, n, counts, new, rest)
<1>1. snaps \in Seq(Snapshot)
  BY DEF Proper
<1>2. /\ Decremented(snaps, n) \in Seq(Snapshot) /\ Len(Decremented(snaps, n)) = Len(snaps)
      /\ \A m \in 1 .. Len(snaps) :
           /\ Decremented(snaps, n)[m].refs = snaps[m].refs - One(m = n)
           /\ Decremented(snaps, n)[m].segs =
                IF m = n /\ snaps[n].refs = 1 THEN <<>> ELSE snaps[m].segs
      /\ WithoutUser(counts, snaps, n) \in Seq(Int)
      /\ Len(WithoutUser(counts, snaps, n)) = Len(counts)
      /\ \A f \in 1 .. Len(counts) :
           Balance(WithoutUser(counts, snaps, n), Decremented(snaps, n), f)
             = Balance(counts, snaps, f)
  BY <1>1, OneUserLess DEF One
<1>3. /\ new \in Seq(Snapshot) /\ Len(new) = Len(snaps)
      /\ \A m \in 1 .. Len(snaps) :
           /\ new[m].refs = snaps[m].refs - One(m = n)
           /\ new[m].segs = IF m = n /\ snaps[n].refs = 1 THEN <<>> ELSE snaps[m].segs
      /\ rest \in Seq(Int) /\ Len(rest) = Len(counts)
      /\ \A f \in 1 .. Len(counts) : Balance(rest, new, f) = Balance(counts, snaps, f)
  BY <1>2
<1>4. ASSUME NEW m \in 1 .. Len(snaps)
      PROVE  /\ new[m].refs \in Nat
             /\ new[m].refs = 0 => new[m].segs = <<>>
             /\ new[m].refs # 0 => new[m].segs = snaps[m].segs
  <2>1. snaps[m].refs \in Nat /\ (snaps[m].refs = 0 => snaps[m].segs = <<>>)
    BY DEF Proper
  <2> QED
    BY <1>3, <2>1 DEF One
<1> QED
  BY <1>3, <1>4 DEF Proper, GivesUp

\* The snapshots of the invariant are proper: one that counts nobody has no segments.
LEMMA IsProper == IInv => Proper(snapshots)
  BY Using DEF IInv, Typed, Counted, Proper

\* Two kinds of segments there are no files of.
LEMMA NoFiles == \A segs : 0 \notin FilesOf(segs)
  BY DEF FilesOf

\* A step of one loop that publishes nothing and loads no file: it may give up or take
\* references, and the others see what they saw.
LEMMA LoopStep ==
  ASSUME IInv, NEW l \in Loops, work'[OtherLoop(l)] = work[OtherLoop(l)],
         UNCHANGED <<root, ids, introducer, reader, closer, interrupted>>, closer # "closed",
         Len(snapshots') = Len(snapshots), Len(files') = Len(files),
         persisted' \in {persisted, <<>>},
         \A n \in 1 .. Len(snapshots) :
           /\ snapshots'[n].refs = snapshots[n].refs + Holds(l, n)' - Holds(l, n)
           /\ snapshots'[n].refs = 0 => snapshots'[n].segs = <<>>
           /\ snapshots'[n].refs # 0 => snapshots'[n].segs = snapshots[n].segs,
         \A f \in 1 .. Len(files) :
           Balance(files', snapshots', f)
             = Balance(files, snapshots, f) + Has(l, f)' - Has(l, f) + MapHas(f)' - MapHas(f),
         work'[l].snap <= Len(snapshots), last' \in 1 .. Len(snapshots),
         work'[l].pc \in {"idle", "stopped"} <=> work'[l].snap = 0,
         Published(l)' => work'[l].new \in 1 .. Len(snapshots),
         Unplaced(l)' => Unplaced(l) /\ work'[l].file = work[l].file,
         work'[l].pc # "merged"
  PROVE  /\ Places' /\ Named' /\ Counted' /\ Distinct' /\ OwnMerges' /\ Balanced'
         /\ Segs' = Segs
         /\ \A k \in Loops : work'[k].snap = work[k].snap /\ work[k].snap # 0 => Mine(k)' = Mine(k)
<1>1. OtherLoop(l) \in Loops /\ OtherLoop(l) # l /\ Loops = {l, OtherLoop(l)}
      /\ OtherLoop(OtherLoop(l)) = l
  BY DEF Loops, OtherLoop
<1>2. \A n : ReadersOf(n)' = ReadersOf(n) /\ One(root = n)' = One(root = n)
             /\ Holds(OtherLoop(l), n)' = Holds(OtherLoop(l), n)
  BY DEF ReadersOf, Holds, Published, One
<1>3. \A f : Has(OtherLoop(l), f)' = Has(OtherLoop(l), f)
  BY DEF Has, Unplaced, One
<1>4. Counted'
  <2> SUFFICES ASSUME NEW n \in 1 .. Len(snapshots)
               PROVE  IsFiniteSet(ReadersOf(n)') /\ snapshots'[n].refs = Users(n)'
    BY DEF Counted
  <2>1. Cardinality(ReadersOf(n)) \in Nat /\ snapshots[n].refs = Users(n) /\ IsFiniteSet(ReadersOf(n))
    BY Using
  <2>2. \A k \in Loops : Holds(k, n) \in Nat /\ Holds(k, n)' \in Nat
    BY DEF Holds, One
  <2>3. One(root = n) \in Nat
    BY OneType
  <2>4. /\ Users(n) = Cardinality(ReadersOf(n)) + One(root = n) + Holds(l, n) + Holds(OtherLoop(l), n)
        /\ Users(n)' = Cardinality(ReadersOf(n))' + One(root = n)' + Holds(l, n)' + Holds(OtherLoop(l), n)'
    <3>1. Holds("persister", n) \in Nat /\ Holds("persister", n)' \in Nat
      BY DEF Holds, One
    <3>2. Holds("merger", n) \in Nat /\ Holds("merger", n)' \in Nat
      BY DEF Holds, One
    <3>3. Cardinality(ReadersOf(n))' \in Nat /\ One(root = n)' \in Nat
      BY <1>2, <2>1, <2>3
    <3>4. CASE l = "persister"
      <4>1. OtherLoop(l) = "merger"
        BY <3>4 DEF OtherLoop
      <4> QED
        BY <3>4, <4>1 DEF Users
    <3>5. CASE l = "merger"
      <4>1. OtherLoop(l) = "persister"
        BY <3>5 DEF OtherLoop
      <4>2. Users(n) = Cardinality(ReadersOf(n)) + One(root = n) + Holds(OtherLoop(l), n) + Holds(l, n)
        BY <3>5, <4>1 DEF Users
      <4>3. Users(n)' = Cardinality(ReadersOf(n))' + One(root = n)' + Holds(OtherLoop(l), n)' + Holds(l, n)'
        BY <3>5, <4>1 DEF Users
      <4>4. Holds(OtherLoop(l), n) \in Nat /\ Holds(l, n) \in Nat
            /\ Holds(OtherLoop(l), n)' \in Nat /\ Holds(l, n)' \in Nat
        BY <3>1, <3>2, <3>5, <4>1
      <4> QED
        BY <2>1, <2>3, <3>3, <4>2, <4>3, <4>4
    <3> QED
      BY <3>4, <3>5 DEF Loops
  <2> QED
    BY <1>1, <1>2, <2>1, <2>2, <2>3, <2>4
<1>5. Named'
  BY <1>1 DEF IInv, Named, Published
<1>6. ASSUME NEW n \in 1 .. Len(snapshots), Users(n)' # 0
      PROVE  snapshots'[n].segs = snapshots[n].segs
  BY <1>4, <1>6 DEF Counted
<1>7. Segs' = Segs
  <2>1. CASE root = 0
    BY <2>1 DEF Segs
  <2>2. CASE root # 0
    <3>1. root \in 1 .. Len(snapshots)
      BY <2>2, Shapes DEF IInv, Places, Typed
    <3>2. Cardinality(ReadersOf(root)) \in Nat
      BY <3>1, Using
    <3>3. Users(root)' # 0
      <4>1. snapshots'[root].refs = snapshots[root].refs + Holds(l, root)' - Holds(l, root)
        BY <3>1
      <4>2. One(root = root) + Holds(l, root) <= snapshots[root].refs /\ One(root = root) = 1
        BY <3>1, Using DEF One
      <4>3. Holds(l, root) \in Nat /\ Holds(l, root)' \in Nat /\ snapshots[root].refs \in Nat
        <5>1. Holds(l, root) \in Nat
          BY DEF Holds, One
        <5>2. Holds(l, root)' \in Nat
          BY DEF Holds, One
        <5> QED
          BY <3>1, <5>1, <5>2, Using
      <4>4. snapshots'[root].refs = Users(root)'
        BY <1>4, <3>1 DEF Counted
      <4> QED
        BY <4>1, <4>2, <4>3, <4>4
    <3> QED
      BY <1>6, <2>2, <3>1, <3>3 DEF Segs
  <2> QED
    BY <2>1, <2>2
<1>8. ASSUME NEW k \in Loops, work'[k].snap = work[k].snap, work[k].snap # 0
      PROVE  Mine(k)' = Mine(k)
  <2>1. work[k].snap \in 1 .. Len(snapshots)
    BY <1>8, Shapes
  <2> DEFINE n == work[k].snap
  <2>2. Cardinality(ReadersOf(n)') \in Nat
    <3>1. Cardinality(ReadersOf(work[k].snap)) \in Nat
      BY <2>1, Using
    <3> QED
      BY <1>2, <1>8, <3>1
  <2>3. Holds(k, n)' \in Nat /\ Holds(k, n)' # 0
    BY <1>8 DEF Holds, One
  <2>4. Holds("persister", n)' \in Nat /\ Holds("merger", n)' \in Nat /\ One(root = n)' \in Nat
    BY DEF Holds, One
  <2>5. Users(n)' # 0
    BY <2>2, <2>3, <2>4 DEF Users, Loops
  <2> QED
    BY <1>6, <1>8, <2>1, <2>5 DEF Mine
<1>9. Places'
  BY <1>1, <1>7 DEF IInv, Places
<1>10. \A n \in 1 .. Len(snapshots) : /\ snapshots'[n].segs \in {snapshots[n].segs, <<>>}
                                      /\ FilesOf(snapshots'[n].segs) \subseteq FilesOf(snapshots[n].segs)
  BY NoSegments
<1>11. FilesOf(persisted') \subseteq FilesOf(persisted)
  BY NoSegments
<1>12. \A segs : Sound(segs)' <=> Sound(segs)
  BY DEF Sound
<1>13. Sound(<<>>)
  BY NoSegments DEF Sound, SoundIn
<1>14. Distinct'
  BY <1>7, <1>10, <1>11, <1>12, <1>13 DEF IInv, Distinct
<1>15. OwnMerges'
  <2> DEFINE o == OtherLoop(l)
  <2>1. ASSUME NEW k \in Loops, Unplaced(k)'
        PROVE  Unplaced(k) /\ work'[k].file = work[k].file /\ k \in {l, o}
    BY <1>1, <2>1 DEF Unplaced
  <2>2. ASSUME NEW k \in Loops, work'[k].pc = "merged"
        PROVE  k = o /\ work[k].pc = "merged" /\ work'[k].new = work[k].new
    BY <1>1, <2>2
  <2> HIDE DEF o
  <2>3. ASSUME NEW k \in Loops, Unplaced(k)'
        PROVE  /\ work'[k].file \in 1 .. Len(files')
               /\ \A n \in 1 .. Len(snapshots') : work'[k].file \notin FilesOf(snapshots'[n].segs)
               /\ work'[k].file \notin FilesOf(persisted') \cup FilesOf(introducer'.segs)
               /\ Unplaced(OtherLoop(k))' => work'[OtherLoop(k)].file # work'[k].file
    <3>1. Unplaced(k) /\ work'[k].file = work[k].file
      BY <2>1, <2>3
    <3>2. OtherLoop(k) \in Loops
      BY DEF OtherLoop, Loops
    <3>3. Unplaced(OtherLoop(k))' =>
            Unplaced(OtherLoop(k)) /\ work'[OtherLoop(k)].file = work[OtherLoop(k)].file
      BY <2>1, <3>2
    <3>4. /\ work[k].file \in 1 .. Len(files)
          /\ \A n \in 1 .. Len(snapshots) : work[k].file \notin FilesOf(snapshots[n].segs)
          /\ work[k].file \notin FilesOf(persisted) \cup FilesOf(introducer.segs)
          /\ Unplaced(OtherLoop(k)) => work[OtherLoop(k)].file # work[k].file
      BY <3>1 DEF IInv, OwnMerges
    <3> QED
      BY <1>10, <1>11, <3>1, <3>3, <3>4
  <2>4. ASSUME NEW k \in Loops, work'[k].pc = "merged"
        PROVE  /\ work'[k].new \in 1 .. ids' /\ work'[k].new \notin DOMAIN Segs'
               /\ work'[OtherLoop(k)].pc = "merged" => work'[OtherLoop(k)].new # work'[k].new
    <3>1. work[k].pc = "merged" /\ work'[k].new = work[k].new /\ k = o
      BY <2>2, <2>4
    <3>2. work'[OtherLoop(k)].pc # "merged"
      BY <1>1, <3>1 DEF o
    <3> QED
      BY <1>7, <3>1, <3>2 DEF IInv, OwnMerges
  <2> QED
    BY <2>3, <2>4 DEF OwnMerges
<1>16. Balanced'
  <2> SUFFICES ASSUME NEW f \in 1 .. Len(files)
               PROVE  /\ Balance(files', snapshots', f) <= Others(f)'
                      /\ ~ interrupted => Balance(files', snapshots', f) = Others(f)'
    BY DEF Balanced
  <2>1. /\ Balance(files, snapshots, f) <= Others(f)
        /\ ~ interrupted => Balance(files, snapshots, f) = Others(f)
    BY DEF IInv, Balanced
  <2>2. \A k \in Loops : Has(k, f) \in Nat /\ Has(k, f)' \in Nat
    BY DEF Has, One
  <2>3. MapHas(f) \in Nat /\ MapHas(f)' \in Nat /\ One(f \in FilesOf(introducer.segs)) \in Nat
    BY DEF MapHas, One
  <2>4. Others(f) = Has(l, f) + Has(OtherLoop(l), f) + MapHas(f) + One(f \in FilesOf(introducer.segs))
    BY <1>1, <2>2, <2>3 DEF Others, Loops, OtherLoop
  <2>5. Others(f)' = Has(l, f)' + Has(OtherLoop(l), f) + MapHas(f)' + One(f \in FilesOf(introducer.segs))
    BY <1>1, <1>3, <2>2, <2>3 DEF Others, Loops, OtherLoop
  <2>6. Balance(files, snapshots, f) \in Int
    <3>1. files[f] \in Int /\ snapshots \in Seq(Snapshot)
      BY DEF IInv, Typed
    <3> QED
      BY <3>1, SnapsFinite DEF Balance
  <2>7. Balance(files', snapshots', f)
          = Balance(files, snapshots, f) + Has(l, f)' - Has(l, f) + MapHas(f)' - MapHas(f)
    OBVIOUS
  <2> DEFINE b == Balance(files, snapshots, f)   bb == Balance(files', snapshots', f)
             h == Has(l, f)   hh == Has(l, f)'   o == Has(OtherLoop(l), f)
             m == MapHas(f)   mm == MapHas(f)'   i == One(f \in FilesOf(introducer.segs))
             u == Others(f)   uu == Others(f)'
  <2>8. b \in Int /\ h \in Nat /\ hh \in Nat /\ o \in Nat /\ m \in Nat /\ mm \in Nat /\ i \in Nat
    BY <1>1, <2>2, <2>3, <2>6
  <2>9. u = h + o + m + i /\ uu = hh + o + mm + i /\ bb = b + hh - h + mm - m
    BY <2>4, <2>5, <2>7
  <2>10. b <= u /\ (~ interrupted => b = u)
    BY <2>1
  <2> HIDE DEF b, bb, h, hh, o, m, mm, i, u, uu
  <2>11. bb <= uu /\ (~ interrupted => bb = uu)
    BY <2>8, <2>9, <2>10
  <2> QED
    BY <2>11 DEF bb, uu
<1> QED
  BY <1>4, <1>5, <1>7, <1>8, <1>9, <1>14, <1>15, <1>16

\* The first root not persisted is handed from hand to hand: what a loop's step has to
\* say about it.
LEMMA LoopDrains ==
  ASSUME IInv, NEW l \in Loops, work'[OtherLoop(l)] = work[OtherLoop(l)],
         UNCHANGED <<root, introducer, closer, interrupted>>, Segs' = Segs,
         \A k \in Loops : work'[k].snap = work[k].snap /\ work[k].snap # 0 => Mine(k)' = Mine(k),
         work'[l].snap \in {0, work[l].snap},
         last' = root => InMemory(Segs) = {},
         work'[l].pc \in {"introduced", "skipped", "direct"} =>
           work[l].pc \in {"introduced", "skipped", "direct"} /\ work'[l].snap = work[l].snap,
         work'[l].pc \notin {"sending", "waiting"},
         l = "persister" /\ work'[l].pc = "writing" /\ work'[l].snap = root => InMemory(Segs) = {},
         l = "persister" /\ introducer.pc = "persist" => work[l].pc # "waiting" \/ interrupted
  PROVE  Drains'
<1>2. HasMap' => HasMap
  BY DEF HasMap, OtherLoop, Loops
<1>3. ASSUME NEW k \in Loops, work'[k].snap # 0
      PROVE  work[k].snap # 0 /\ Mine(k)' = Mine(k)
  BY <1>3 DEF OtherLoop, Loops
<1>4. /\ work'["persister"].pc \in {"introduced", "skipped", "direct"} => work'["persister"].snap # root
      /\ work'["persister"].pc = "waiting" /\ introducer.pc # "persist" => work'["persister"].snap # root
      /\ work'["persister"].pc = "writing" /\ work'["persister"].snap = root => InMemory(Segs) = {}
      /\ introducer.pc = "persist" /\ work'["persister"].pc # "waiting" => interrupted
  <2>1. CASE l = "persister"
    BY <2>1 DEF IInv, Drains
  <2>2. CASE l = "merger"
    <3>1. work'["persister"] = work["persister"]
      BY <2>2 DEF OtherLoop
    <3> QED
      BY <3>1 DEF IInv, Drains
  <2> QED
    BY <2>1, <2>2 DEF Loops
<1>5. closer \in {"closing", "closed"} /\ ~ interrupted =>
       /\ InMemory(Segs) = {} /\ ~ HasMap' /\ introducer.pc # "persist"
       /\ \A k \in Loops : work'[k].snap # 0 => InMemory(Mine(k)') = {}
  BY <1>2, <1>3 DEF IInv, Drains
<1> QED
  BY <1>4, <1>5 DEF Drains

\* A loop gives up the snapshot it took and is done with it.
LEMMA Left ==
  ASSUME IInv, NEW l \in Loops, NEW pc \in {"idle", "stopped"}, Leave(l, pc),
         work[l].pc \in {"working", "direct", "writing"},
         UNCHANGED <<root, ids, introducer, persisted, reader, closer, interrupted>>,
         last' \in 1 .. Len(snapshots), faults' \in Nat, retrying' \in [Loops -> BOOLEAN],
         last' = root => InMemory(Segs) = {}
  PROVE  IInv'
<1> DEFINE n == work[l].snap
<1>1. /\ n \in 1 .. Len(snapshots) /\ closer # "closed"
      /\ ~ Published(l) /\ ~ Unplaced(l)
  BY Shapes DEF IInv, Places, Published, Unplaced
<1>2. snapshots' = Decremented(snapshots, n) /\ files' = WithoutUser(files, snapshots, n)
      /\ work' = [work EXCEPT ![l] = [Idle EXCEPT !.pc = pc]]
  BY DEF Leave, Release
<1>3. /\ work'[l] = [Idle EXCEPT !.pc = pc] /\ work'[l] \in Works
      /\ work'[l].pc = pc /\ work'[l].snap = 0
      /\ work' \in [Loops -> Works] /\ work'[OtherLoop(l)] = work[OtherLoop(l)]
  BY <1>2 DEF IInv, Typed, Works, Idle, OtherLoop, Loops
<1>4. ~ Published(l)' /\ ~ Unplaced(l)' /\ (HasMap' <=> HasMap)
  BY <1>1, <1>3 DEF Published, Unplaced, HasMap, OtherLoop, Loops
<1>5. \A m \in 1 .. Len(snapshots) : Holds(l, m) = One(m = n) /\ Holds(l, m)' = 0
  BY <1>1, <1>3, <1>4 DEF Holds, One
<1>6. snapshots[n].refs >= 1
  <2>1. One(root = n) + Holds(l, n) <= snapshots[n].refs /\ snapshots[n].refs \in Nat
    BY <1>1, Using
  <2>2. One(root = n) \in Nat /\ Holds(l, n) = 1
    BY <1>1, <1>5, OneType DEF One
  <2> QED
    BY <2>1, <2>2
<1>7. files \in Seq(Int)
  BY DEF IInv, Typed
<1>8. /\ Proper(snapshots') /\ Len(snapshots') = Len(snapshots)
      /\ \A m \in 1 .. Len(snapshots) :
           /\ snapshots'[m].refs = snapshots[m].refs - One(m = n)
           /\ snapshots'[m].refs # 0 => snapshots'[m].segs = snapshots[m].segs
      /\ files' \in Seq(Int) /\ Len(files') = Len(files)
      /\ \A f \in 1 .. Len(files) : Balance(files', snapshots', f) = Balance(files, snapshots, f)
  <2>9. GivesUp(snapshots, n, files, snapshots', files')
    BY <1>1, <1>2, <1>6, <1>7, IsProper, Releasing
  <2> QED
    BY <2>9 DEF GivesUp
<1>9. \A m \in 1 .. Len(snapshots) :
        /\ snapshots'[m].refs = snapshots[m].refs + Holds(l, m)' - Holds(l, m)
        /\ snapshots'[m].refs = 0 => snapshots'[m].segs = <<>>
        /\ snapshots'[m].refs # 0 => snapshots'[m].segs = snapshots[m].segs
  <2> TAKE m \in 1 .. Len(snapshots)
  <2>1. snapshots[m].refs \in Int /\ One(m = n) \in Int
    BY Shapes, OneType
  <2>2. Holds(l, m) = One(m = n) /\ Holds(l, m)' = 0
    BY <1>5
  <2>3. snapshots'[m].refs = snapshots[m].refs - One(m = n)
    BY <1>8
  <2>4. snapshots'[m].refs = snapshots[m].refs + Holds(l, m)' - Holds(l, m)
    BY <2>1, <2>2, <2>3
  <2> QED
    BY <1>8, <2>4 DEF Proper
<1>10. \A f \in 1 .. Len(files) :
         Balance(files', snapshots', f)
           = Balance(files, snapshots, f) + Has(l, f)' - Has(l, f) + MapHas(f)' - MapHas(f)
  <2> TAKE f \in 1 .. Len(files)
  <2>1. Has(l, f)' = 0 /\ Has(l, f) = 0
    BY <1>1, <1>4 DEF Has, One
  <2>2. MapHas(f)' = MapHas(f) /\ MapHas(f) \in Nat
    BY <1>4 DEF MapHas, One
  <2>3. Balance(files, snapshots, f) \in Int
    BY <1>7, SnapsFinite DEF Balance, IInv, Typed
  <2> QED
    BY <1>8, <2>1, <2>2, <2>3
<1>11. /\ work'[l].snap <= Len(snapshots)
       /\ work'[l].pc \in {"idle", "stopped"} <=> work'[l].snap = 0
       /\ work'[l].pc # "merged" /\ persisted' \in {persisted, <<>>}
  BY <1>1, <1>3
<1>12. /\ Places' /\ Named' /\ Counted' /\ Distinct' /\ OwnMerges' /\ Balanced' /\ Segs' = Segs
       /\ \A k \in Loops : work'[k].snap = work[k].snap /\ work[k].snap # 0 => Mine(k)' = Mine(k)
  BY <1>1, <1>3, <1>4, <1>8, <1>9, <1>10, <1>11, LoopStep
<1>13. Drains'
  <2>1. l = "persister" /\ introducer.pc = "persist" => work[l].pc # "waiting" \/ interrupted
    BY <1>1
  <2> QED
    BY <1>3, <1>12, <2>1, LoopDrains
<1>14. Typed'
  BY <1>3, <1>8, Shapes DEF IInv, Typed, Proper
<1> QED
  BY <1>12, <1>13, <1>14 DEF IInv

\* A loop's step that gives up references, all in one.
LEMMA LoopGives ==
  ASSUME IInv, NEW l \in Loops, work'[OtherLoop(l)] = work[OtherLoop(l)],
         UNCHANGED <<root, ids, introducer, reader, closer, interrupted>>, closer # "closed",
         Proper(snapshots'), Len(snapshots') = Len(snapshots),
         files' \in Seq(Int), Len(files') = Len(files), persisted' \in {persisted, <<>>},
         \A n \in 1 .. Len(snapshots) :
           /\ snapshots'[n].refs = snapshots[n].refs + Holds(l, n)' - Holds(l, n)
           /\ snapshots'[n].refs # 0 => snapshots'[n].segs = snapshots[n].segs,
         \A f \in 1 .. Len(files) :
           Balance(files', snapshots', f)
             = Balance(files, snapshots, f) + Has(l, f)' - Has(l, f) + MapHas(f)' - MapHas(f),
         work' \in [Loops -> Works], faults' \in Nat, retrying' \in [Loops -> BOOLEAN],
         work'[l].snap \in {0, work[l].snap}, last' \in 1 .. Len(snapshots),
         work'[l].pc \in {"idle", "stopped"} <=> work'[l].snap = 0,
         Published(l)' => work'[l].new \in 1 .. Len(snapshots),
         Unplaced(l)' => Unplaced(l) /\ work'[l].file = work[l].file,
         work'[l].pc \notin {"merged", "sending", "waiting"},
         last' = root => InMemory(Segs) = {},
         work'[l].pc \in {"introduced", "skipped", "direct"} =>
           work[l].pc \in {"introduced", "skipped", "direct"} /\ work'[l].snap = work[l].snap,
         l = "persister" /\ work'[l].pc = "writing" /\ work'[l].snap = root => InMemory(Segs) = {},
         l = "persister" /\ introducer.pc = "persist" => work[l].pc # "waiting" \/ interrupted
  PROVE  IInv'
<1>1. work'[l].snap <= Len(snapshots)
  BY Shapes
<1>2. \A n \in 1 .. Len(snapshots) :
        /\ snapshots'[n].refs = snapshots[n].refs + Holds(l, n)' - Holds(l, n)
        /\ snapshots'[n].refs = 0 => snapshots'[n].segs = <<>>
        /\ snapshots'[n].refs # 0 => snapshots'[n].segs = snapshots[n].segs
  BY DEF Proper
<1>3. /\ Places' /\ Named' /\ Counted' /\ Distinct' /\ OwnMerges' /\ Balanced' /\ Segs' = Segs
      /\ \A k \in Loops : work'[k].snap = work[k].snap /\ work[k].snap # 0 => Mine(k)' = Mine(k)
  BY <1>1, <1>2, LoopStep
<1>4. Drains'
  BY <1>3, LoopDrains
<1>5. Typed'
  BY NoSegments, Shapes DEF IInv, Typed, Proper
<1> QED
  BY <1>3, <1>4, <1>5 DEF IInv

\* Nothing of a root that was persisted is in memory.
LEMMA LastPersisted == ASSUME IInv, last = root PROVE InMemory(Segs) = {}
  BY NoSegments DEF IInv, Drains, Segs

\* Balances are numbers.
LEMMA BalanceType ==
  ASSUME IInv, NEW f \in 1 .. Len(files)
  PROVE  Balance(files, snapshots, f) \in Int
  BY SnapsFinite DEF Balance, IInv, Typed

\* The rounds that end: of the merger, failed ones, and the persister's.
LEMMA MergerRoundKeeps == ASSUME IInv, MergerRound PROVE IInv'
<1>1. /\ Leave("merger", "idle") /\ work["merger"].pc = "working"
      /\ UNCHANGED <<root, ids, introducer, persisted, reader, closer, interrupted, last, faults>>
      /\ retrying' = [retrying EXCEPT !["merger"] = FALSE]
  BY DEF MergerRound
<1>2. last' \in 1 .. Len(snapshots) /\ faults' \in Nat /\ retrying' \in [Loops -> BOOLEAN]
      /\ (last' = root => InMemory(Segs) = {})
  BY <1>1, LastPersisted DEF IInv, Named, Typed
<1> QED
  BY <1>1, <1>2, Left DEF Loops

\* A failed round of either loop gives up the snapshot it took.
LEMMA RoundFailsKeeps == ASSUME IInv, NEW l \in Loops, RoundFails(l) PROVE IInv'
<1>1. /\ Leave(l, "idle") /\ work[l].pc \in {"working", "direct", "writing"}
      /\ UNCHANGED <<root, ids, introducer, persisted, reader, closer, interrupted, last>>
      /\ retrying' = [retrying EXCEPT ![l] = TRUE] /\ faults' = faults + 1
  BY DEF RoundFails
<1>2. last' \in 1 .. Len(snapshots) /\ faults' \in Nat /\ retrying' \in [Loops -> BOOLEAN]
      /\ (last' = root => InMemory(Segs) = {})
  BY <1>1, LastPersisted DEF IInv, Named, Typed
<1> QED
  BY <1>1, <1>2, Left

\* So does the persister when the snapshot is written, now the last one.
LEMMA PersisterDoneKeeps == ASSUME IInv, PersisterDone PROVE IInv'
<1>1. /\ Leave("persister", "idle") /\ work["persister"].pc = "writing"
      /\ UNCHANGED <<root, ids, introducer, persisted, reader, closer, interrupted, faults>>
      /\ retrying' = [retrying EXCEPT !["persister"] = FALSE]
      /\ last' = work["persister"].snap
  BY DEF PersisterDone
<1>2. work["persister"].snap \in 1 .. Len(snapshots)
  BY <1>1, Shapes DEF IInv, Places, Loops
<1>3. last' \in 1 .. Len(snapshots) /\ faults' \in Nat /\ retrying' \in [Loops -> BOOLEAN]
      /\ (last' = root => InMemory(Segs) = {})
  BY <1>1, <1>2 DEF IInv, Drains, Typed
<1> QED
  BY <1>1, <1>3, Left DEF Loops

\* A loop that stops has nothing.
LEMMA LoopStopKeeps == ASSUME IInv, NEW l \in Loops, LoopStop(l) PROVE IInv'
<1>1. /\ work' = [work EXCEPT ![l].pc = "stopped"] /\ work[l].pc = "idle" /\ closer = "closing"
      /\ UNCHANGED <<snapshots, root, files, ids, introducer, persisted, last, reader,
                     retrying, closer, interrupted, faults>>
  BY DEF LoopStop, life
<1>2. work[l] \in Works /\ work[l].snap = 0
  BY <1>1, Shapes DEF IInv, Places
<1>3. /\ work' \in [Loops -> Works] /\ work'[OtherLoop(l)] = work[OtherLoop(l)]
      /\ work'[l].pc = "stopped" /\ work'[l].snap = 0
  BY <1>1, <1>2 DEF IInv, Typed, Works, OtherLoop, Loops
<1>4. /\ ~ Published(l) /\ ~ Published(l)' /\ ~ Unplaced(l) /\ ~ Unplaced(l)'
      /\ (HasMap' <=> HasMap)
  BY <1>1, <1>3 DEF Published, Unplaced, HasMap, OtherLoop, Loops
<1>5. \A n \in 1 .. Len(snapshots) : Holds(l, n)' = 0 /\ Holds(l, n) = 0
  BY <1>2, <1>3, <1>4 DEF Holds, One
<1>6. \A f : Has(l, f)' = 0 /\ Has(l, f) = 0 /\ MapHas(f)' = MapHas(f) /\ MapHas(f) \in Nat
  BY <1>1, <1>4 DEF Has, MapHas, One
<1>7. \A n \in 1 .. Len(snapshots) :
        snapshots'[n].refs = snapshots[n].refs + Holds(l, n)' - Holds(l, n)
  BY <1>1, <1>5, Shapes
<1>8. \A f \in 1 .. Len(files) :
        Balance(files', snapshots', f)
          = Balance(files, snapshots, f) + Has(l, f)' - Has(l, f) + MapHas(f)' - MapHas(f)
  BY <1>1, <1>6, BalanceType
<1>9. Proper(snapshots') /\ files' \in Seq(Int) /\ faults' \in Nat /\ retrying' \in [Loops -> BOOLEAN]
      /\ last' \in 1 .. Len(snapshots) /\ (last' = root => InMemory(Segs) = {})
  BY <1>1, IsProper, LastPersisted DEF IInv, Named, Typed
<1> QED
  BY <1>1, <1>2, <1>3, <1>4, <1>7, <1>8, <1>9, LoopGives

\* The merger gives up the root its merge made.
LEMMA MergeDoneKeeps == ASSUME IInv, MergeDone PROVE IInv'
<1> DEFINE l == "merger"
           n == work[l].new
<1>1. /\ work[l].pc = "introduced" /\ snapshots' = Decremented(snapshots, n)
      /\ files' = WithoutUser(files, snapshots, n)
      /\ work' = [work EXCEPT ![l] = [Idle EXCEPT !.pc = "working", !.snap = work[l].snap,
                    !.done = work[l].done \cup work[l].old]]
      /\ UNCHANGED <<root, ids, introducer, persisted, last, reader, retrying, closer,
                     interrupted, faults>>
  BY DEF MergeDone, Release, life
<1>2. l \in Loops /\ work[l] \in Works /\ work[l].snap # 0 /\ n \in 1 .. Len(snapshots)
      /\ closer # "closed"
  BY <1>1, Shapes DEF IInv, Places, Named, Published, Loops
<1>3. /\ work' \in [Loops -> Works] /\ work'[OtherLoop(l)] = work[OtherLoop(l)]
      /\ work'[l].pc = "working" /\ work'[l].snap = work[l].snap
  BY <1>1, <1>2 DEF IInv, Typed, Works, Idle, OtherLoop, Loops
<1>4. /\ Published(l) /\ ~ Published(l)' /\ ~ Unplaced(l) /\ ~ Unplaced(l)'
      /\ (HasMap' <=> HasMap)
  BY <1>1, <1>3 DEF Published, Unplaced, HasMap, OtherLoop
<1>5. \A m : Holds(l, m) = One(work[l].snap = m) + One(m = n) /\ Holds(l, m)' = One(work[l].snap = m)
  BY <1>3, <1>4 DEF Holds, One
<1>6. \A f : Has(l, f)' = 0 /\ Has(l, f) = 0 /\ MapHas(f)' = MapHas(f) /\ MapHas(f) \in Nat
  BY <1>1, <1>4 DEF Has, MapHas, One
<1>7. snapshots[n].refs >= 1
  <2>1. One(root = n) + Holds(l, n) <= snapshots[n].refs /\ snapshots[n].refs \in Nat
    BY <1>2, Using
  <2>2. One(root = n) \in Nat /\ One(work[l].snap = n) \in Nat /\ One(n = n) = 1
    BY OneType DEF One
  <2> QED
    BY <1>5, <2>1, <2>2
<1> HIDE DEF l, n
<1>8. /\ Proper(snapshots') /\ Len(snapshots') = Len(snapshots)
      /\ \A m \in 1 .. Len(snapshots) :
           /\ snapshots'[m].refs = snapshots[m].refs - One(m = n)
           /\ snapshots'[m].refs # 0 => snapshots'[m].segs = snapshots[m].segs
      /\ files' \in Seq(Int) /\ Len(files') = Len(files)
      /\ \A f \in 1 .. Len(files) : Balance(files', snapshots', f) = Balance(files, snapshots, f)
  <2>1. files \in Seq(Int)
    BY DEF IInv, Typed
  <2>9. GivesUp(snapshots, n, files, snapshots', files')
    BY <1>1, <1>2, <1>7, <2>1, IsProper, Releasing
  <2> QED
    BY <2>9 DEF GivesUp
<1>9. \A m \in 1 .. Len(snapshots) :
        snapshots'[m].refs = snapshots[m].refs + Holds(l, m)' - Holds(l, m)
  <2> TAKE m \in 1 .. Len(snapshots)
  <2>1. snapshots[m].refs \in Int /\ One(m = n) \in Int /\ One(work[l].snap = m) \in Int
    BY Shapes, OneType
  <2> QED
    BY <1>5, <1>8, <2>1
<1>10. \A f \in 1 .. Len(files) :
         Balance(files', snapshots', f)
           = Balance(files, snapshots, f) + Has(l, f)' - Has(l, f) + MapHas(f)' - MapHas(f)
  BY <1>6, <1>8, BalanceType
<1>11. faults' \in Nat /\ retrying' \in [Loops -> BOOLEAN]
       /\ last' \in 1 .. Len(snapshots) /\ (last' = root => InMemory(Segs) = {})
  BY <1>1, LastPersisted DEF IInv, Named, Typed
<1>12. l # "persister"
  BY DEF l
<1> QED
  BY <1>1, <1>2, <1>3, <1>4, <1>8, <1>9, <1>10, <1>11, <1>12, LoopGives

\* currentSnapshot.
LEMMA Taking ==
  ASSUME IInv, root # 0, NEW new, new = Current
  PROVE  /\ root \in 1 .. Len(snapshots)
         /\ Proper(new) /\ Len(new) = Len(snapshots)
         /\ \A m \in 1 .. Len(snapshots) : /\ new[m].refs = snapshots[m].refs + One(m = root)
                                           /\ new[m].segs = snapshots[m].segs
         /\ \A f : Balance(files, new, f) = Balance(files, snapshots, f)
<1>1. root \in 1 .. Len(snapshots) /\ snapshots \in Seq(Snapshot) /\ files \in Seq(Int)
  BY Shapes DEF IInv, Places, Typed
<1>2. new = WithUser(snapshots, root)
  BY DEF Current, WithUser
<1>3. /\ new \in Seq(Snapshot) /\ Len(new) = Len(snapshots)
      /\ \A m \in 1 .. Len(snapshots) : /\ new[m].refs = snapshots[m].refs + One(m = root)
                                        /\ new[m].segs = snapshots[m].segs
      /\ \A f : Balance(files, new, f) = Balance(files, snapshots, f)
  <2>1. /\ WithUser(snapshots, root) \in Seq(Snapshot)
        /\ Len(WithUser(snapshots, root)) = Len(snapshots)
        /\ \A m \in 1 .. Len(snapshots) :
             /\ WithUser(snapshots, root)[m].refs = snapshots[m].refs + One(m = root)
             /\ WithUser(snapshots, root)[m].segs = snapshots[m].segs
        /\ \A f : Balance(files, WithUser(snapshots, root), f) = Balance(files, snapshots, f)
    BY <1>1, OneUserMore DEF One
  <2> QED
    BY <1>2, <2>1
<1>4. ASSUME NEW m \in 1 .. Len(snapshots)
      PROVE  new[m].refs \in Nat /\ (new[m].refs = 0 => new[m].segs = <<>>)
  BY <1>3, Using DEF One, IInv, Counted
<1> QED
  BY <1>1, <1>3, <1>4 DEF Proper

\* currentSnapshot: the loop is one user more of the root.
LEMMA TakeKeeps == ASSUME IInv, NEW l \in Loops, Take(l) PROVE IInv'
<1>1. /\ work[l].pc = "idle" /\ closer # "closed" /\ snapshots' = Current
      /\ work' = [work EXCEPT ![l] = [Idle EXCEPT !.pc = "working", !.snap = root]]
      /\ UNCHANGED <<root, files, ids, introducer, persisted, last, reader, retrying, closer,
                     interrupted, faults>>
  BY DEF Take, life
<1>2. root # 0 /\ work[l] \in Works /\ work[l].snap = 0
  BY <1>1, Shapes DEF IInv, Places
<1>3. /\ root \in 1 .. Len(snapshots) /\ root \in Nat
      /\ Proper(snapshots') /\ Len(snapshots') = Len(snapshots)
      /\ \A m \in 1 .. Len(snapshots) : /\ snapshots'[m].refs = snapshots[m].refs + One(m = root)
                                        /\ snapshots'[m].segs = snapshots[m].segs
      /\ \A f : Balance(files, snapshots', f) = Balance(files, snapshots, f)
  BY <1>1, <1>2, Taking DEF One
<1>4. /\ work' \in [Loops -> Works] /\ work'[OtherLoop(l)] = work[OtherLoop(l)]
      /\ work'[l].pc = "working" /\ work'[l].snap = root
  BY <1>1, <1>3 DEF IInv, Typed, Works, Idle, OtherLoop, Loops
<1>5. /\ ~ Published(l) /\ ~ Published(l)' /\ ~ Unplaced(l) /\ ~ Unplaced(l)'
      /\ (HasMap' <=> HasMap)
  BY <1>1, <1>4 DEF Published, Unplaced, HasMap, OtherLoop, Loops
<1>6. \A n \in 1 .. Len(snapshots) : Holds(l, n)' = One(n = root) /\ Holds(l, n) = 0
  BY <1>2, <1>4, <1>5 DEF Holds, One
<1>7. \A f : Has(l, f)' = 0 /\ Has(l, f) = 0 /\ MapHas(f)' = MapHas(f) /\ MapHas(f) \in Nat
  BY <1>1, <1>5 DEF Has, MapHas, One
<1>8. \A n \in 1 .. Len(snapshots) :
        /\ snapshots'[n].refs = snapshots[n].refs + Holds(l, n)' - Holds(l, n)
        /\ snapshots'[n].refs = 0 => snapshots'[n].segs = <<>>
        /\ snapshots'[n].refs # 0 => snapshots'[n].segs = snapshots[n].segs
  <2> TAKE n \in 1 .. Len(snapshots)
  <2>1. snapshots[n].refs \in Int /\ One(n = root) \in Int
    BY Shapes, OneType
  <2> QED
    BY <1>3, <1>6, <2>1 DEF Proper
<1>9. \A f \in 1 .. Len(files) :
        Balance(files', snapshots', f)
          = Balance(files, snapshots, f) + Has(l, f)' - Has(l, f) + MapHas(f)' - MapHas(f)
  BY <1>1, <1>3, <1>7, BalanceType
<1>10. last' \in 1 .. Len(snapshots) /\ work'[l].snap <= Len(snapshots)
       /\ (work'[l].pc \in {"idle", "stopped"} <=> work'[l].snap = 0)
  BY <1>1, <1>2, <1>3, <1>4 DEF IInv, Named
<1>11. /\ Places' /\ Named' /\ Counted' /\ Distinct' /\ OwnMerges' /\ Balanced' /\ Segs' = Segs
       /\ \A k \in Loops : work'[k].snap = work[k].snap /\ work[k].snap # 0 => Mine(k)' = Mine(k)
  BY <1>1, <1>3, <1>4, <1>5, <1>8, <1>9, <1>10, LoopStep
<1>12. Mine(l)' = Segs'
  BY <1>1, <1>2, <1>4 DEF Mine, Segs
<1>13. Drains'
  <2>1. work'["persister"] = work["persister"]
          \/ (work'["persister"].pc = "working" /\ work["persister"].pc = "idle")
    <3>1. l = "persister" \/ OtherLoop(l) = "persister"
      BY DEF OtherLoop, Loops
    <3> QED
      BY <1>1, <1>4, <3>1
  <2>2. \A k \in Loops : k = l \/ work'[k] = work[k]
    BY <1>4 DEF OtherLoop, Loops
  <2>3. ASSUME NEW k \in Loops, work'[k].snap # 0, closer = "closing", ~ interrupted
        PROVE  InMemory(Mine(k)') = {}
    BY <1>11, <1>12, <2>2, <2>3 DEF IInv, Drains
  <2>4. closer \in {"closing", "closed"} /\ ~ interrupted =>
          InMemory(Segs) = {} /\ ~ HasMap' /\ introducer.pc # "persist"
    BY <1>5 DEF IInv, Drains
  <2>5. /\ work'["persister"].pc \in {"introduced", "skipped", "direct"} => work'["persister"].snap # root
        /\ work'["persister"].pc = "waiting" /\ introducer.pc # "persist" => work'["persister"].snap # root
        /\ work'["persister"].pc = "writing" /\ work'["persister"].snap = root => InMemory(Segs) = {}
        /\ introducer.pc = "persist" /\ work'["persister"].pc # "waiting" => interrupted
    BY <2>1 DEF IInv, Drains
  <2> QED
    BY <1>1, <1>11, <2>3, <2>4, <2>5, LastPersisted DEF Drains
<1>14. Typed'
  BY <1>1, <1>3, <1>4 DEF IInv, Typed, Proper
<1> QED
  BY <1>11, <1>13, <1>14 DEF IInv

\* What was merged for nothing is closed, and the root that came without it given up.
LEMMA MergeSkippedKeeps == ASSUME IInv, NEW l \in Loops, MergeSkipped(l) PROVE IInv'
<1> DEFINE n == work[l].new
           g == work[l].file
           rest == WithoutUser(files, snapshots, n)
<1>1. /\ work[l].pc = "skipped" /\ snapshots' = Decremented(snapshots, n)
      /\ files' = DropRefs(rest, {g})
      /\ work' = [work EXCEPT ![l] = [Idle EXCEPT
                    !.pc = IF l = "persister" THEN "direct" ELSE "working", !.snap = work[l].snap,
                    !.done = work[l].done \cup work[l].old]]
      /\ UNCHANGED <<root, ids, introducer, persisted, last, reader, retrying, closer,
                     interrupted, faults>>
  BY DEF MergeSkipped, CloseSkipped, life
<1>2. work[l] \in Works /\ work[l].snap # 0 /\ n \in 1 .. Len(snapshots) /\ closer # "closed"
  BY <1>1, Shapes DEF IInv, Places, Named, Published
<1>3. /\ work' \in [Loops -> Works] /\ work'[OtherLoop(l)] = work[OtherLoop(l)]
      /\ work'[l].pc = (IF l = "persister" THEN "direct" ELSE "working")
      /\ work'[l].snap = work[l].snap
  BY <1>1, <1>2 DEF IInv, Typed, Works, Idle, OtherLoop, Loops
<1>4. /\ Published(l) /\ ~ Published(l)' /\ Unplaced(l) /\ ~ Unplaced(l)'
      /\ (HasMap' <=> HasMap)
  BY <1>1, <1>3 DEF Published, Unplaced, HasMap, OtherLoop, Loops
<1>5. \A m : Holds(l, m) = One(work[l].snap = m) + One(m = n) /\ Holds(l, m)' = One(work[l].snap = m)
  BY <1>3, <1>4 DEF Holds, One
<1>6. \A f : Has(l, f)' = 0 /\ Has(l, f) = One(f \in {g}) /\ MapHas(f)' = MapHas(f) /\ MapHas(f) \in Nat
  BY <1>1, <1>4 DEF Has, MapHas, One
<1>7. snapshots[n].refs >= 1
  <2>1. One(root = n) + Holds(l, n) <= snapshots[n].refs /\ snapshots[n].refs \in Nat
    BY <1>2, Using
  <2>2. One(root = n) \in Nat /\ One(work[l].snap = n) \in Nat /\ One(n = n) = 1
    BY OneType DEF One
  <2> QED
    BY <1>5, <2>1, <2>2
<1>8. /\ Proper(snapshots') /\ Len(snapshots') = Len(snapshots)
      /\ \A m \in 1 .. Len(snapshots) :
           /\ snapshots'[m].refs = snapshots[m].refs - One(m = n)
           /\ snapshots'[m].refs # 0 => snapshots'[m].segs = snapshots[m].segs
      /\ rest \in Seq(Int) /\ Len(rest) = Len(files)
      /\ \A f \in 1 .. Len(files) : Balance(rest, snapshots', f) = Balance(files, snapshots, f)
  <2>1. files \in Seq(Int)
    BY DEF IInv, Typed
  <2> HIDE DEF n
  <2>9. GivesUp(snapshots, n, files, snapshots', rest)
    BY <1>1, <1>2, <1>7, <2>1, IsProper, Releasing
  <2> QED
    BY <2>9 DEF GivesUp
<1> HIDE DEF n, rest
<1>9. \A m \in 1 .. Len(snapshots) :
        snapshots'[m].refs = snapshots[m].refs + Holds(l, m)' - Holds(l, m)
  <2> TAKE m \in 1 .. Len(snapshots)
  <2>1. snapshots[m].refs \in Int /\ One(m = n) \in Int /\ One(work[l].snap = m) \in Int
    BY Shapes, OneType
  <2> QED
    BY <1>5, <1>8, <2>1
<1>13. /\ files' \in Seq(Int) /\ Len(files') = Len(files)
       /\ \A f \in 1 .. Len(files) : files'[f] = rest[f] - One(f \in {g})
  BY <1>1, <1>8, DroppedRefs DEF One
<1>10. \A f \in 1 .. Len(files) :
         Balance(files', snapshots', f)
           = Balance(files, snapshots, f) + Has(l, f)' - Has(l, f) + MapHas(f)' - MapHas(f)
  <2> TAKE f \in 1 .. Len(files)
  <2>1. rest[f] \in Int /\ Cardinality(SnapsOf(snapshots', f)) \in Nat
    BY <1>8, SnapsFinite DEF Proper
  <2>2. One(f \in {g}) \in Nat
    BY OneType
  <2>3. Balance(files', snapshots', f) = Balance(rest, snapshots', f) - One(f \in {g})
    BY <1>13, <2>1, <2>2 DEF Balance
  <2>4. Balance(rest, snapshots', f) = Balance(files, snapshots, f)
    BY <1>8
  <2> QED
    BY <1>6, <2>2, <2>3, <2>4, BalanceType
<1>11. faults' \in Nat /\ retrying' \in [Loops -> BOOLEAN]
       /\ last' \in 1 .. Len(snapshots) /\ (last' = root => InMemory(Segs) = {})
  BY <1>1, LastPersisted DEF IInv, Named, Typed
<1>12. /\ work'[l].snap \in {0, work[l].snap}
       /\ work'[l].pc \in {"idle", "stopped"} <=> work'[l].snap = 0
       /\ work'[l].pc \notin {"merged", "sending", "waiting", "writing"}
       /\ work[l].pc \in {"introduced", "skipped", "direct"} /\ work[l].pc # "waiting"
  BY <1>1, <1>2, <1>3
<1> QED
  BY <1>1, <1>2, <1>3, <1>4, <1>8, <1>9, <1>10, <1>11, <1>12, <1>13, LoopGives

\* closeCh wins while a merge is offered.
LEMMA MergeStopsKeeps == ASSUME IInv, NEW l \in Loops, MergeStops(l) PROVE IInv'
<1> DEFINE n == work[l].snap
           g == work[l].file
           rest == DropRefs(files, {g})
<1>1. /\ work[l].pc = "merged" /\ closer = "closing" /\ snapshots' = Decremented(snapshots, n)
      /\ files' = WithoutUser(rest, snapshots, n)
      /\ work' = [work EXCEPT ![l] = [Idle EXCEPT !.pc = "stopped"]]
      /\ UNCHANGED <<root, ids, introducer, persisted, last, reader, retrying, closer,
                     interrupted, faults>>
  BY DEF MergeStops, life
<1>2. work[l] \in Works /\ n \in 1 .. Len(snapshots)
  BY <1>1, Shapes DEF IInv, Places
<1>3. /\ work' \in [Loops -> Works] /\ work'[OtherLoop(l)] = work[OtherLoop(l)]
      /\ work'[l].pc = "stopped" /\ work'[l].snap = 0
  BY <1>1, <1>2 DEF IInv, Typed, Works, Idle, OtherLoop, Loops
<1>4. /\ ~ Published(l) /\ ~ Published(l)' /\ Unplaced(l) /\ ~ Unplaced(l)'
      /\ (HasMap' <=> HasMap)
  BY <1>1, <1>3 DEF Published, Unplaced, HasMap, OtherLoop, Loops
<1>5. \A m \in 1 .. Len(snapshots) : Holds(l, m) = One(m = n) /\ Holds(l, m)' = 0
  BY <1>3, <1>4 DEF Holds, One
<1>6. \A f : Has(l, f)' = 0 /\ Has(l, f) = One(f \in {g}) /\ MapHas(f)' = MapHas(f) /\ MapHas(f) \in Nat
  BY <1>1, <1>4 DEF Has, MapHas, One
<1>7. snapshots[n].refs >= 1
  <2>1. One(root = n) + Holds(l, n) <= snapshots[n].refs /\ snapshots[n].refs \in Nat
    BY <1>2, Using
  <2>2. One(root = n) \in Nat /\ One(n = n) = 1
    BY OneType DEF One
  <2> QED
    BY <1>2, <1>5, <2>1, <2>2
<1>13. /\ rest \in Seq(Int) /\ Len(rest) = Len(files)
       /\ \A f \in 1 .. Len(files) : rest[f] = files[f] - One(f \in {g})
  BY DroppedRefs DEF One, IInv, Typed
<1> HIDE DEF n, rest
<1>8. /\ Proper(snapshots') /\ Len(snapshots') = Len(snapshots)
      /\ \A m \in 1 .. Len(snapshots) :
           /\ snapshots'[m].refs = snapshots[m].refs - One(m = n)
           /\ snapshots'[m].refs # 0 => snapshots'[m].segs = snapshots[m].segs
      /\ files' \in Seq(Int) /\ Len(files') = Len(files)
      /\ \A f \in 1 .. Len(files) : Balance(files', snapshots', f) = Balance(rest, snapshots, f)
  <2>9. GivesUp(snapshots, n, rest, snapshots', files')
    BY <1>1, <1>2, <1>7, <1>13, IsProper, Releasing
  <2> QED
    BY <1>13, <2>9 DEF GivesUp
<1>9. \A m \in 1 .. Len(snapshots) :
        snapshots'[m].refs = snapshots[m].refs + Holds(l, m)' - Holds(l, m)
  <2> TAKE m \in 1 .. Len(snapshots)
  <2>1. snapshots[m].refs \in Int /\ One(m = n) \in Int
    BY Shapes, OneType
  <2> QED
    BY <1>5, <1>8, <2>1
<1>10. \A f \in 1 .. Len(files) :
         Balance(files', snapshots', f)
           = Balance(files, snapshots, f) + Has(l, f)' - Has(l, f) + MapHas(f)' - MapHas(f)
  <2> TAKE f \in 1 .. Len(files)
  <2>1. files[f] \in Int /\ Cardinality(SnapsOf(snapshots, f)) \in Nat
    BY SnapsFinite DEF IInv, Typed
  <2>2. One(f \in {g}) \in Nat
    BY OneType
  <2>3. Balance(rest, snapshots, f) = Balance(files, snapshots, f) - One(f \in {g})
    BY <1>13, <2>1, <2>2 DEF Balance
  <2>4. Balance(files', snapshots', f) = Balance(rest, snapshots, f)
    BY <1>8
  <2> QED
    BY <1>6, <2>2, <2>3, <2>4, BalanceType
<1>11. faults' \in Nat /\ retrying' \in [Loops -> BOOLEAN]
       /\ last' \in 1 .. Len(snapshots) /\ (last' = root => InMemory(Segs) = {})
  BY <1>1, LastPersisted DEF IInv, Named, Typed
<1> QED
  BY <1>1, <1>2, <1>3, <1>4, <1>8, <1>9, <1>10, <1>11, LoopGives

\* The persister gives up two snapshots: the one its merge made and its own.
LEMMA MemoryMergePersistedKeeps ==
  ASSUME IInv, NEW failed \in BOOLEAN, MemoryMergePersisted(failed) PROVE IInv'
<1> DEFINE l == "persister"
           n == work[l].new
           o == work[l].snap
           snaps == Decremented(snapshots, n)
           rest == WithoutUser(files, snapshots, n)
<1>1. /\ work[l].pc = "introduced" /\ snapshots' = Decremented(snaps, o)
      /\ files' = WithoutUser(rest, snaps, o)
      /\ work' = [work EXCEPT ![l] = Idle]
      /\ last' = (IF failed THEN last ELSE o)
      /\ faults' = faults + (IF failed THEN 1 ELSE 0)
      /\ retrying' = [retrying EXCEPT ![l] = failed]
      /\ UNCHANGED <<root, ids, introducer, persisted, reader, closer, interrupted>>
  BY DEF MemoryMergePersisted
<1>2. /\ l \in Loops /\ work[l] \in Works /\ n \in 1 .. Len(snapshots) /\ o \in 1 .. Len(snapshots)
      /\ closer # "closed" /\ o # root
  BY <1>1, Shapes DEF IInv, Places, Named, Published, Drains, Loops
<1>3. /\ work' \in [Loops -> Works] /\ work'[OtherLoop(l)] = work[OtherLoop(l)]
      /\ work'[l].pc = "idle" /\ work'[l].snap = 0
  BY <1>1, <1>2 DEF IInv, Typed, Works, Idle, OtherLoop, Loops
<1>4. /\ Published(l) /\ ~ Published(l)' /\ ~ Unplaced(l) /\ ~ Unplaced(l)'
      /\ (HasMap' <=> HasMap)
  BY <1>1, <1>3 DEF Published, Unplaced, HasMap
<1>5. \A m \in 1 .. Len(snapshots) : Holds(l, m) = One(m = o) + One(m = n) /\ Holds(l, m)' = 0
  BY <1>3, <1>4 DEF Holds, One
<1>6. \A f : Has(l, f)' = 0 /\ Has(l, f) = 0 /\ MapHas(f)' = MapHas(f) /\ MapHas(f) \in Nat
  BY <1>1, <1>4 DEF Has, MapHas, One
<1>7. \A m \in 1 .. Len(snapshots) :
        snapshots[m].refs \in Nat /\ One(m = o) + One(m = n) <= snapshots[m].refs
  <2> TAKE m \in 1 .. Len(snapshots)
  <2>1. One(root = m) + Holds(l, m) <= snapshots[m].refs /\ snapshots[m].refs \in Nat
    BY <1>2, Using
  <2>2. One(root = m) \in Nat /\ One(m = o) \in Nat /\ One(m = n) \in Nat
    BY OneType
  <2>3. Holds(l, m) = One(m = o) + One(m = n)
    BY <1>5
  <2> QED
    BY <2>1, <2>2, <2>3
<1>8. last' \in 1 .. Len(snapshots) /\ (last' = root => InMemory(Segs) = {})
      /\ faults' \in Nat /\ retrying' \in [Loops -> BOOLEAN]
  <2>1. last \in 1 .. Len(snapshots) /\ (last = root => InMemory(Segs) = {})
    BY LastPersisted DEF IInv, Named
  <2>2. last' \in 1 .. Len(snapshots) /\ (last' = root => InMemory(Segs) = {})
    BY <1>1, <1>2, <2>1
  <2>3. faults \in Nat /\ retrying \in [Loops -> BOOLEAN]
    BY DEF IInv, Typed
  <2>4. faults' \in Nat
    BY <1>1, <2>3
  <2>5. [retrying EXCEPT ![l] = failed] \in [Loops -> BOOLEAN]
    BY <2>3, Zenon
  <2> QED
    BY <1>1, <2>2, <2>4, <2>5
<1>9. snapshots[n].refs >= 1
  BY <1>2, <1>7 DEF One
<1>10. files \in Seq(Int)
  BY DEF IInv, Typed
<1> HIDE DEF l, n, o
<1>11. /\ Proper(snaps) /\ Len(snaps) = Len(snapshots)
       /\ \A m \in 1 .. Len(snapshots) :
            /\ snaps[m].refs = snapshots[m].refs - One(m = n)
            /\ snaps[m].refs # 0 => snaps[m].segs = snapshots[m].segs
       /\ rest \in Seq(Int) /\ Len(rest) = Len(files)
       /\ \A f \in 1 .. Len(files) : Balance(rest, snaps, f) = Balance(files, snapshots, f)
  <2>9. GivesUp(snapshots, n, files, snaps, rest)
    BY <1>2, <1>9, <1>10, IsProper, Releasing
  <2> QED
    BY <2>9 DEF GivesUp
<1> HIDE DEF snaps, rest
<1>12. snaps[o].refs >= 1
  <2>1. snaps[o].refs = snapshots[o].refs - One(o = n) /\ snapshots[o].refs \in Nat
        /\ One(o = o) + One(o = n) <= snapshots[o].refs
    BY <1>2, <1>7, <1>11
  <2>2. One(o = n) \in Nat /\ One(o = o) = 1
    BY OneType DEF One
  <2> QED
    BY <2>1, <2>2
<1>13. /\ Proper(snapshots') /\ Len(snapshots') = Len(snaps)
       /\ \A m \in 1 .. Len(snaps) :
            /\ snapshots'[m].refs = snaps[m].refs - One(m = o)
            /\ snapshots'[m].refs # 0 => snapshots'[m].segs = snaps[m].segs
       /\ files' \in Seq(Int) /\ Len(files') = Len(rest)
       /\ \A f \in 1 .. Len(rest) : Balance(files', snapshots', f) = Balance(rest, snaps, f)
  <2>9. GivesUp(snaps, o, rest, snapshots', files')
    BY <1>1, <1>2, <1>11, <1>12, Releasing
  <2> QED
    BY <2>9 DEF GivesUp
<1>14. \A m \in 1 .. Len(snapshots) :
         /\ snapshots'[m].refs = snapshots[m].refs + Holds(l, m)' - Holds(l, m)
         /\ snapshots'[m].refs # 0 => snapshots'[m].segs = snapshots[m].segs
  <2> TAKE m \in 1 .. Len(snapshots)
  <2>1. snapshots[m].refs \in Int /\ One(m = n) \in {0, 1} /\ One(m = o) \in {0, 1}
    BY Shapes, OneType
  <2>2. /\ snaps[m].refs = snapshots[m].refs - One(m = n)
        /\ snaps[m].refs # 0 => snaps[m].segs = snapshots[m].segs
        /\ snapshots'[m].refs = snaps[m].refs - One(m = o)
        /\ snapshots'[m].refs # 0 => snapshots'[m].segs = snaps[m].segs
    BY <1>11, <1>13
  <2>3. Holds(l, m) = One(m = o) + One(m = n) /\ Holds(l, m)' = 0
    BY <1>5
  <2>4. snapshots'[m].refs \in Nat
    BY <1>11, <1>13 DEF Proper
  <2>5. snapshots'[m].refs # 0 => snaps[m].refs # 0
    BY <2>1, <2>2, <2>4
  <2> QED
    BY <2>1, <2>2, <2>3, <2>5
<1>15. \A f \in 1 .. Len(files) :
         Balance(files', snapshots', f)
           = Balance(files, snapshots, f) + Has(l, f)' - Has(l, f) + MapHas(f)' - MapHas(f)
  BY <1>6, <1>11, <1>13, BalanceType
<1>16. /\ work'[l].pc \in {"idle", "stopped"} <=> work'[l].snap = 0
       /\ work[l].pc # "waiting" /\ Len(snapshots') = Len(snapshots) /\ Len(files') = Len(files)
  BY <1>1, <1>3, <1>11, <1>13
<1> QED
  BY <1>1, <1>2, <1>3, <1>4, <1>8, <1>13, <1>14, <1>15, <1>16, LoopGives

\* Closing what is left in the map takes as much as having the map counts.
LEMMA MapClosed ==
  ASSUME IInv, HasMap, NEW rest, rest = DropRefs(files, FilesOf(persisted))
  PROVE  /\ rest \in Seq(Int) /\ Len(rest) = Len(files)
         /\ \A f \in 1 .. Len(files) :
              Balance(rest, snapshots, f) = Balance(files, snapshots, f) - MapHas(f)
<1>1. files \in Seq(Int) /\ snapshots \in Seq(Snapshot)
  BY DEF IInv, Typed
<1>2. /\ rest \in Seq(Int) /\ Len(rest) = Len(files)
      /\ \A f \in 1 .. Len(files) : rest[f] = files[f] - One(f \in FilesOf(persisted))
  BY <1>1, DroppedRefs DEF One
<1>3. ASSUME NEW f \in 1 .. Len(files)
      PROVE  Balance(rest, snapshots, f) = Balance(files, snapshots, f) - MapHas(f)
  <2>1. files[f] \in Int /\ Cardinality(SnapsOf(snapshots, f)) \in Nat
    BY <1>1, SnapsFinite
  <2>2. MapHas(f) = One(f \in FilesOf(persisted)) /\ MapHas(f) \in Nat
    BY DEF MapHas, One
  <2> QED
    BY <1>2, <2>1, <2>2 DEF Balance
<1> QED
  BY <1>2, <1>3

\* The persister closes what the introducer left in the shared map.
LEMMA PersisterAppliedKeeps == ASSUME IInv, PersisterApplied PROVE IInv'
<1> DEFINE l == "persister"
<1>1. /\ work[l].pc = "waiting" /\ introducer.pc # "persist"
      /\ files' = DropRefs(files, FilesOf(persisted)) /\ persisted' = <<>>
      /\ work' = [work EXCEPT ![l].pc = "writing"]
      /\ UNCHANGED <<snapshots, root, ids, introducer, last, reader, retrying, closer,
                     interrupted, faults>>
  BY DEF PersisterApplied, life
<1>2. /\ l \in Loops /\ work[l] \in Works /\ work[l].snap # 0 /\ closer # "closed"
      /\ work[l].snap # root
  BY <1>1, Shapes DEF IInv, Places, Drains, Loops
<1>3. /\ work' \in [Loops -> Works] /\ work'[OtherLoop(l)] = work[OtherLoop(l)]
      /\ work'[l].pc = "writing" /\ work'[l].snap = work[l].snap
  BY <1>1, <1>2 DEF IInv, Typed, Works, OtherLoop, Loops
<1>4. /\ ~ Published(l) /\ ~ Published(l)' /\ ~ Unplaced(l) /\ ~ Unplaced(l)'
      /\ HasMap /\ ~ HasMap'
  BY <1>1, <1>3 DEF Published, Unplaced, HasMap
<1>5. \A n : Holds(l, n)' = Holds(l, n) /\ Holds(l, n) \in Nat
  BY <1>3, <1>4 DEF Holds, One
<1>6. \A f : Has(l, f)' = 0 /\ Has(l, f) = 0 /\ MapHas(f)' = 0 /\ MapHas(f) \in Nat
  BY <1>4 DEF Has, MapHas, One
<1>7. \A n \in 1 .. Len(snapshots) :
        /\ snapshots'[n].refs = snapshots[n].refs + Holds(l, n)' - Holds(l, n)
        /\ snapshots'[n].refs # 0 => snapshots'[n].segs = snapshots[n].segs
  BY <1>1, <1>5, Shapes
<1>8. /\ files' \in Seq(Int) /\ Len(files') = Len(files)
      /\ \A f \in 1 .. Len(files) :
           Balance(files', snapshots', f) = Balance(files, snapshots, f) - MapHas(f)
  BY <1>1, <1>4, MapClosed
<1>9. \A f \in 1 .. Len(files) :
        Balance(files', snapshots', f)
          = Balance(files, snapshots, f) + Has(l, f)' - Has(l, f) + MapHas(f)' - MapHas(f)
  BY <1>6, <1>8, BalanceType
<1>10. Proper(snapshots') /\ faults' \in Nat /\ retrying' \in [Loops -> BOOLEAN]
      /\ last' \in 1 .. Len(snapshots) /\ (last' = root => InMemory(Segs) = {})
  BY <1>1, IsProper, LastPersisted DEF IInv, Named, Typed
<1>11. /\ work'[l].pc \in {"idle", "stopped"} <=> work'[l].snap = 0
       /\ work'[l].snap \in {0, work[l].snap} /\ persisted' \in {persisted, <<>>}
       /\ work'[l].pc \notin {"merged", "sending", "waiting", "introduced", "skipped", "direct"}
  BY <1>1, <1>2, <1>3
<1> HIDE DEF l
<1> QED
  BY <1>1, <1>2, <1>3, <1>4, <1>7, <1>8, <1>9, <1>10, <1>11, LoopGives

\* closeCh takes the persister away from the map it shares.  Only an interrupted Close
\* finds it there.
LEMMA PersisterStopKeeps == ASSUME IInv, PersisterStop PROVE IInv'
<1> DEFINE l == "persister"
           n == work[l].snap
           rest == DropRefs(files, FilesOf(persisted))
<1>1. /\ work[l].pc \in {"sending", "waiting"} /\ closer = "closing"
      /\ snapshots' = Decremented(snapshots, n)
      /\ files' = WithoutUser(rest, snapshots, n)
      /\ persisted' = (IF introducer.pc = "persist" THEN persisted ELSE <<>>)
      /\ work' = [work EXCEPT ![l] = [Idle EXCEPT !.pc = "stopped"]]
      /\ UNCHANGED <<root, ids, introducer, last, reader, retrying, closer, interrupted, faults>>
  BY DEF PersisterStop, life
<1>2. /\ l \in Loops /\ work[l] \in Works /\ n \in 1 .. Len(snapshots) /\ HasMap /\ interrupted
  BY <1>1, Shapes DEF IInv, Places, Drains, Loops, HasMap, Typed
<1>3. /\ work' \in [Loops -> Works] /\ work'[OtherLoop(l)] = work[OtherLoop(l)]
      /\ work'[l].pc = "stopped" /\ work'[l].snap = 0
  BY <1>1, <1>2 DEF IInv, Typed, Works, Idle, OtherLoop, Loops
<1>4. /\ ~ Published(l) /\ ~ Published(l)' /\ ~ Unplaced(l) /\ ~ Unplaced(l)' /\ ~ HasMap'
  BY <1>1, <1>3 DEF Published, Unplaced, HasMap
<1>5. \A m \in 1 .. Len(snapshots) : Holds(l, m) = One(m = n) /\ Holds(l, m)' = 0
  BY <1>3, <1>4 DEF Holds, One
<1>6. \A f : Has(l, f)' = 0 /\ Has(l, f) = 0 /\ MapHas(f)' = 0 /\ MapHas(f) \in Nat
  BY <1>4 DEF Has, MapHas, One
<1>7. snapshots[n].refs >= 1
  <2>1. One(root = n) + Holds(l, n) <= snapshots[n].refs /\ snapshots[n].refs \in Nat
    BY <1>2, Using
  <2>2. One(root = n) \in Nat /\ One(n = n) = 1
    BY OneType DEF One
  <2> QED
    BY <1>2, <1>5, <2>1, <2>2
<1>8. /\ rest \in Seq(Int) /\ Len(rest) = Len(files)
      /\ \A f \in 1 .. Len(files) :
           Balance(rest, snapshots, f) = Balance(files, snapshots, f) - MapHas(f)
  BY <1>2, MapClosed
<1> HIDE DEF l, n, rest
<1>9. /\ Proper(snapshots') /\ Len(snapshots') = Len(snapshots)
      /\ \A m \in 1 .. Len(snapshots) :
           /\ snapshots'[m].refs = snapshots[m].refs - One(m = n)
           /\ snapshots'[m].refs # 0 => snapshots'[m].segs = snapshots[m].segs
      /\ files' \in Seq(Int) /\ Len(files') = Len(files)
      /\ \A f \in 1 .. Len(files) : Balance(files', snapshots', f) = Balance(rest, snapshots, f)
  <2>9. GivesUp(snapshots, n, rest, snapshots', files')
    BY <1>1, <1>2, <1>7, <1>8, IsProper, Releasing
  <2> QED
    BY <1>8, <2>9 DEF GivesUp
<1>10. \A m \in 1 .. Len(snapshots) :
         snapshots'[m].refs = snapshots[m].refs + Holds(l, m)' - Holds(l, m)
  <2> TAKE m \in 1 .. Len(snapshots)
  <2>1. snapshots[m].refs \in Int /\ One(m = n) \in Int
    BY Shapes, OneType
  <2> QED
    BY <1>5, <1>9, <2>1
<1>11. \A f \in 1 .. Len(files) :
         Balance(files', snapshots', f)
           = Balance(files, snapshots, f) + Has(l, f)' - Has(l, f) + MapHas(f)' - MapHas(f)
  BY <1>6, <1>8, <1>9, BalanceType
<1>12. faults' \in Nat /\ retrying' \in [Loops -> BOOLEAN]
       /\ last' \in 1 .. Len(snapshots) /\ (last' = root => InMemory(Segs) = {})
  BY <1>1, LastPersisted DEF IInv, Named, Typed
<1>13. /\ work'[l].pc \in {"idle", "stopped"} <=> work'[l].snap = 0
       /\ work'[l].snap \in {0, work[l].snap} /\ persisted' \in {persisted, <<>>}
       /\ closer # "closed"
  BY <1>1, <1>3
<1> QED
  BY <1>1, <1>2, <1>3, <1>4, <1>9, <1>10, <1>11, <1>12, <1>13, LoopGives

\* A step of readers or of Close: the loops, the introducer's root and the map stay.
LEMMA AsideStep ==
  ASSUME IInv, UNCHANGED <<work, ids, persisted, last>>, introducer'.segs = introducer.segs,
         Proper(snapshots'), Len(snapshots') = Len(snapshots), Len(files') = Len(files),
         interrupted' = interrupted \/ interrupted', Counted',
         \A n \in 1 .. Len(snapshots) :
           snapshots'[n].refs # 0 => snapshots'[n].segs = snapshots[n].segs,
         \A f \in 1 .. Len(files) : Balance(files', snapshots', f) = Balance(files, snapshots, f),
         \A r \in Readers : reader'[r] <= Len(snapshots),
         \/ root' = root
         \/ root' = 0 /\ introducer.segs = <<>> /\ \A l \in Loops : work[l].pc = "stopped"
  PROVE  /\ Named' /\ Distinct' /\ OwnMerges' /\ Balanced'
         /\ root' = root => Segs' = Segs
         /\ \A k \in Loops : work[k].snap # 0 => Mine(k)' = Mine(k)
<1>1. \A l \in Loops : Published(l)' = Published(l) /\ Unplaced(l)' = Unplaced(l)
  BY DEF Published, Unplaced
<1>2. \A n : \A l \in Loops : Holds(l, n)' = Holds(l, n) /\ Holds(l, n) \in Nat
  BY <1>1 DEF Holds, One
<1>3. ASSUME NEW n \in 1 .. Len(snapshots), root' = n \/ \E l \in Loops : work[l].snap = n
      PROVE  snapshots'[n].segs = snapshots[n].segs
  <2>1. /\ snapshots'[n].refs = Cardinality(ReadersOf(n)') + One(root' = n)
                                  + Holds("persister", n)' + Holds("merger", n)'
        /\ IsFiniteSet(ReadersOf(n)')
    BY DEF Counted, Users
  <2>2. Cardinality(ReadersOf(n)') \in Nat
    BY <2>1, FS_CardinalityType
  <2>3. One(root' = n) \in Nat /\ (root' = n => One(root' = n) = 1)
    BY OneType DEF One
  <2>4. /\ Holds("persister", n)' \in Nat /\ Holds("merger", n)' \in Nat
        /\ (\E l \in Loops : work[l].snap = n) =>
             Holds("persister", n)' >= 1 \/ Holds("merger", n)' >= 1
    <3>1. Holds("persister", n)' \in Nat /\ Holds("merger", n)' \in Nat
      BY <1>2 DEF Loops
    <3>2. ASSUME NEW l \in Loops, work[l].snap = n
          PROVE  Holds(l, n)' >= 1
      BY <1>2, <3>2 DEF Holds, One
    <3> QED
      BY <3>1, <3>2 DEF Loops
  <2>5. snapshots'[n].refs # 0
    <3>1. CASE root' = n
      BY <2>1, <2>2, <2>3, <2>4, <3>1
    <3>2. CASE \E l \in Loops : work[l].snap = n
      BY <2>1, <2>2, <2>3, <2>4, <3>2
    <3> QED
      BY <1>3, <3>1, <3>2
  <2> QED
    BY <2>5
<1>4. root' = root => Segs' = Segs
  <2>1. root # 0 => root \in 1 .. Len(snapshots)
    BY Shapes DEF IInv, Places, Typed
  <2> QED
    BY <1>3, <2>1 DEF Segs
<1>5. \A k \in Loops : work[k].snap # 0 => Mine(k)' = Mine(k)
  BY <1>3, Shapes DEF Mine
<1>6. Named'
  BY <1>1 DEF IInv, Named
<1>7. \A n \in 1 .. Len(snapshots) :
        /\ snapshots'[n].segs \in {snapshots[n].segs, <<>>}
        /\ FilesOf(snapshots'[n].segs) \subseteq FilesOf(snapshots[n].segs)
  BY NoSegments DEF Proper
<1>8. \A segs : Sound(segs)' <=> Sound(segs)
  BY DEF Sound
<1>9. Sound(<<>>)
  BY NoSegments DEF Sound, SoundIn
<1>10. Distinct'
  <2>1. CASE root' = root
    BY <1>4, <1>7, <1>8, <1>9, <2>1 DEF IInv, Distinct
  <2>2. CASE introducer.segs = <<>>
    BY <1>7, <1>8, <1>9, <2>2, NoSegments DEF IInv, Distinct
  <2> QED
    BY <2>1, <2>2
<1>11. OwnMerges'
  <2>1. CASE root' = root
    BY <1>1, <1>4, <1>7, <2>1 DEF IInv, OwnMerges, OtherLoop, Loops
  <2>2. CASE \A l \in Loops : work[l].pc = "stopped"
    BY <1>1, <2>2 DEF OwnMerges, Unplaced
  <2> QED
    BY <2>1, <2>2
<1>12. Balanced'
  <2> SUFFICES ASSUME NEW f \in 1 .. Len(files)
               PROVE  /\ Balance(files', snapshots', f) <= Others(f)'
                      /\ ~ interrupted' => Balance(files', snapshots', f) = Others(f)'
    BY DEF Balanced
  <2>1. Others(f)' = Others(f)
    BY <1>1 DEF Others, Has, MapHas, HasMap, Loops, Unplaced
  <2> QED
    BY <2>1 DEF IInv, Balanced
<1> QED
  BY <1>4, <1>5, <1>6, <1>10, <1>11, <1>12

\* A reader is one user more.
LEMMA OpenReaderKeeps == ASSUME IInv, NEW r \in Readers, OpenReader(r) PROVE IInv'
<1>1. /\ reader[r] = 0 /\ root # 0 /\ snapshots' = Current
      /\ reader' = [reader EXCEPT ![r] = root]
      /\ UNCHANGED <<root, files, ids, introducer, persisted, work, last, retrying, closer,
                     interrupted, faults>>
  BY DEF OpenReader, life
<1>2. /\ root \in 1 .. Len(snapshots)
      /\ Proper(snapshots') /\ Len(snapshots') = Len(snapshots)
      /\ \A m \in 1 .. Len(snapshots) : /\ snapshots'[m].refs = snapshots[m].refs + One(m = root)
                                        /\ snapshots'[m].segs = snapshots[m].segs
      /\ \A f : Balance(files, snapshots', f) = Balance(files, snapshots, f)
  BY <1>1, Taking DEF One
<1>3. reader \in [Readers -> Nat]
  BY DEF IInv, Typed
<1>4. \A n \in 1 .. Len(snapshots) :
        ReadersOf(n)' = IF n = root THEN ReadersOf(n) \cup {r} ELSE ReadersOf(n)
  BY <1>1, <1>2, <1>3 DEF ReadersOf
<1>5. Counted'
  <2> SUFFICES ASSUME NEW n \in 1 .. Len(snapshots)
               PROVE  IsFiniteSet(ReadersOf(n)') /\ snapshots'[n].refs = Users(n)'
    BY <1>2 DEF Counted, Proper
  <2>1. /\ IsFiniteSet(ReadersOf(n)) /\ Cardinality(ReadersOf(n)) \in Nat
        /\ snapshots[n].refs = Users(n)
    BY Using
  <2>2. r \notin ReadersOf(n)
    BY <1>1, <1>2 DEF ReadersOf
  <2>3. IsFiniteSet(ReadersOf(n) \cup {r})
        /\ Cardinality(ReadersOf(n) \cup {r}) = Cardinality(ReadersOf(n)) + 1
    BY <2>1, <2>2, FS_AddElement
  <2>4. IsFiniteSet(ReadersOf(n)')
        /\ Cardinality(ReadersOf(n)') = Cardinality(ReadersOf(n)) + One(n = root)
    <3>1. ReadersOf(n)' = IF n = root THEN ReadersOf(n) \cup {r} ELSE ReadersOf(n)
      BY <1>4
    <3>2. CASE n = root
      BY <2>3, <3>1, <3>2 DEF One
    <3>3. CASE n # root
      BY <2>1, <3>1, <3>3 DEF One
    <3> QED
      BY <3>2, <3>3
  <2>5. /\ Holds("persister", n)' = Holds("persister", n) /\ Holds("merger", n)' = Holds("merger", n)
        /\ Holds("persister", n) \in Nat /\ Holds("merger", n) \in Nat
    BY <1>1 DEF Holds, Published, One
  <2>6. One(root = n)' = One(root = n) /\ One(root = n) \in Nat /\ One(n = root) \in Nat
    BY <1>1 DEF One
  <2>7. Users(n)' = Cardinality(ReadersOf(n)') + One(root = n) + Holds("persister", n) + Holds("merger", n)
    BY <2>5, <2>6 DEF Users
  <2>8. Users(n)' = Users(n) + One(n = root)
    BY <2>1, <2>4, <2>5, <2>6, <2>7 DEF Users
  <2> QED
    BY <1>2, <2>1, <2>4, <2>8
<1>6. \A q \in Readers : reader'[q] <= Len(snapshots)
  BY <1>1, <1>2, <1>3 DEF IInv, Named
<1>7. /\ Named' /\ Distinct' /\ OwnMerges' /\ Balanced' /\ Segs' = Segs
      /\ \A k \in Loops : work[k].snap # 0 => Mine(k)' = Mine(k)
  BY <1>1, <1>2, <1>5, <1>6, AsideStep
<1>8. Places'
  BY <1>1, <1>2, <1>7 DEF IInv, Places
<1>9. Drains'
  BY <1>1, <1>7 DEF IInv, Drains, HasMap
<1>10. Typed'
  BY <1>1, <1>2, <1>3 DEF IInv, Typed, Proper
<1> QED
  BY <1>5, <1>7, <1>8, <1>9, <1>10 DEF IInv

\* A reader gives up its snapshot, the last user or not.
LEMMA CloseReaderKeeps == ASSUME IInv, NEW r \in Readers, CloseReader(r) PROVE IInv'
<1> DEFINE k == reader[r]
<1>1. /\ k # 0 /\ snapshots' = Decremented(snapshots, k)
      /\ files' = WithoutUser(files, snapshots, k)
      /\ reader' = [reader EXCEPT ![r] = 0]
      /\ UNCHANGED <<root, ids, introducer, persisted, work, last, retrying, closer,
                     interrupted, faults>>
  BY DEF CloseReader, Release, life
<1>2. reader \in [Readers -> Nat] /\ files \in Seq(Int) /\ k \in 1 .. Len(snapshots)
  BY <1>1, Shapes DEF IInv, Typed, Named
<1>3. snapshots[k].refs >= 1
  <2>1. One(root = k) + 1 <= snapshots[k].refs /\ snapshots[k].refs \in Nat /\ One(root = k) \in Nat
    BY <1>2, Using DEF One
  <2> QED
    BY <2>1
<1> HIDE DEF k
<1>4. /\ Proper(snapshots') /\ Len(snapshots') = Len(snapshots)
      /\ \A m \in 1 .. Len(snapshots) :
           /\ snapshots'[m].refs = snapshots[m].refs - One(m = k)
           /\ snapshots'[m].refs # 0 => snapshots'[m].segs = snapshots[m].segs
      /\ files' \in Seq(Int) /\ Len(files') = Len(files)
      /\ \A f \in 1 .. Len(files) : Balance(files', snapshots', f) = Balance(files, snapshots, f)
  <2>1. Proper(snapshots) /\ files \in Seq(Int)
    BY <1>2, IsProper
  <2>9. GivesUp(snapshots, k, files, snapshots', files')
    BY <1>1, <1>2, <1>3, <2>1, Releasing
  <2> QED
    BY <2>9 DEF GivesUp
<1>5. \A n \in 1 .. Len(snapshots) :
        ReadersOf(n)' = IF n = k THEN ReadersOf(n) \ {r} ELSE ReadersOf(n)
  BY <1>1, <1>2 DEF ReadersOf, k
<1>6. Counted'
  <2> SUFFICES ASSUME NEW n \in 1 .. Len(snapshots)
               PROVE  IsFiniteSet(ReadersOf(n)') /\ snapshots'[n].refs = Users(n)'
    BY <1>4 DEF Counted, Proper
  <2>1. /\ IsFiniteSet(ReadersOf(n)) /\ Cardinality(ReadersOf(n)) \in Nat
        /\ snapshots[n].refs = Users(n)
    BY Using
  <2>2. n = k => r \in ReadersOf(n)
    BY DEF ReadersOf, k
  <2>3. n = k => IsFiniteSet(ReadersOf(n) \ {r})
        /\ Cardinality(ReadersOf(n) \ {r}) = Cardinality(ReadersOf(n)) - 1
    BY <2>1, <2>2, FS_RemoveElement
  <2>4. IsFiniteSet(ReadersOf(n)')
        /\ Cardinality(ReadersOf(n)') = Cardinality(ReadersOf(n)) - One(n = k)
    <3>1. ReadersOf(n)' = IF n = k THEN ReadersOf(n) \ {r} ELSE ReadersOf(n)
      BY <1>5
    <3>2. CASE n = k
      BY <2>1, <2>3, <3>1, <3>2 DEF One
    <3>3. CASE n # k
      BY <2>1, <3>1, <3>3 DEF One
    <3> QED
      BY <3>2, <3>3
  <2>5. /\ Holds("persister", n)' = Holds("persister", n) /\ Holds("merger", n)' = Holds("merger", n)
        /\ Holds("persister", n) \in Nat /\ Holds("merger", n) \in Nat
    BY <1>1 DEF Holds, Published, One
  <2>6. One(root = n)' = One(root = n) /\ One(root = n) \in Nat /\ One(n = k) \in Nat
    BY <1>1 DEF One
  <2>7. Users(n)' = Cardinality(ReadersOf(n)') + One(root = n) + Holds("persister", n) + Holds("merger", n)
    BY <2>5, <2>6 DEF Users
  <2>8. Users(n)' = Users(n) - One(n = k)
    BY <2>1, <2>4, <2>5, <2>6, <2>7 DEF Users
  <2> QED
    BY <1>4, <2>1, <2>4, <2>8
<1>7. \A q \in Readers : reader'[q] <= Len(snapshots)
  BY <1>1, <1>2, Shapes DEF IInv, Named
<1>8. /\ Named' /\ Distinct' /\ OwnMerges' /\ Balanced' /\ Segs' = Segs
      /\ \A l \in Loops : work[l].snap # 0 => Mine(l)' = Mine(l)
  BY <1>1, <1>4, <1>6, <1>7, AsideStep
<1>9. Places'
  BY <1>1, <1>4, <1>8 DEF IInv, Places
<1>10. Drains'
  BY <1>1, <1>8 DEF IInv, Drains, HasMap
<1>11. Typed'
  BY <1>1, <1>2, <1>4 DEF IInv, Typed, Proper
<1> QED
  BY <1>6, <1>8, <1>9, <1>10, <1>11 DEF IInv

\* Close waits, then closes closeCh.  When it drained, the root it waited for is
\* persisted and has nothing in memory.
LEMMA CloseKeeps == ASSUME IInv, CloseBegins \/ CloseSignals \/ IntroducerStop PROVE IInv'
<1>1. UNCHANGED <<snapshots, root, files, ids, persisted, work, last, reader, retrying, faults>>
  BY DEF CloseBegins, CloseSignals, IntroducerStop, life
<1>2. /\ introducer'.todo = introducer.todo /\ introducer'.segs = introducer.segs
      /\ introducer' \in [pc : {"idle", "persist", "stopped"}, todo : SUBSET Nat, segs : SegMaps]
      /\ introducer'.pc = introducer.pc \/ (introducer'.pc = "stopped" /\ introducer.pc = "idle")
  BY DEF CloseBegins, CloseSignals, IntroducerStop, IInv, Typed
<1>3. /\ closer' \in {"open", "draining", "closing", "closed"}
      /\ closer' = "closed" <=> closer = "closed"
      /\ interrupted' \in BOOLEAN /\ (interrupted => interrupted')
  BY DEF CloseBegins, CloseSignals, IntroducerStop, life, IInv, Typed
<1>4. closer' = "closing" /\ ~ interrupted' =>
        \/ closer = "closing" /\ ~ interrupted
        \/ Drained /\ closer = "draining" /\ introducer' = introducer /\ ~ interrupted
  BY DEF CloseBegins, CloseSignals, IntroducerStop, life, IInv, Typed
<1>5. Counted'
  <2>1. \A n : /\ ReadersOf(n)' = ReadersOf(n) /\ One(root = n)' = One(root = n)
              /\ \A l \in Loops : Holds(l, n)' = Holds(l, n)
    BY <1>1 DEF ReadersOf, Holds, Published, One
  <2>2. \A n : Users(n)' = Users(n)
    BY <2>1 DEF Users, Loops
  <2> QED
    BY <1>1, <2>1, <2>2 DEF IInv, Counted
<1>6. interrupted' = interrupted \/ interrupted'
  BY <1>3 DEF IInv, Typed
<1>7. Proper(snapshots') /\ \A r \in Readers : reader'[r] <= Len(snapshots)
  BY <1>1, IsProper DEF IInv, Named
<1>8. Named' /\ Distinct' /\ OwnMerges' /\ Balanced'
  BY <1>1, <1>2, <1>5, <1>6, <1>7, AsideStep
<1>9. Segs' = Segs /\ \A k \in Loops : Mine(k)' = Mine(k)
  BY <1>1 DEF Segs, Mine
<1>10. Places'
  BY <1>1, <1>2, <1>3, <1>9 DEF IInv, Places
<1>11. Drains'
  <2>1. HasMap' <=> HasMap
    BY <1>1 DEF HasMap
  <2>2. closer' \in {"closing", "closed"} /\ ~ interrupted' =>
          /\ InMemory(Segs) = {} /\ ~ HasMap /\ introducer'.pc # "persist"
          /\ \A k \in Loops : work[k].snap # 0 => InMemory(Mine(k)) = {}
    <3>1. CASE closer \in {"closing", "closed"}
      BY <1>2, <1>3, <3>1 DEF IInv, Drains
    <3>2. CASE Drained /\ closer = "draining" /\ introducer' = introducer /\ ~ interrupted
      <4>1. \A k \in Loops : work[k].pc = "idle"
        BY <3>2 DEF Drained, Loops
      <4>2. \A k \in Loops : work[k].snap = 0
        BY <4>1 DEF IInv, Places
      <4>3. introducer.pc # "persist" /\ ~ HasMap
        BY <3>2, <4>1 DEF IInv, Drains, HasMap, Loops
      <4>4. InMemory(Segs) = {}
        BY <3>2, LastPersisted DEF Drained
      <4> QED
        BY <3>2, <4>2, <4>3, <4>4
    <3> QED
      BY <1>3, <1>4, <3>1, <3>2
  <2>3. /\ introducer'.pc = "persist" <=> introducer.pc = "persist"
        /\ interrupted => interrupted'
    BY <1>2, <1>3
  <2> QED
    BY <1>1, <1>9, <2>1, <2>2, <2>3 DEF IInv, Drains
<1>12. Typed'
  BY <1>1, <1>2, <1>3 DEF IInv, Typed
<1> QED
  BY <1>5, <1>8, <1>10, <1>11, <1>12 DEF IInv

\* The root is given up when the goroutines are gone.
LEMMA CloseDoneKeeps == ASSUME IInv, CloseDone PROVE IInv'
<1>1. /\ closer = "closing" /\ introducer.pc = "stopped"
      /\ \A l \in Loops : work[l].pc = "stopped"
      /\ snapshots' = Decremented(snapshots, root) /\ files' = WithoutUser(files, snapshots, root)
      /\ root' = 0 /\ closer' = "closed"
      /\ UNCHANGED <<ids, introducer, persisted, work, last, reader, retrying, interrupted, faults>>
  BY DEF CloseDone, Release
<1>2. /\ root \in 1 .. Len(snapshots) /\ introducer.segs = <<>> /\ introducer.todo = {}
      /\ \A l \in Loops : work[l].snap = 0
      /\ files \in Seq(Int)
  BY <1>1, Shapes DEF IInv, Places, Typed
<1>3. snapshots[root].refs >= 1
  BY <1>2, Using
<1>4. /\ Proper(snapshots') /\ Len(snapshots') = Len(snapshots)
      /\ \A m \in 1 .. Len(snapshots) :
           /\ snapshots'[m].refs = snapshots[m].refs - One(m = root)
           /\ snapshots'[m].refs # 0 => snapshots'[m].segs = snapshots[m].segs
      /\ files' \in Seq(Int) /\ Len(files') = Len(files)
      /\ \A f \in 1 .. Len(files) : Balance(files', snapshots', f) = Balance(files, snapshots, f)
  <2>1. Proper(snapshots) /\ files \in Seq(Int)
    BY <1>2, IsProper
  <2>9. GivesUp(snapshots, root, files, snapshots', files')
    BY <1>1, <1>2, <1>3, <2>1, Releasing
  <2> QED
    BY <2>9 DEF GivesUp
<1>5. Counted'
  <2> SUFFICES ASSUME NEW n \in 1 .. Len(snapshots)
               PROVE  IsFiniteSet(ReadersOf(n)') /\ snapshots'[n].refs = Users(n)'
    BY <1>4 DEF Counted, Proper
  <2>1. /\ IsFiniteSet(ReadersOf(n)) /\ Cardinality(ReadersOf(n)) \in Nat
        /\ snapshots[n].refs = Users(n)
    BY Using
  <2>2. ReadersOf(n)' = ReadersOf(n)
    BY <1>1 DEF ReadersOf
  <2>3. /\ Holds("persister", n)' = Holds("persister", n) /\ Holds("merger", n)' = Holds("merger", n)
        /\ Holds("persister", n) \in Nat /\ Holds("merger", n) \in Nat
    BY <1>1 DEF Holds, Published, One
  <2>4. One(root = n)' = 0 /\ One(root = n) = One(n = root) /\ One(n = root) \in Nat
    BY <1>1 DEF One
  <2>5. Users(n)' = Users(n) - One(n = root)
    BY <2>1, <2>2, <2>3, <2>4 DEF Users
  <2> QED
    BY <1>4, <2>1, <2>2, <2>5
<1>6. \A r \in Readers : reader'[r] <= Len(snapshots)
  BY <1>1 DEF IInv, Named
<1>7. Named' /\ Distinct' /\ OwnMerges' /\ Balanced'
  BY <1>1, <1>2, <1>4, <1>5, <1>6, AsideStep
<1>8. Segs' = <<>>
  BY <1>1 DEF Segs
<1>9. Places'
  BY <1>1, <1>2 DEF IInv, Places
<1>10. Drains'
  BY <1>1, <1>2, <1>8, NoSegments DEF Drains, HasMap, Loops
<1>11. Typed'
  BY <1>1, <1>4 DEF IInv, Typed, Proper
<1> QED
  BY <1>5, <1>7, <1>9, <1>10, <1>11 DEF IInv

-----------------------------------------------------------------------------
(* New roots *)

\* A new snapshot takes its references to the segments that stay before the last root
\* gives up its own.
Replaced(segs, staying, users) ==
  /\ root \in 1 .. Len(snapshots) /\ root' = Len(snapshots) + 1
  /\ Proper(snapshots') /\ Len(snapshots') = Len(snapshots) + 1
  /\ \A m \in 1 .. Len(snapshots) :
       /\ snapshots'[m].refs = snapshots[m].refs - One(m = root)
       /\ snapshots'[m].refs # 0 => snapshots'[m].segs = snapshots[m].segs
  /\ snapshots'[Len(snapshots) + 1] = [refs |-> users, segs |-> segs]
  /\ files' \in Seq(Int) /\ Len(files') = Len(files)
  /\ \A f \in 1 .. Len(files) :
       Balance(files', snapshots', f)
         = Balance(files, snapshots, f) + One(f \in FilesOf(Restrict(segs, staying)))
                                        - One(f \in FilesOf(segs))

\* ReplaceRoot: what the new snapshot, the old one and the files count.
LEMMA Replaces ==
  ASSUME IInv, root # 0, NEW segs \in SegMaps, NEW staying, NEW users \in Nat \ {0},
         ReplaceRoot(segs, staying, users)
  PROVE  Replaced(segs, staying, users)
<1> DEFINE some   == FilesOf(Restrict(segs, staying))
           counts == AddRefs(files, some)
           snaps  == Decremented(snapshots, root)
<1>1. /\ snapshots' = Append(snaps, [refs |-> users, segs |-> segs])
      /\ files' = WithoutUser(counts, snapshots, root)
      /\ root' = Len(snapshots) + 1
  BY DEF ReplaceRoot
<1>2. root \in 1 .. Len(snapshots) /\ files \in Seq(Int)
  BY Shapes DEF IInv, Places, Typed
<1>3. snapshots[root].refs >= 1
  BY <1>2, Using
<1>4. /\ counts \in Seq(Int) /\ Len(counts) = Len(files)
      /\ \A f \in 1 .. Len(files) : counts[f] = files[f] + One(f \in some)
  BY <1>2, AddedRefs DEF One
<1> HIDE DEF counts, some
<1>5. /\ Proper(snaps) /\ Len(snaps) = Len(snapshots)
      /\ \A m \in 1 .. Len(snapshots) :
           /\ snaps[m].refs = snapshots[m].refs - One(m = root)
           /\ snaps[m].refs # 0 => snaps[m].segs = snapshots[m].segs
      /\ files' \in Seq(Int) /\ Len(files') = Len(counts)
      /\ \A f \in 1 .. Len(counts) : Balance(files', snaps, f) = Balance(counts, snapshots, f)
  <2>1. Proper(snapshots)
    BY IsProper
  <2> QED
    <3>1. files' = WithoutUser(counts, snapshots, root) /\ snaps = Decremented(snapshots, root)
      BY <1>1 DEF counts
    <3> HIDE DEF snaps
    <3>9. GivesUp(snapshots, root, counts, snaps, files')
      BY <1>2, <1>3, <1>4, <2>1, <3>1, Releasing
    <3> QED
      BY <3>9 DEF GivesUp
<1> HIDE DEF snaps
<1>6. /\ snapshots' \in Seq(Snapshot) /\ Len(snapshots') = Len(snapshots) + 1
      /\ \A m \in 1 .. Len(snapshots) : snapshots'[m] = snaps[m]
      /\ snapshots'[Len(snapshots) + 1] = [refs |-> users, segs |-> segs]
      /\ \A f \in 1 .. Len(files') :
           Balance(files', snapshots', f) = Balance(files', snaps, f) - One(f \in FilesOf(segs))
  <2>1. snaps \in Seq(Snapshot) /\ users \in Int
    BY <1>5 DEF Proper
  <2> QED
    <3> DEFINE one == [refs |-> users, segs |-> segs]
    <3>1. snapshots' = Append(snaps, one)
      BY <1>1 DEF snaps
    <3>2. one \in Snapshot /\ one.segs = segs
      BY <2>1 DEF Snapshot
    <3> HIDE DEF one
    <3>3. /\ snapshots' \in Seq(Snapshot) /\ Len(snapshots') = Len(snaps) + 1
          /\ \A m \in 1 .. Len(snaps) : snapshots'[m] = snaps[m]
          /\ snapshots'[Len(snaps) + 1] = one
          /\ \A f \in 1 .. Len(files') :
               Balance(files', snapshots', f) = Balance(files', snaps, f) - One(f \in FilesOf(segs))
      BY <1>5, <2>1, <3>1, <3>2, OneSnapshotMore DEF One
    <3> QED
      BY <1>5, <3>3 DEF one
<1>7. Proper(snapshots')
  <2>1. \A m \in 1 .. Len(snapshots') : m \in 1 .. Len(snapshots) \/ m = Len(snapshots) + 1
    BY <1>6, Shapes
  <2>2. \A m \in 1 .. Len(snapshots) :
          snapshots'[m].refs \in Nat /\ (snapshots'[m].refs = 0 => snapshots'[m].segs = <<>>)
    BY <1>5, <1>6 DEF Proper
  <2>3. snapshots'[Len(snapshots) + 1].refs = users
    BY <1>6
  <2> QED
    BY <1>6, <2>1, <2>2, <2>3 DEF Proper
<1>8. ASSUME NEW f \in 1 .. Len(files)
      PROVE  Balance(files', snapshots', f)
               = Balance(files, snapshots, f) + One(f \in some) - One(f \in FilesOf(segs))
  <2>1. files[f] \in Int /\ Cardinality(SnapsOf(snapshots, f)) \in Nat
    BY <1>2, SnapsFinite DEF IInv, Typed
  <2>2. One(f \in some) \in Int /\ One(f \in FilesOf(segs)) \in Int
    BY OneType
  <2>3. Balance(counts, snapshots, f) = Balance(files, snapshots, f) + One(f \in some)
    BY <1>4, <2>1, <2>2 DEF Balance
  <2>4. Balance(files', snaps, f) = Balance(counts, snapshots, f)
    BY <1>4, <1>5
  <2>5. Balance(files', snapshots', f) = Balance(files', snaps, f) - One(f \in FilesOf(segs))
    BY <1>4, <1>5, <1>6
  <2>6. Balance(files, snapshots, f) \in Int
    BY BalanceType
  <2> QED
    BY <2>2, <2>3, <2>4, <2>5, <2>6
<1> QED
  BY <1>1, <1>2, <1>4, <1>5, <1>6, <1>7, <1>8 DEF some, Replaced

\* A step of the introducer that replaces the root, and what the loops may do in it.
ReplacesRoot(segs, staying, users) ==
  /\ root # 0 /\ segs \in SegMaps /\ users \in Nat \ {0} /\ ReplaceRoot(segs, staying, users)
  /\ UNCHANGED <<persisted, last, reader, retrying, closer, interrupted, faults>>
  /\ introducer' = [pc |-> "idle", todo |-> {}, segs |-> <<>>] /\ introducer.pc # "stopped"
  /\ ids' \in Nat /\ ids <= ids' /\ work' \in [Loops -> Works]
  /\ SoundIn(segs, ids', Len(files)) /\ FilesOf(persisted) \cap FilesOf(segs) = {}
  /\ closer = "closing" /\ ~ interrupted => InMemory(segs) = {}
  /\ \A l \in Loops :
       /\ work'[l].snap = work[l].snap
       /\ work'[l].pc \in {"idle", "stopped"} <=> work[l].pc \in {"idle", "stopped"}
       /\ Published(l)' => work'[l].new \in 1 .. Len(snapshots) + 1
       /\ Unplaced(l)' => /\ Unplaced(l) /\ work'[l].file = work[l].file
                          /\ work[l].file \notin FilesOf(segs)
       /\ work'[l].pc = "merged" => /\ work[l].pc = "merged" /\ work'[l].new = work[l].new
                                    /\ work[l].new \notin DOMAIN segs
       /\ \A m \in 1 .. Len(snapshots) : Holds(l, m)' = Holds(l, m)
  /\ \A n : n = Len(snapshots) + 1 => Holds("persister", n)' + Holds("merger", n)' = users - 1
  /\ work'["persister"].pc \in {"sending", "waiting", "writing"}
       <=> work["persister"].pc \in {"sending", "waiting", "writing"}
  /\ work'["persister"].pc \in {"sending", "waiting", "writing"} =>
       work'["persister"] = work["persister"]
  /\ \A f \in 1 .. Len(files) :
       One(f \in FilesOf(Restrict(segs, staying))) - One(f \in FilesOf(segs))
         = Has("persister", f)' - Has("persister", f) + Has("merger", f)' - Has("merger", f)
             - One(f \in FilesOf(introducer.segs))

\* A new root keeps the invariant if its segments are those that stay and new ones.
LEMMA RootStep ==
  ASSUME IInv, NEW segs, NEW staying, NEW users, ReplacesRoot(segs, staying, users)
  PROVE  IInv'
<1> USE DEF ReplacesRoot
<1> DEFINE N == Len(snapshots)
<1>1. /\ root \in 1 .. N /\ root' = N + 1 /\ Proper(snapshots') /\ Len(snapshots') = N + 1
      /\ \A m \in 1 .. N :
           /\ snapshots'[m].refs = snapshots[m].refs - One(m = root)
           /\ snapshots'[m].refs # 0 => snapshots'[m].segs = snapshots[m].segs
      /\ snapshots'[N + 1] = [refs |-> users, segs |-> segs]
      /\ files' \in Seq(Int) /\ Len(files') = Len(files)
      /\ \A f \in 1 .. Len(files) :
           Balance(files', snapshots', f)
             = Balance(files, snapshots, f) + One(f \in FilesOf(Restrict(segs, staying)))
                                            - One(f \in FilesOf(segs))
  <2>1. Replaced(segs, staying, users)
    BY Replaces
  <2> QED
    BY <2>1 DEF Replaced
<1>2. N \in Nat /\ root = N /\ closer # "closed" /\ closer \in {"open", "draining", "closing"}
  BY Shapes DEF IInv, Places, Typed
<1>3. Segs' = segs
  BY <1>1, <1>2 DEF Segs
<1>4. \A m \in 1 .. Len(snapshots') : m \in 1 .. N \/ m = N + 1
  BY <1>1, <1>2
<1>5. Counted'
  <2> SUFFICES ASSUME NEW n \in 1 .. Len(snapshots')
               PROVE  IsFiniteSet(ReadersOf(n)') /\ snapshots'[n].refs = Users(n)'
    BY <1>1 DEF Counted, Proper
  <2>0. ReadersOf(n)' = ReadersOf(n)
    BY DEF ReadersOf
  <2>1. CASE n \in 1 .. N
    <3>1. /\ IsFiniteSet(ReadersOf(n)) /\ Cardinality(ReadersOf(n)) \in Nat
          /\ snapshots[n].refs = Users(n)
      BY <2>1, Using
    <3>2. Holds("persister", n) \in Nat /\ Holds("merger", n) \in Nat
      BY DEF Holds, One
    <3>3. Holds("persister", n)' = Holds("persister", n) /\ Holds("merger", n)' = Holds("merger", n)
      BY <2>1 DEF Loops
    <3>4. One(root = n)' = 0 /\ One(root = n) = One(n = root) /\ One(n = root) \in Nat
      BY <1>1, <1>2, <2>1 DEF One
    <3>5. Users(n)' = Users(n) - One(n = root)
      BY <2>0, <3>1, <3>2, <3>3, <3>4 DEF Users
    <3> QED
      BY <1>1, <2>0, <2>1, <3>1, <3>5
  <2>2. CASE n = N + 1
    <3>1. ReadersOf(n) = {}
      BY <1>2, <2>2 DEF ReadersOf, IInv, Named, Typed
    <3>2. IsFiniteSet(ReadersOf(n)') /\ Cardinality(ReadersOf(n)') = 0
      BY <2>0, <3>1, FS_EmptySet
    <3>3. One(root = n)' = 1
      BY <1>1, <2>2 DEF One
    <3>4. Holds("persister", n)' \in Nat /\ Holds("merger", n)' \in Nat
      BY DEF Holds, One
    <3>5. Holds("persister", n)' + Holds("merger", n)' = users - 1
      BY <2>2
    <3> DEFINE a == Holds("persister", n)'   b == Holds("merger", n)'
    <3>8. Users(n)' = 0 + 1 + a + b
      BY <3>2, <3>3 DEF Users
    <3>9. a \in Nat /\ b \in Nat /\ a + b = users - 1
      BY <3>4, <3>5
    <3> HIDE DEF a, b
    <3>6. Users(n)' = users
      BY <3>8, <3>9
    <3>7. snapshots'[n].refs = users
      BY <1>1, <2>2
    <3> QED
      BY <3>2, <3>6, <3>7
  <2> QED
    BY <1>4, <2>1, <2>2
<1>6. ASSUME NEW l \in Loops, work'[l].snap # 0
      PROVE  work[l].snap \in 1 .. N /\ work'[l].snap # root' /\ Mine(l)' = Mine(l)
  <2>1. work[l].snap \in 1 .. N /\ work'[l].snap = work[l].snap
    BY <1>6, Shapes
  <2> DEFINE n == work[l].snap
  <2>2. snapshots'[n].refs = snapshots[n].refs - One(n = root)
    BY <1>1, <2>1
  <2>3. One(root = n) + Holds(l, n) <= snapshots[n].refs /\ snapshots[n].refs \in Nat
    BY <2>1, Using
  <2>4. One(root = n) = One(n = root) /\ One(n = root) \in Nat
    BY DEF One
  <2>5. Holds(l, n) \in Nat /\ Holds(l, n) >= 1
    BY DEF Holds, One
  <2>6. snapshots'[n].refs # 0
    BY <2>2, <2>3, <2>4, <2>5
  <2> QED
    BY <1>1, <1>2, <2>1, <2>6 DEF Mine
<1>7. Named'
  <2>1. \A r \in Readers : reader'[r] <= Len(snapshots')
    <3>1. \A r \in Readers : reader[r] \in Nat /\ reader[r] <= N
      BY DEF IInv, Named, Typed
    <3> QED
      BY <1>1, <1>2, <3>1
  <2>2. \A l \in Loops : work'[l].snap <= Len(snapshots')
    BY <1>1, <1>2, Shapes
  <2>3. last' \in 1 .. Len(snapshots')
    BY <1>1, <1>2 DEF IInv, Named
  <2> QED
    BY <1>1, <2>1, <2>2, <2>3 DEF Named
<1>8. Places'
  <2>1. root' # 0 /\ root' = Len(snapshots') /\ closer' # "closed"
    BY <1>1, <1>2
  <2>2. \A l \in Loops : work'[l].pc \in {"idle", "stopped"} <=> work'[l].snap = 0
    <3> TAKE l \in Loops
    <3>1. work[l].pc \in {"idle", "stopped"} <=> work[l].snap = 0
      BY DEF IInv, Places
    <3>2. work'[l].snap = work[l].snap
      OBVIOUS
    <3> QED
      BY <3>1, <3>2
  <2>3. introducer'.pc # "persist" /\ introducer'.todo = {} /\ introducer'.segs = <<>>
    OBVIOUS
  <2> QED
    BY <2>1, <2>2, <2>3 DEF Places
<1>9. \A n \in 1 .. Len(snapshots') :
        \/ snapshots'[n].segs \in {segs, <<>>}
        \/ n \in 1 .. N /\ snapshots'[n].segs = snapshots[n].segs
  <2> TAKE n \in 1 .. Len(snapshots')
  <2>1. n = N + 1 => snapshots'[n].segs = segs
    BY <1>1
  <2> QED
    BY <1>1, <1>4, <2>1 DEF Proper
<1>10. \A some : Sound(some) => Sound(some)'
  BY <1>1 DEF Sound, SoundIn, IInv, Typed
<1>11. SoundIn(<<>>, ids', Len(files'))
  BY NoSegments DEF SoundIn
<1>12. Distinct'
  <2>1. \A n \in 1 .. Len(snapshots') : SoundIn(snapshots'[n].segs, ids', Len(files'))
    <3> TAKE n \in 1 .. Len(snapshots')
    <3>1. CASE snapshots'[n].segs \in {segs, <<>>}
      BY <1>1, <1>11, <3>1
    <3>2. CASE n \in 1 .. N /\ snapshots'[n].segs = snapshots[n].segs
      <4>1. SoundIn(snapshots[n].segs, ids, Len(files))
        BY <3>2 DEF IInv, Distinct, Sound
      <4> QED
        BY <1>1, <3>2, <4>1 DEF SoundIn, IInv, Typed
    <3> QED
      BY <1>9, <3>1, <3>2
  <2>2. SoundIn(persisted', ids', Len(files'))
    <3>1. SoundIn(persisted, ids, Len(files))
      BY DEF IInv, Distinct, Sound
    <3> QED
      BY <1>1, <3>1 DEF SoundIn, IInv, Typed
  <2>3. \A n \in 1 .. Len(snapshots') : FilesOf(persisted') \cap FilesOf(snapshots'[n].segs) = {}
    BY <1>9, NoSegments DEF IInv, Distinct
  <2>4. introducer'.segs = <<>>
    OBVIOUS
  <2> QED
    BY <1>11, <2>1, <2>2, <2>3, <2>4, NoSegments DEF Distinct, Sound
<1>13. OwnMerges'
  <2>1. \A l \in Loops : OtherLoop(l) \in Loops
    BY DEF OtherLoop, Loops
  <2>2. ASSUME NEW l \in Loops, Unplaced(l)'
        PROVE  /\ work'[l].file \in 1 .. Len(files')
               /\ \A n \in 1 .. Len(snapshots') : work'[l].file \notin FilesOf(snapshots'[n].segs)
               /\ work'[l].file \notin FilesOf(persisted') \cup FilesOf(introducer'.segs)
               /\ Unplaced(OtherLoop(l))' => work'[OtherLoop(l)].file # work'[l].file
    <3>1. Unplaced(l) /\ work'[l].file = work[l].file /\ work[l].file \notin FilesOf(segs)
      BY <2>2
    <3>2. Unplaced(OtherLoop(l))' =>
            Unplaced(OtherLoop(l)) /\ work'[OtherLoop(l)].file = work[OtherLoop(l)].file
      BY <2>1
    <3>3. /\ work[l].file \in 1 .. Len(files)
          /\ \A n \in 1 .. Len(snapshots) : work[l].file \notin FilesOf(snapshots[n].segs)
          /\ work[l].file \notin FilesOf(persisted) \cup FilesOf(introducer.segs)
          /\ Unplaced(OtherLoop(l)) => work[OtherLoop(l)].file # work[l].file
      BY <3>1 DEF IInv, OwnMerges
    <3>4. introducer'.segs = <<>>
      OBVIOUS
    <3> QED
      BY <1>1, <1>9, <3>1, <3>2, <3>3, <3>4, NoSegments
  <2>3. ASSUME NEW l \in Loops, work'[l].pc = "merged"
        PROVE  /\ work'[l].new \in 1 .. ids' /\ work'[l].new \notin DOMAIN Segs'
               /\ work'[OtherLoop(l)].pc = "merged" => work'[OtherLoop(l)].new # work'[l].new
    <3>1. work[l].pc = "merged" /\ work'[l].new = work[l].new /\ work[l].new \notin DOMAIN segs
      BY <2>3
    <3>2. work'[OtherLoop(l)].pc = "merged" =>
            work[OtherLoop(l)].pc = "merged" /\ work'[OtherLoop(l)].new = work[OtherLoop(l)].new
      BY <2>1
    <3>3. work[l].new \in 1 .. ids
          /\ (work[OtherLoop(l)].pc = "merged" => work[OtherLoop(l)].new # work[l].new)
      BY <3>1 DEF IInv, OwnMerges
    <3>4. work[l].new \in 1 .. ids'
      BY <3>3 DEF IInv, Typed
    <3> QED
      BY <1>3, <3>1, <3>2, <3>3, <3>4
  <2> QED
    BY <2>2, <2>3 DEF OwnMerges
<1>14. HasMap' <=> HasMap
  BY DEF HasMap
<1>15. Balanced'
  <2> SUFFICES ASSUME NEW f \in 1 .. Len(files)
               PROVE  /\ Balance(files', snapshots', f) <= Others(f)'
                      /\ ~ interrupted => Balance(files', snapshots', f) = Others(f)'
    BY <1>1 DEF Balanced
  <2> DEFINE b == Balance(files, snapshots, f)   bb == Balance(files', snapshots', f)
             p == Has("persister", f)   pp == Has("persister", f)'
             g == Has("merger", f)      gg == Has("merger", f)'
             m == MapHas(f)   i == One(f \in FilesOf(introducer.segs))
             k == One(f \in FilesOf(Restrict(segs, staying)))   s == One(f \in FilesOf(segs))
             u == Others(f)   uu == Others(f)'
  <2>1. p \in Nat /\ pp \in Nat /\ g \in Nat /\ gg \in Nat
    BY DEF Has, One
  <2>2. m \in Nat /\ i \in Nat /\ k \in Nat /\ s \in Nat
    BY DEF MapHas, One
  <2>3. MapHas(f)' = m /\ One(f \in FilesOf(introducer.segs))' = 0
    BY <1>14, NoSegments DEF MapHas, One
  <2>4. u = p + g + m + i /\ uu = pp + gg + m + 0
    BY <2>3 DEF Others
  <2>5. bb = b + k - s /\ k - s = pp - p + gg - g - i
    BY <1>1
  <2>6. b \in Int
    BY BalanceType
  <2>7. b <= u /\ (~ interrupted => b = u)
    BY DEF IInv, Balanced
  <2> HIDE DEF b, bb, p, pp, g, gg, m, i, k, s, u, uu
  <2>8. bb <= uu /\ (~ interrupted => bb = uu)
    BY <2>1, <2>2, <2>4, <2>5, <2>6, <2>7
  <2> QED
    BY <2>8 DEF bb, uu
<1>16. Drains'
  <2>1. last' # root'
    BY <1>1, <1>2 DEF IInv, Named
  <2>2. work["persister"].snap \in 0 .. N /\ work'["persister"].snap = work["persister"].snap
    BY Shapes DEF Loops
  <2>3. work'["persister"].snap # root'
    BY <1>1, <1>2, <2>2
  <2>4. introducer'.pc # "persist"
    OBVIOUS
  <2>5. closer \in {"closing", "closed"} /\ ~ interrupted =>
         /\ InMemory(segs) = {} /\ ~ HasMap'
         /\ \A l \in Loops : work'[l].snap # 0 => InMemory(Mine(l)') = {}
    BY <1>2, <1>6, <1>14 DEF IInv, Drains
  <2> QED
    BY <1>3, <2>1, <2>3, <2>4, <2>5 DEF Drains
<1>17. Typed'
  <2>1. introducer' \in [pc : {"idle", "persist", "stopped"}, todo : SUBSET Nat, segs : SegMaps]
    BY NoSegments
  <2> QED
    BY <1>1, <1>2, <2>1 DEF IInv, Typed, Proper
<1> QED
  BY <1>5, <1>7, <1>8, <1>12, <1>13, <1>15, <1>16, <1>17 DEF IInv

\* Segments that stay are as sound as all were.
LEMMA Keeping ==
  ASSUME NEW segs \in SegMaps, NEW staying \in SUBSET DOMAIN segs,
         NEW maxId \in Nat, NEW maxFile \in Nat, SoundIn(segs, maxId, maxFile)
  PROVE  /\ Restrict(segs, staying) \in SegMaps /\ DOMAIN Restrict(segs, staying) = staying
         /\ SoundIn(Restrict(segs, staying), maxId, maxFile)
         /\ FilesOf(Restrict(segs, staying)) \subseteq FilesOf(segs)
         /\ InMemory(Restrict(segs, staying)) \subseteq InMemory(segs)
         /\ Restrict(Restrict(segs, staying), staying) = Restrict(segs, staying)
<1> DEFINE kept == Restrict(segs, staying)
<1>1. DOMAIN kept = staying /\ \A i \in staying : kept[i] = segs[i]
  BY DEF Restrict
<1>2. kept \in SegMaps
  <2>1. PICK D \in SUBSET Nat : segs \in [D -> Segment]
    BY DEF SegMaps
  <2>2. kept \in [staying -> Segment] /\ staying \in SUBSET Nat
    BY <2>1 DEF Restrict
  <2> QED
    BY <2>2 DEF SegMaps
<1>3. Restrict(kept, staying) = kept
  BY DEF Restrict
<1> HIDE DEF kept
<1>4. SoundIn(kept, maxId, maxFile)
  BY <1>1 DEF SoundIn
<1>5. FilesOf(kept) \subseteq FilesOf(segs) /\ InMemory(kept) \subseteq InMemory(segs)
  BY <1>1 DEF FilesOf, InMemory
<1> QED
  BY <1>1, <1>2, <1>3, <1>4, <1>5 DEF kept

\* A segment with an id and a file that segs does not have.
Fits(segs, i, segment, maxId, maxFile) ==
  /\ segs \in SegMaps /\ maxId \in Nat /\ maxFile \in Nat /\ SoundIn(segs, maxId, maxFile)
  /\ i \in (1 .. maxId) \ DOMAIN segs /\ segment \in Segment
  /\ segment.file \in (0 .. maxFile) \ FilesOf(segs)

\* And segs with it.
HasPut(new, segs, i, segment, maxId, maxFile) ==
  /\ new \in SegMaps /\ DOMAIN new = DOMAIN segs \cup {i}
  /\ FilesOf(new) = FilesOf(segs) \cup ({segment.file} \ {0})
  /\ SoundIn(new, maxId, maxFile)
  /\ segment.kind # "mem" => InMemory(new) = InMemory(segs)
  /\ FilesOf(Restrict(new, DOMAIN segs)) = FilesOf(segs)

\* A segment with a new id and a new file leaves them sound.
LEMMA Putting ==
  ASSUME NEW segs, NEW i, NEW segment, NEW maxId, NEW maxFile,
         Fits(segs, i, segment, maxId, maxFile)
  PROVE  HasPut(Put(segs, i, segment), segs, i, segment, maxId, maxFile)
<1> USE DEF Fits
<1> DEFINE new == Put(segs, i, segment)
<1>1. /\ DOMAIN new = DOMAIN segs \cup {i} /\ new[i] = segment
      /\ \A j \in DOMAIN segs : new[j] = segs[j]
  BY DEF Put
<1>2. new \in SegMaps
  <2>1. PICK D \in SUBSET Nat : segs \in [D -> Segment]
    BY DEF SegMaps
  <2>2. D = DOMAIN segs /\ D \cup {i} \in SUBSET Nat /\ \A j \in D : segs[j] \in Segment
    BY <2>1
  <2>3. new \in [D \cup {i} -> Segment]
    BY <2>2 DEF Put
  <2> QED
    BY <2>2, <2>3 DEF SegMaps
<1> HIDE DEF new
<1>3. FilesOf(new) = FilesOf(segs) \cup ({segment.file} \ {0})
  BY <1>1 DEF FilesOf
<1>4. SoundIn(new, maxId, maxFile)
  <2>1. DOMAIN new \subseteq 1 .. maxId
    BY <1>1 DEF SoundIn
  <2>2. \A j \in DOMAIN new : new[j].file \in 0 .. maxFile
    BY <1>1 DEF SoundIn
  <2>3. \A j \in DOMAIN segs : segs[j].file # 0 => segs[j].file # segment.file
    BY DEF FilesOf
  <2>4. \A j, k \in DOMAIN new : new[j].file = new[k].file /\ new[j].file # 0 => j = k
    BY <1>1, <2>3 DEF SoundIn
  <2> QED
    BY <2>1, <2>2, <2>4 DEF SoundIn
<1>5. segment.kind # "mem" => InMemory(new) = InMemory(segs)
  BY <1>1 DEF InMemory
<1>6. FilesOf(Restrict(new, DOMAIN segs)) = FilesOf(segs)
  BY <1>1 DEF FilesOf, Restrict
<1> QED
  BY <1>1, <1>2, <1>3, <1>4, <1>5, <1>6 DEF new, HasPut

\* What the root has.
LEMMA RootSegments ==
  ASSUME IInv, root # 0
  PROVE  /\ root \in 1 .. Len(snapshots) /\ Segs = snapshots[root].segs
         /\ Segs \in SegMaps /\ SoundIn(Segs, ids, Len(files))
         /\ FilesOf(persisted) \cap FilesOf(Segs) = {}
<1>1. root \in 1 .. Len(snapshots) /\ Segs = snapshots[root].segs
  BY Shapes DEF IInv, Places, Segs
<1> QED
  BY <1>1, Shapes DEF IInv, Distinct, Sound

\* A loop that does not move uses no snapshot to come.
LEMMA NotYetHeld ==
  ASSUME IInv, NEW l \in Loops, work'[l] = work[l]
  PROVE  /\ \A m : Holds(l, m)' = Holds(l, m)
         /\ \A n : n = Len(snapshots) + 1 => Holds(l, n)' = 0
         /\ Published(l)' => work'[l].new \in 1 .. Len(snapshots)
<1>1. /\ work[l].snap \in 0 .. Len(snapshots) /\ Len(snapshots) \in Nat
      /\ Published(l) => work[l].new \in 1 .. Len(snapshots)
  BY Shapes DEF IInv, Named
<1>2. \A n : n = Len(snapshots) + 1 => work[l].snap # n /\ ~ (Published(l) /\ work[l].new = n)
  BY <1>1
<1>3. \A m : Holds(l, m)' = Holds(l, m)
  BY DEF Holds, Published
<1>4. \A n : n = Len(snapshots) + 1 => Holds(l, n) = 0
  BY <1>2 DEF Holds, One
<1> QED
  BY <1>1, <1>3, <1>4 DEF Published

\* A batch leaves out the segments it empties and adds one in memory.
LEMMA IntroduceSegmentKeeps == ASSUME IInv, NEW emptied, IntroduceSegment(emptied) PROVE IInv'
<1> DEFINE staying == DOMAIN Segs \ emptied
           kept    == Restrict(Segs, staying)
           segs    == Put(kept, ids + 1, Mem)
<1>1. /\ introducer.pc = "idle" /\ closer = "open" /\ ReplaceRoot(segs, staying, 1)
      /\ ids' = ids + 1
      /\ UNCHANGED <<introducer, persisted, work, last, reader, retrying, closer, interrupted,
                     faults>>
  BY DEF IntroduceSegment, life
<1>2. /\ root # 0 /\ ids \in Nat /\ Len(files) \in Nat /\ work' \in [Loops -> Works]
      /\ introducer' = [pc |-> "idle", todo |-> {}, segs |-> <<>>]
  BY <1>1, Shapes DEF IInv, Typed, Places
<1>3. /\ Segs \in SegMaps /\ SoundIn(Segs, ids, Len(files))
      /\ FilesOf(persisted) \cap FilesOf(Segs) = {}
      /\ root \in 1 .. Len(snapshots) /\ Segs = snapshots[root].segs
  BY <1>2, RootSegments
<1>4. staying \in SUBSET DOMAIN Segs /\ DOMAIN Segs \subseteq 1 .. ids
  BY <1>3 DEF SoundIn
<1> HIDE DEF staying
<1>5. /\ kept \in SegMaps /\ DOMAIN kept = staying /\ SoundIn(kept, ids, Len(files))
      /\ FilesOf(kept) \subseteq FilesOf(Segs)
  BY <1>2, <1>3, <1>4, Keeping
<1> HIDE DEF kept
<1>6. /\ segs \in SegMaps /\ DOMAIN segs = staying \cup {ids + 1} /\ FilesOf(segs) = FilesOf(kept)
      /\ SoundIn(segs, ids', Len(files)) /\ FilesOf(Restrict(segs, staying)) = FilesOf(kept)
  <2> DEFINE next == ids + 1
  <2>1. Mem \in Segment /\ Mem.file = 0 /\ next \in Nat /\ next \notin DOMAIN kept
    BY <1>2, <1>4, <1>5 DEF Mem, Segment
  <2>2. Mem.file \notin FilesOf(kept) /\ Mem.file \in 0 .. Len(files)
    BY <1>2, <2>1, NoFiles
  <2>3. SoundIn(kept, next, Len(files)) /\ next \in 1 .. next
    BY <1>2, <1>5 DEF SoundIn
  <2> HIDE DEF next
  <2>5. Fits(kept, next, Mem, next, Len(files))
    BY <1>2, <1>5, <2>1, <2>2, <2>3 DEF Fits
  <2>4. HasPut(Put(kept, next, Mem), kept, next, Mem, next, Len(files))
    BY <2>5, Putting
  <2> QED
    BY <1>1, <1>5, <2>1, <2>4 DEF next, HasPut
<1> HIDE DEF segs
<1>7. ASSUME NEW l \in Loops
      PROVE  /\ work'[l] = work[l]
             /\ Published(l)' => work'[l].new \in 1 .. Len(snapshots) + 1
             /\ Unplaced(l)' => Unplaced(l) /\ work[l].file \notin FilesOf(segs)
             /\ work[l].pc = "merged" => work[l].new \notin DOMAIN segs
             /\ \A m : Holds(l, m)' = Holds(l, m)
             /\ \A n : n = Len(snapshots) + 1 => Holds(l, n)' = 0
             /\ \A f : Has(l, f)' = Has(l, f) /\ Has(l, f) \in Nat
  <2>1. work'[l] = work[l]
    BY <1>1
  <2>2. (Unplaced(l)' <=> Unplaced(l)) /\ \A f : Has(l, f)' = Has(l, f) /\ Has(l, f) \in Nat
    BY <2>1 DEF Unplaced, Has, One
  <2>3. Unplaced(l) => work[l].file \notin FilesOf(Segs)
    BY <1>3 DEF IInv, OwnMerges
  <2>4. work[l].pc = "merged" => work[l].new \in 1 .. ids /\ work[l].new \notin DOMAIN Segs
    BY DEF IInv, OwnMerges
  <2>5. Published(l)' => work'[l].new \in 1 .. Len(snapshots) + 1
    BY <2>1, NotYetHeld, Shapes
  <2> QED
    BY <1>2, <1>4, <1>5, <1>6, <2>1, <2>2, <2>3, <2>4, <2>5, NotYetHeld
<1>8. \A n : n = Len(snapshots) + 1 => Holds("persister", n)' + Holds("merger", n)' = 1 - 1
  BY <1>7 DEF Loops
<1>9. \A f \in 1 .. Len(files) :
        One(f \in FilesOf(Restrict(segs, staying))) - One(f \in FilesOf(segs))
          = Has("persister", f)' - Has("persister", f) + Has("merger", f)' - Has("merger", f)
              - One(f \in FilesOf(introducer.segs))
  <2> TAKE f \in 1 .. Len(files)
  <2>1. One(f \in FilesOf(introducer.segs)) = 0
    BY <1>1, <1>2, NoSegments DEF One
  <2>2. One(f \in FilesOf(Restrict(segs, staying))) - One(f \in FilesOf(segs)) = 0
    BY <1>6 DEF One
  <2> QED
    BY <1>7, <2>1, <2>2 DEF Loops
<1>10. FilesOf(persisted) \cap FilesOf(segs) = {} /\ ids' \in Nat /\ ids <= ids'
  BY <1>1, <1>2, <1>3, <1>5, <1>6
<1>11. ReplacesRoot(segs, staying, 1)
  <2>1. /\ root # 0 /\ segs \in SegMaps /\ 1 \in Nat \ {0} /\ ReplaceRoot(segs, staying, 1)
        /\ UNCHANGED <<persisted, last, reader, retrying, closer, interrupted, faults>>
        /\ introducer.pc # "stopped" /\ work' = work
        /\ closer = "closing" /\ ~ interrupted => InMemory(segs) = {}
    BY <1>1, <1>2, <1>6
  <2>2. \A l \in Loops :
          /\ work'[l].snap = work[l].snap
          /\ work'[l].pc \in {"idle", "stopped"} <=> work[l].pc \in {"idle", "stopped"}
          /\ Published(l)' => work'[l].new \in 1 .. Len(snapshots) + 1
          /\ Unplaced(l)' => /\ Unplaced(l) /\ work'[l].file = work[l].file
                             /\ work[l].file \notin FilesOf(segs)
          /\ work'[l].pc = "merged" => /\ work[l].pc = "merged" /\ work'[l].new = work[l].new
                                       /\ work[l].new \notin DOMAIN segs
          /\ \A m \in 1 .. Len(snapshots) : Holds(l, m)' = Holds(l, m)
    BY <1>7
  <2>3. /\ work'["persister"].pc \in {"sending", "waiting", "writing"}
             <=> work["persister"].pc \in {"sending", "waiting", "writing"}
        /\ work'["persister"].pc \in {"sending", "waiting", "writing"} =>
             work'["persister"] = work["persister"]
    BY <2>1
  <2> QED
    BY <1>2, <1>6, <1>8, <1>9, <1>10, <2>1, <2>2, <2>3, Zenon DEF ReplacesRoot
<1> QED
  BY <1>11, RootStep

\* The root that the introducer built takes over the files it had.
LEMMA IntroducePersistKeeps == ASSUME IInv, IntroducePersist PROVE IInv'
<1> DEFINE segs == introducer.segs
<1>1. /\ introducer.pc = "persist" /\ introducer.todo = {} /\ ReplaceRoot(segs, {}, 1)
      /\ introducer' = [pc |-> "idle", todo |-> {}, segs |-> <<>>]
      /\ UNCHANGED <<ids, persisted, work, last, reader, retrying, closer, interrupted, faults>>
  BY DEF IntroducePersist, life
<1>2. /\ root # 0 /\ ids \in Nat /\ Len(files) \in Nat /\ work' \in [Loops -> Works]
      /\ closer # "closed"
  BY <1>1, Shapes DEF IInv, Typed, Places
<1>3. /\ segs \in SegMaps /\ DOMAIN segs \subseteq DOMAIN Segs
      /\ SoundIn(segs, ids', Len(files)) /\ FilesOf(persisted) \cap FilesOf(segs) = {}
  BY <1>1 DEF IInv, Typed, Places, Distinct, Sound
<1> HIDE DEF segs
<1>4. closer = "closing" /\ ~ interrupted => InMemory(segs) = {}
  BY <1>1 DEF IInv, Drains
<1>5. ASSUME NEW l \in Loops
      PROVE  /\ work'[l] = work[l]
             /\ Published(l)' => work'[l].new \in 1 .. Len(snapshots) + 1
             /\ Unplaced(l)' => Unplaced(l) /\ work[l].file \notin FilesOf(segs)
             /\ work[l].pc = "merged" => work[l].new \notin DOMAIN segs
             /\ \A m : Holds(l, m)' = Holds(l, m)
             /\ \A n : n = Len(snapshots) + 1 => Holds(l, n)' = 0
             /\ \A f : Has(l, f)' = Has(l, f) /\ Has(l, f) \in Nat
  <2>1. work'[l] = work[l]
    BY <1>1
  <2>2. (Unplaced(l)' <=> Unplaced(l)) /\ \A f : Has(l, f)' = Has(l, f) /\ Has(l, f) \in Nat
    BY <2>1 DEF Unplaced, Has, One
  <2>3. Unplaced(l) => work[l].file \notin FilesOf(segs)
    BY DEF IInv, OwnMerges, segs
  <2>4. work[l].pc = "merged" => work[l].new \notin DOMAIN Segs
    BY DEF IInv, OwnMerges
  <2>5. Published(l)' => work'[l].new \in 1 .. Len(snapshots) + 1
    BY <2>1, NotYetHeld, Shapes
  <2> QED
    BY <1>3, <2>1, <2>2, <2>3, <2>4, <2>5, NotYetHeld
<1>6. \A n : n = Len(snapshots) + 1 => Holds("persister", n)' + Holds("merger", n)' = 1 - 1
  BY <1>5 DEF Loops
<1>7. \A f \in 1 .. Len(files) :
        One(f \in FilesOf(Restrict(segs, {}))) - One(f \in FilesOf(segs))
          = Has("persister", f)' - Has("persister", f) + Has("merger", f)' - Has("merger", f)
              - One(f \in FilesOf(introducer.segs))
  <2> TAKE f \in 1 .. Len(files)
  <2>1. One(f \in FilesOf(introducer.segs)) = One(f \in FilesOf(segs)) /\ One(f \in FilesOf(segs)) \in Nat
    BY DEF One, segs
  <2>2. One(f \in FilesOf(Restrict(segs, {}))) = 0
    BY DEF One, FilesOf, Restrict
  <2> QED
    BY <1>5, <2>1, <2>2 DEF Loops
<1>8. \A l \in Loops :
        /\ work'[l].snap = work[l].snap
        /\ work'[l].pc \in {"idle", "stopped"} <=> work[l].pc \in {"idle", "stopped"}
        /\ Published(l)' => work'[l].new \in 1 .. Len(snapshots) + 1
        /\ Unplaced(l)' => /\ Unplaced(l) /\ work'[l].file = work[l].file
                           /\ work[l].file \notin FilesOf(segs)
        /\ work'[l].pc = "merged" => /\ work[l].pc = "merged" /\ work'[l].new = work[l].new
                                     /\ work[l].new \notin DOMAIN segs
        /\ \A m \in 1 .. Len(snapshots) : Holds(l, m)' = Holds(l, m)
  BY <1>5
<1>9. ReplacesRoot(segs, {}, 1)
  <2>1. /\ 1 \in Nat \ {0} /\ ReplaceRoot(segs, {}, 1)
        /\ UNCHANGED <<persisted, last, reader, retrying, closer, interrupted, faults>>
        /\ introducer' = [pc |-> "idle", todo |-> {}, segs |-> <<>>]
        /\ introducer.pc # "stopped" /\ work' = work /\ ids' \in Nat /\ ids <= ids'
    BY <1>1, <1>2 DEF segs
  <2>2. /\ work'["persister"].pc \in {"sending", "waiting", "writing"}
             <=> work["persister"].pc \in {"sending", "waiting", "writing"}
        /\ work'["persister"].pc \in {"sending", "waiting", "writing"} =>
             work'["persister"] = work["persister"]
    BY <2>1
  <2> QED
    BY <1>2, <1>3, <1>4, <1>6, <1>7, <1>8, <2>1, <2>2, Zenon DEF ReplacesRoot
<1> QED
  BY <1>9, RootStep

\* A merge replaces what it merged, unless it came too late and is skipped.
LEMMA IntroduceMergeKeeps ==
  ASSUME IInv, NEW l \in Loops, NEW skipped \in BOOLEAN, IntroduceMerge(l, skipped)
  PROVE  IInv'
<1> DEFINE staying == DOMAIN Segs \ work[l].old
           kept    == Restrict(Segs, staying)
           merged  == File(work[l].file)
           segs    == IF skipped THEN kept ELSE Put(kept, work[l].new, merged)
           other   == OtherLoop(l)
           pc      == IF skipped THEN "skipped" ELSE "introduced"
           next    == Len(snapshots) + 1
           new     == [work[l] EXCEPT !.pc = pc, !.new = next]
<1>1. /\ work[l].pc = "merged" /\ introducer.pc = "idle" /\ ReplaceRoot(segs, staying, 2)
      /\ work' = [work EXCEPT ![l].pc = IF skipped THEN "skipped" ELSE "introduced",
                              ![l].new = root']
      /\ UNCHANGED <<ids, introducer, persisted, last, reader, retrying, closer, interrupted,
                     faults>>
  BY DEF IntroduceMerge, life
<1>2. /\ root # 0 /\ ids \in Nat /\ Len(files) \in Nat /\ closer # "closed"
      /\ introducer' = [pc |-> "idle", todo |-> {}, segs |-> <<>>]
      /\ introducer.segs = <<>> /\ root' = Len(snapshots) + 1 /\ Len(snapshots) \in Nat
  BY <1>1, Shapes DEF IInv, Typed, Places, ReplaceRoot
<1>3. /\ other \in Loops /\ other # l /\ (\A k \in Loops : k = l \/ k = other)
      /\ (l = "persister" /\ other = "merger") \/ (l = "merger" /\ other = "persister")
  BY DEF OtherLoop, Loops
<1>4. /\ work[l] \in Works /\ work' \in [Loops -> Works]
      /\ work'[l].pc = (IF skipped THEN "skipped" ELSE "introduced")
      /\ work'[l].new = Len(snapshots) + 1 /\ work'[l].snap = work[l].snap
      /\ work'[l].file = work[l].file /\ work'[other] = work[other]
  <2>1. work \in [Loops -> Works] /\ work[l] \in Works
    BY DEF IInv, Typed
  <2>2. /\ new \in Works /\ new.pc = pc
        /\ new.new = next /\ new.snap = work[l].snap /\ new.file = work[l].file
    <3>1. pc \in {"skipped", "introduced"} /\ next \in Nat
      BY <1>2
    <3> HIDE DEF pc, next
    <3> QED
      BY <2>1, <3>1 DEF Works
  <2>3. work' = [work EXCEPT ![l] = new]
    BY <1>1, <1>2, <2>1
  <2> HIDE DEF new, other
  <2> QED
    BY <1>3, <2>1, <2>2, <2>3
<1> HIDE DEF other, new, pc, next
<1>5. /\ Segs \in SegMaps /\ SoundIn(Segs, ids, Len(files))
      /\ FilesOf(persisted) \cap FilesOf(Segs) = {}
      /\ root \in 1 .. Len(snapshots) /\ Segs = snapshots[root].segs
  BY <1>2, RootSegments
<1>6. /\ work[l].file \in 1 .. Len(files) /\ work[l].file \notin FilesOf(Segs)
      /\ work[l].file \notin FilesOf(persisted)
      /\ work[l].new \in 1 .. ids /\ work[l].new \notin DOMAIN Segs
  BY <1>1, <1>5 DEF IInv, OwnMerges, Unplaced
<1>7. staying \in SUBSET DOMAIN Segs
  OBVIOUS
<1> HIDE DEF staying
<1>8. /\ kept \in SegMaps /\ DOMAIN kept = staying /\ SoundIn(kept, ids, Len(files))
      /\ FilesOf(kept) \subseteq FilesOf(Segs) /\ InMemory(kept) \subseteq InMemory(Segs)
      /\ Restrict(kept, staying) = kept
  BY <1>2, <1>5, <1>7, Keeping
<1> HIDE DEF kept
<1>9. /\ segs \in SegMaps /\ DOMAIN segs \subseteq staying \cup {work[l].new}
      /\ FilesOf(segs) = FilesOf(kept) \cup (IF skipped THEN {} ELSE {work[l].file})
      /\ SoundIn(segs, ids, Len(files)) /\ InMemory(segs) \subseteq InMemory(Segs)
      /\ FilesOf(Restrict(segs, staying)) = FilesOf(kept)
  <2>1. CASE skipped
    BY <1>8, <2>1
  <2>2. CASE ~ skipped
    <3>1. merged \in Segment /\ merged.file = work[l].file /\ merged.kind # "mem"
      BY <1>6 DEF File, Segment
    <3> HIDE DEF merged
    <3>2. Fits(kept, work[l].new, merged, ids, Len(files))
      BY <1>2, <1>6, <1>7, <1>8, <3>1 DEF Fits
    <3>3. HasPut(Put(kept, work[l].new, merged), kept, work[l].new, merged, ids, Len(files))
      BY <3>2, Putting
    <3>4. segs = Put(kept, work[l].new, merged) /\ {merged.file} \ {0} = {work[l].file}
      BY <1>6, <2>2, <3>1
    <3> QED
      BY <1>8, <2>2, <3>1, <3>3, <3>4 DEF HasPut
  <2> QED
    BY <2>1, <2>2
<1> HIDE DEF segs
<1>10. /\ Published(l)' /\ ~ Published(l) /\ Unplaced(l) /\ (Unplaced(l)' <=> skipped)
       /\ work'[l].pc \in {"skipped", "introduced"}
  BY <1>1, <1>4 DEF Published, Unplaced
<1>11. /\ \A m \in 1 .. Len(snapshots) : Holds(l, m)' = Holds(l, m)
       /\ \A n : n = Len(snapshots) + 1 => Holds(l, n)' = 1
  <2>1. work[l].snap \in 0 .. Len(snapshots)
    BY Shapes
  <2>2. ASSUME NEW m \in 1 .. Len(snapshots)
        PROVE  Holds(l, m)' = Holds(l, m)
    <3>1. m # Len(snapshots) + 1
      BY <1>2
    <3> QED
      BY <1>4, <1>10, <3>1 DEF Holds, One
  <2>3. ASSUME NEW n, n = Len(snapshots) + 1
        PROVE  Holds(l, n)' = 1
    <3>1. work[l].snap # n
      BY <1>2, <2>1, <2>3
    <3> QED
      BY <1>4, <1>10, <2>3, <3>1 DEF Holds, One
  <2> QED
    BY <2>2, <2>3
<1>12. /\ Published(other)' => work'[other].new \in 1 .. Len(snapshots) + 1
       /\ Unplaced(other)' => Unplaced(other) /\ work[other].file \notin FilesOf(segs)
       /\ work[other].pc = "merged" => work[other].new \notin DOMAIN segs
       /\ \A m : Holds(other, m)' = Holds(other, m)
       /\ \A n : n = Len(snapshots) + 1 => Holds(other, n)' = 0
       /\ \A f : Has(other, f)' = Has(other, f) /\ Has(other, f) \in Nat
  <2>1. (Unplaced(other)' <=> Unplaced(other)) /\ \A f : Has(other, f)' = Has(other, f) /\ Has(other, f) \in Nat
    BY <1>4 DEF Unplaced, Has, One
  <2>2. Unplaced(other) => work[other].file \notin FilesOf(Segs) /\ work[other].file # work[l].file
    BY <1>3, <1>5, <1>10 DEF IInv, OwnMerges, other
  <2>3. work[other].pc = "merged" => work[other].new \notin DOMAIN Segs /\ work[other].new # work[l].new
    BY <1>1, <1>3 DEF IInv, OwnMerges, other
  <2>4. Published(other)' => work'[other].new \in 1 .. Len(snapshots) + 1
    BY <1>3, <1>4, NotYetHeld, Shapes
  <2> QED
    BY <1>3, <1>4, <1>7, <1>8, <1>9, <2>1, <2>2, <2>3, <2>4, NotYetHeld
<1>13. \A n : n = Len(snapshots) + 1 => Holds("persister", n)' + Holds("merger", n)' = 2 - 1
  <2> TAKE n
  <2> HAVE n = Len(snapshots) + 1
  <2>1. Holds(l, n)' = 1 /\ Holds(other, n)' = 0
    BY <1>11, <1>12
  <2> QED
    BY <1>3, <2>1
<1>14. \A f \in 1 .. Len(files) :
         One(f \in FilesOf(Restrict(segs, staying))) - One(f \in FilesOf(segs))
           = Has("persister", f)' - Has("persister", f) + Has("merger", f)' - Has("merger", f)
               - One(f \in FilesOf(introducer.segs))
  <2> TAKE f \in 1 .. Len(files)
  <2>1. One(f \in FilesOf(introducer.segs)) = 0
    BY <1>2, NoSegments DEF One
  <2>2. One(f \in FilesOf(Restrict(segs, staying))) - One(f \in FilesOf(segs))
          = Has(l, f)' - Has(l, f)
    BY <1>4, <1>6, <1>8, <1>9, <1>10 DEF One, Has
  <2>3. Has(l, f) \in Nat /\ Has(l, f)' \in Nat
    BY DEF Has, One
  <2>4. Has(other, f)' = Has(other, f) /\ Has(other, f) \in Nat
    BY <1>12
  <2>6. CASE l = "persister" /\ other = "merger"
    BY <2>1, <2>2, <2>3, <2>4, <2>6
  <2>7. CASE l = "merger" /\ other = "persister"
    BY <2>1, <2>2, <2>3, <2>4, <2>7
  <2> QED
    BY <1>3, <2>6, <2>7
<1>15. \A k \in Loops :
         /\ work'[k].snap = work[k].snap
         /\ work'[k].pc \in {"idle", "stopped"} <=> work[k].pc \in {"idle", "stopped"}
         /\ Published(k)' => work'[k].new \in 1 .. Len(snapshots) + 1
         /\ Unplaced(k)' => /\ Unplaced(k) /\ work'[k].file = work[k].file
                            /\ work[k].file \notin FilesOf(segs)
         /\ work'[k].pc = "merged" => /\ work[k].pc = "merged" /\ work'[k].new = work[k].new
                                      /\ work[k].new \notin DOMAIN segs
         /\ \A m \in 1 .. Len(snapshots) : Holds(k, m)' = Holds(k, m)
  <2> TAKE k \in Loops
  <2>1. CASE k = l
    <3>1. Unplaced(l)' => work[l].file \notin FilesOf(segs)
      BY <1>6, <1>8, <1>9, <1>10
    <3> QED
      BY <1>1, <1>2, <1>4, <1>10, <1>11, <2>1, <3>1
  <2>2. CASE k = other
    BY <1>3, <1>4, <1>12, <2>2
  <2> QED
    BY <1>3, <2>1, <2>2
<1>16. ReplacesRoot(segs, staying, 2)
  <2>1. /\ 2 \in Nat \ {0} /\ ReplaceRoot(segs, staying, 2)
        /\ UNCHANGED <<persisted, last, reader, retrying, closer, interrupted, faults>>
        /\ introducer.pc # "stopped" /\ ids' \in Nat /\ ids <= ids'
    BY <1>1, <1>2 DEF segs
  <2>2. /\ work'["persister"].pc \in {"sending", "waiting", "writing"}
             <=> work["persister"].pc \in {"sending", "waiting", "writing"}
        /\ work'["persister"].pc \in {"sending", "waiting", "writing"} =>
             work'["persister"] = work["persister"]
    <3>1. CASE l = "persister"
      BY <1>1, <1>10, <3>1
    <3>2. CASE other = "persister"
      BY <1>3, <1>4, <3>2
    <3> QED
      BY <1>3, <3>1, <3>2
  <2>3. SoundIn(segs, ids', Len(files)) /\ FilesOf(persisted) \cap FilesOf(segs) = {}
    BY <1>1, <1>5, <1>6, <1>8, <1>9
  <2>4. closer = "closing" /\ ~ interrupted => InMemory(segs) = {}
    BY <1>9 DEF IInv, Drains
  <2> QED
    BY <1>2, <1>4, <1>9, <1>13, <1>14, <1>15, <2>1, <2>2, <2>3, <2>4, Zenon DEF ReplacesRoot
<1> QED
  BY <1>16, RootStep

-----------------------------------------------------------------------------
(* New files *)

\* Nobody has a file that is not loaded yet.
LEMMA NotYetLoaded ==
  ASSUME IInv, NEW f, f \notin 1 .. Len(files)
  PROVE  /\ \A n \in 1 .. Len(snapshots) : f \notin FilesOf(snapshots[n].segs)
         /\ f \notin FilesOf(persisted) /\ f \notin FilesOf(introducer.segs)
         /\ \A l \in Loops : Unplaced(l) => work[l].file # f
<1>1. \A segs : Sound(segs) => f \notin FilesOf(segs)
  BY Shapes DEF Sound, SoundIn, FilesOf
<1>2. \A l \in Loops : Unplaced(l) => work[l].file \in 1 .. Len(files)
  BY DEF IInv, OwnMerges
<1> QED
  BY <1>1, <1>2 DEF IInv, Distinct

\* A step of a loop that loads files: a merge's, or those the persister shares.
Grows(l) ==
  /\ UNCHANGED <<snapshots, root, introducer, last, reader, retrying, closer, interrupted, faults>>
  /\ work'[OtherLoop(l)] = work[OtherLoop(l)] /\ work' \in [Loops -> Works]
  /\ work[l].pc \in {"working", "direct"} /\ work'[l].pc \in {"merged", "sending", "writing"}
  /\ work'[l].pc # "merged" => l = "persister"
  /\ work'[l].snap = work[l].snap
  /\ ids' \in Nat /\ ids <= ids' /\ files' \in Seq(Int) /\ Len(files) <= Len(files')
  /\ \A f \in 1 .. Len(files) : files'[f] = files[f]
  /\ \A f \in 1 .. Len(files') : f \notin 1 .. Len(files) =>
       files'[f] = 1 /\ Has(l, f)' + MapHas(f)' = 1
  /\ \A f \in 1 .. Len(files) : Has(l, f)' = 0 /\ MapHas(f)' = MapHas(f)
  /\ persisted' \in SegMaps /\ SoundIn(persisted', ids', Len(files'))
  /\ \A f \in FilesOf(persisted') : f \in FilesOf(persisted) \/ f \notin 1 .. Len(files)
  /\ work'[l].pc = "merged" =>
       /\ work'[l].file \in 1 .. Len(files') /\ work'[l].file \notin 1 .. Len(files)
       /\ work'[l].file \notin FilesOf(persisted')
       /\ work'[l].new \in 1 .. ids' /\ work'[l].new \notin 1 .. ids
  /\ l = "persister" /\ work'[l].pc = "writing" => InMemory(Mine(l)) = {}
  /\ HasMap' => HasMap \/ InMemory(Mine("persister")) # {}

\* Loading files keeps the invariant when each has exactly one owner.
LEMMA GrowStep == ASSUME IInv, NEW l \in Loops, Grows(l) PROVE IInv'
<1> USE DEF Grows
<1> DEFINE other == OtherLoop(l)   L == Len(files)
<1>1. /\ other \in Loops /\ other # l /\ (\A k \in Loops : k = l \/ k = other)
      /\ OtherLoop(other) = l
      /\ (l = "persister" /\ other = "merger") \/ (l = "merger" /\ other = "persister")
  BY DEF OtherLoop, Loops
<1>2. L \in Nat /\ Len(files') \in Nat /\ ids \in Nat /\ work[l] \in Works
  BY Shapes DEF IInv, Typed
<1>3. work'[other] = work[other] /\ (Unplaced(other)' <=> Unplaced(other))
      /\ (Published(other)' <=> Published(other))
  BY DEF Unplaced, Published
<1> HIDE DEF other
<1>4. /\ ~ Published(l) /\ ~ Published(l)' /\ ~ Unplaced(l) /\ (Unplaced(l)' <=> work'[l].pc = "merged")
  BY DEF Published, Unplaced
<1>5. Segs' = Segs /\ \A k \in Loops : work'[k].snap = work[k].snap /\ Mine(k)' = Mine(k)
  BY <1>1, <1>3 DEF Segs, Mine
<1>6. \A k \in Loops : \A n : Holds(k, n)' = Holds(k, n)
  BY <1>1, <1>3, <1>4, <1>5 DEF Holds
<1>7. Counted'
  <2>1. \A n : Users(n)' = Users(n) /\ ReadersOf(n)' = ReadersOf(n)
    BY <1>6 DEF Users, ReadersOf, Loops
  <2> QED
    BY <2>1 DEF Counted, IInv
<1>8. Places'
  <2>1. \A k \in Loops : work'[k].pc \in {"idle", "stopped"} <=> work'[k].snap = 0
    BY <1>1, <1>3, <1>5 DEF IInv, Places
  <2>2. closer # "closed"
    BY DEF IInv, Places
  <2> QED
    BY <1>5, <2>1, <2>2 DEF IInv, Places
<1>9. Named'
  BY <1>1, <1>3, <1>4, <1>5 DEF IInv, Named
<1>10. \A segs : SoundIn(segs, ids, L) => SoundIn(segs, ids', Len(files'))
  BY <1>2 DEF SoundIn
<1>11. \A f \in FilesOf(persisted') :
         /\ \A n \in 1 .. Len(snapshots) : f \notin FilesOf(snapshots[n].segs)
         /\ f \notin FilesOf(introducer.segs)
         /\ \A k \in Loops : Unplaced(k) => work[k].file # f
  <2> TAKE f \in FilesOf(persisted')
  <2>1. CASE f \in FilesOf(persisted)
    BY <2>1 DEF IInv, Distinct, OwnMerges
  <2>2. CASE f \notin 1 .. Len(files)
    BY <2>2, NotYetLoaded
  <2> QED
    BY <2>1, <2>2
<1>12. Distinct'
  <2>1. \A n \in 1 .. Len(snapshots) : Sound(snapshots[n].segs)'
    BY <1>10 DEF IInv, Distinct, Sound
  <2>2. Sound(introducer.segs)' /\ Sound(persisted)'
    BY <1>10 DEF IInv, Distinct, Sound
  <2>3. \A i \in DOMAIN introducer.segs :
          introducer.segs[i] = Segs[i] \/ introducer.segs[i].file \notin FilesOf(Segs)
    BY DEF IInv, Distinct
  <2> QED
    BY <1>5, <1>11, <2>1, <2>2, <2>3 DEF Distinct
<1>13. ASSUME NEW k \in Loops, Unplaced(k)'
       PROVE  /\ work'[k].file \in 1 .. Len(files')
              /\ \A n \in 1 .. Len(snapshots') : work'[k].file \notin FilesOf(snapshots'[n].segs)
              /\ work'[k].file \notin FilesOf(persisted') \cup FilesOf(introducer'.segs)
              /\ Unplaced(OtherLoop(k))' => work'[OtherLoop(k)].file # work'[k].file
  <2>1. CASE k = l
    <3>1. work'[l].file \notin 1 .. L /\ work'[l].file \in 1 .. Len(files')
          /\ work'[l].file \notin FilesOf(persisted')
      BY <1>4, <1>13, <2>1
    <3>2. Unplaced(other)' => work[other].file # work'[l].file
      BY <1>1, <1>3, <3>1, NotYetLoaded
    <3> QED
      BY <1>1, <1>3, <2>1, <3>1, <3>2, NotYetLoaded DEF other
  <2>2. CASE k = other
    <3>1. Unplaced(other) /\ work'[other].file = work[other].file
      BY <1>3, <1>13, <2>2
    <3>2. /\ work[other].file \in 1 .. L
          /\ \A n \in 1 .. Len(snapshots) : work[other].file \notin FilesOf(snapshots[n].segs)
          /\ work[other].file \notin FilesOf(introducer.segs)
      BY <1>1, <3>1 DEF IInv, OwnMerges
    <3>3. Unplaced(l)' => work'[l].file # work[other].file
      BY <1>4, <3>2
    <3>4. work[other].file \notin FilesOf(persisted')
      BY <1>1, <1>11, <3>1
    <3> QED
      BY <1>1, <1>2, <2>2, <3>1, <3>2, <3>3, <3>4
  <2> QED
    BY <1>1, <2>1, <2>2
<1>14. ASSUME NEW k \in Loops, work'[k].pc = "merged"
       PROVE  /\ work'[k].new \in 1 .. ids' /\ work'[k].new \notin DOMAIN Segs
              /\ work'[OtherLoop(k)].pc = "merged" => work'[OtherLoop(k)].new # work'[k].new
  <2>1. DOMAIN Segs \subseteq 1 .. ids
    BY RootSegments, NoSegments DEF SoundIn, Segs
  <2>2. work[other].pc = "merged" => work[other].new \in 1 .. ids /\ work[other].new \notin DOMAIN Segs
    BY <1>1 DEF IInv, OwnMerges
  <2>3. work'[l].pc = "merged" => work'[l].new \in 1 .. ids' /\ work'[l].new \notin 1 .. ids
    OBVIOUS
  <2>4. CASE k = l
    BY <1>3, <1>14, <2>1, <2>2, <2>3, <2>4 DEF other
  <2>5. CASE k = other
    BY <1>1, <1>2, <1>3, <1>14, <2>1, <2>2, <2>3, <2>5
  <2> QED
    BY <1>1, <2>4, <2>5
<1>15. OwnMerges'
  BY <1>5, <1>13, <1>14 DEF OwnMerges
<1>16. Balanced'
  <2> SUFFICES ASSUME NEW f \in 1 .. Len(files')
               PROVE  /\ Balance(files', snapshots, f) <= Others(f)'
                      /\ ~ interrupted => Balance(files', snapshots, f) = Others(f)'
    BY DEF Balanced
  <2>1. Has(other, f)' = Has(other, f) /\ Has(other, f) \in Nat
    BY <1>3 DEF Has, One
  <2>2. /\ Others(f) = Has(l, f) + Has(other, f) + MapHas(f) + One(f \in FilesOf(introducer.segs))
        /\ Others(f)' = Has(l, f)' + Has(other, f)' + MapHas(f)' + One(f \in FilesOf(introducer.segs))
    <3>1. /\ Has("persister", f) \in Nat /\ Has("merger", f) \in Nat /\ MapHas(f) \in Nat
          /\ Has("persister", f)' \in Nat /\ Has("merger", f)' \in Nat /\ MapHas(f)' \in Nat
      BY DEF Has, MapHas, One
    <3>2. One(f \in FilesOf(introducer.segs)) \in Nat
          /\ One(f \in FilesOf(introducer.segs))' = One(f \in FilesOf(introducer.segs))
      BY DEF One
    <3>3. CASE l = "persister" /\ other = "merger"
      BY <3>1, <3>2, <3>3 DEF Others
    <3>4. CASE l = "merger" /\ other = "persister"
      BY <3>1, <3>2, <3>4 DEF Others
    <3> QED
      BY <1>1, <3>3, <3>4
  <2>3. Has(l, f) = 0
    BY <1>4 DEF Has, One
  <2>4. CASE f \in 1 .. L
    <3>1. Balance(files', snapshots, f) = Balance(files, snapshots, f)
      BY <2>4 DEF Balance
    <3>2. Has(l, f)' = 0 /\ MapHas(f)' = MapHas(f)
      BY <2>4
    <3>3. Others(f)' = Others(f)
      BY <2>1, <2>2, <2>3, <3>2
    <3> QED
      BY <2>4, <3>1, <3>3 DEF IInv, Balanced
  <2>5. CASE f \notin 1 .. L
    <3>1. SnapsOf(snapshots, f) = {} /\ One(f \in FilesOf(introducer.segs)) = 0
      BY <2>5, NotYetLoaded DEF SnapsOf, One
    <3>2. files'[f] = 1 /\ Has(l, f)' + MapHas(f)' = 1
      BY <2>5
    <3>3. Balance(files', snapshots, f) = 1
      BY <3>1, <3>2, FS_EmptySet DEF Balance
    <3>4. Has(other, f) = 0
      BY <1>1, <2>5, NotYetLoaded DEF Has, One
    <3>5. Has(l, f)' \in Nat /\ MapHas(f)' \in Nat
      BY DEF Has, MapHas, One
    <3>6. Others(f)' = 1
      BY <2>1, <2>2, <3>1, <3>2, <3>4, <3>5
    <3> QED
      BY <3>3, <3>6
  <2> QED
    BY <2>4, <2>5
<1>17. Drains'
  <2>1. Loops = {"persister", "merger"}
    BY DEF Loops
  <2>2. /\ work'["persister"].pc \in {"introduced", "skipped", "direct"} => work'["persister"].snap # root
        /\ work'["persister"].pc = "waiting" /\ introducer.pc # "persist" => work'["persister"].snap # root
        /\ introducer.pc = "persist" /\ work'["persister"].pc # "waiting" => interrupted
        /\ work'["persister"].pc = "writing" /\ work'["persister"].snap = root => InMemory(Segs) = {}
    <3>1. CASE l = "persister"
      <4>1. work[l].snap # 0
        BY DEF IInv, Places
      <4>2. work[l].snap = root => Mine(l) = Segs
        BY <4>1 DEF Mine, Segs
      <4> QED
        BY <3>1, <4>2 DEF IInv, Drains
    <3>2. CASE other = "persister"
      BY <1>3, <3>2 DEF IInv, Drains
    <3> QED
      BY <1>1, <3>1, <3>2
  <2>3. closer \in {"closing", "closed"} /\ ~ interrupted =>
          /\ InMemory(Segs) = {} /\ introducer.pc # "persist" /\ ~ HasMap'
          /\ \A k \in Loops : work[k].snap # 0 => InMemory(Mine(k)) = {}
    <3> SUFFICES ASSUME closer \in {"closing", "closed"}, ~ interrupted
                 PROVE  /\ InMemory(Segs) = {} /\ introducer.pc # "persist" /\ ~ HasMap'
                        /\ \A k \in Loops : work[k].snap # 0 => InMemory(Mine(k)) = {}
      OBVIOUS
    <3>1. /\ InMemory(Segs) = {} /\ introducer.pc # "persist" /\ ~ HasMap
          /\ \A k \in Loops : work[k].snap # 0 => InMemory(Mine(k)) = {}
      BY DEF IInv, Drains
    <3>2. l = "persister" => InMemory(Mine("persister")) = {}
      BY <3>1 DEF IInv, Places
    <3>3. l = "merger" => ~ HasMap'
      BY <1>1, <1>3, <3>1 DEF HasMap
    <3> QED
      BY <1>1, <3>1, <3>2, <3>3
  <2> QED
    BY <1>5, <2>2, <2>3 DEF IInv, Drains
<1>18. Typed'
  BY DEF IInv, Typed
<1> QED
  BY <1>7, <1>8, <1>9, <1>12, <1>15, <1>16, <1>17, <1>18 DEF IInv

\* A merge loads one file, which is the loop's alone until a root has it.
LEMMA MergeKeeps == ASSUME IInv, NEW l \in Loops, NEW old, Merge(l, old) PROVE IInv'
<1> DEFINE L == Len(files)
           file == L + 1
           id   == ids + 1
           sub == [work[l] EXCEPT !.pc = "merged", !.old = old]
           new == [sub EXCEPT !.file = file, !.new = id]
<1>1. /\ work[l].pc = "working" /\ old \subseteq DOMAIN Mine(l)
      /\ ids' = ids + 1 /\ files' = Append(files, 1)
      /\ work' = [work EXCEPT ![l].pc = "merged", ![l].old = old,
                              ![l].file = L + 1, ![l].new = ids + 1]
      /\ UNCHANGED <<snapshots, root, introducer, persisted, last, reader, retrying, closer,
                     interrupted, faults>>
  BY DEF Merge, life
<1>2. /\ work \in [Loops -> Works] /\ work[l] \in Works /\ ids \in Nat /\ L \in Nat
      /\ files \in Seq(Int) /\ persisted \in SegMaps
  BY Shapes DEF IInv, Typed
<1>3. old \in SUBSET Nat
  <2>1. work[l].snap \in 1 .. Len(snapshots)
    BY <1>1, Shapes DEF IInv, Places
  <2>2. SoundIn(Mine(l), ids, Len(files))
    BY <2>1 DEF IInv, Distinct, Sound, Mine
  <2> QED
    BY <1>1, <1>2, <2>2 DEF SoundIn
<1>4. /\ new \in Works /\ new.pc = "merged" /\ new.snap = work[l].snap
      /\ new.file = L + 1 /\ new.new = ids + 1
  <2>1. file \in Nat /\ id \in Nat
    BY <1>2
  <2>2. sub \in Works /\ sub.pc = "merged" /\ sub.snap = work[l].snap
    BY <1>2, <1>3 DEF Works
  <2>3. new \in Works /\ new.pc = "merged" /\ new.snap = work[l].snap /\ new.file = file /\ new.new = id
    <3> HIDE DEF file, id, sub
    <3> QED
      BY <2>1, <2>2 DEF Works
  <2> QED
    BY <2>3
<1>5. work' = [work EXCEPT ![l] = new]
  BY <1>1, <1>2
<1> HIDE DEF new, sub, file, id
<1>6. /\ work' \in [Loops -> Works] /\ work'[l] = new /\ work'[OtherLoop(l)] = work[OtherLoop(l)]
      /\ work'[l].pc = "merged" /\ work'[l].snap = work[l].snap
      /\ work'[l].file = L + 1 /\ work'[l].new = ids + 1
  <2>1. OtherLoop(l) # l
    BY DEF OtherLoop, Loops
  <2> QED
    BY <1>2, <1>4, <1>5, <2>1
<1>7. HasMap' <=> HasMap
  BY <1>1, <1>6 DEF HasMap, OtherLoop, Loops
<1>8. /\ files' \in Seq(Int) /\ Len(files') = L + 1 /\ L <= Len(files')
      /\ \A f \in 1 .. L : files'[f] = files[f]
      /\ \A f \in 1 .. Len(files') : f \notin 1 .. L => f = L + 1 /\ files'[f] = 1
  BY <1>1, <1>2
<1>9. L + 1 \notin FilesOf(persisted) /\ L + 1 \notin 1 .. L
  <2>1. L + 1 \notin 1 .. L
    BY <1>2
  <2> QED
    BY <2>1, NotYetLoaded
<1>10. \A f : f \in 1 .. L => Has(l, f)' = 0 /\ MapHas(f)' = MapHas(f)
  BY <1>1, <1>2, <1>6, <1>7 DEF Has, MapHas, One
<1>11. \A f : f = L + 1 => Has(l, f)' = 1 /\ MapHas(f)' = 0
  BY <1>1, <1>6, <1>9 DEF Has, MapHas, One, Unplaced
<1>12. SoundIn(persisted', ids', Len(files'))
  BY <1>1, <1>2, <1>8 DEF IInv, Distinct, Sound, SoundIn
<1>13. ids' \in Nat /\ ids <= ids' /\ ids + 1 \in 1 .. ids' /\ ids + 1 \notin 1 .. ids
  BY <1>1, <1>2
<1>14. Grows(l)
  BY <1>1, <1>2, <1>6, <1>7, <1>8, <1>9, <1>10, <1>11, <1>12, <1>13 DEF Grows
<1> QED
  BY <1>14, GrowStep

\* The persister loads a file into the shared map for each segment that has no view.
LEMMA PersisterLoadKeeps == ASSUME IInv, NEW views, PersisterLoad(views) PROVE IInv'
<1> DEFINE l      == "persister"
           mem    == InMemory(Mine(l))
           loaded == mem \ views
           L      == Len(files)
           k      == Cardinality(loaded)
           rank(i) == Cardinality({j \in loaded : j <= i})
           map    == [i \in mem |-> IF i \in views THEN View ELSE File(L + rank(i))]
           more   == [n \in 1 .. k |-> 1]
<1>1. /\ work[l].pc \in {"working", "direct"} /\ persisted' = map /\ files' = files \o more
      /\ work' = [work EXCEPT ![l].pc = IF mem = {} THEN "writing" ELSE "sending"]
      /\ UNCHANGED <<snapshots, root, ids, introducer, last, reader, retrying, closer,
                     interrupted, faults>>
  BY DEF PersisterLoad, life
<1>2. /\ l \in Loops /\ work \in [Loops -> Works] /\ work[l] \in Works /\ ids \in Nat /\ L \in Nat
      /\ files \in Seq(Int)
  BY Shapes DEF IInv, Typed, Loops
<1>3. mem \subseteq 1 .. ids
  <2>1. work[l].snap \in 1 .. Len(snapshots)
    BY <1>1, <1>2, Shapes DEF IInv, Places
  <2>2. SoundIn(Mine(l), ids, Len(files))
    BY <2>1 DEF IInv, Distinct, Sound, Mine
  <2> QED
    BY <2>2 DEF SoundIn, InMemory
<1> HIDE DEF mem
<1>4. loaded \in SUBSET (1 .. ids)
  BY <1>3
<1> HIDE DEF loaded
<1>5. /\ k \in Nat
      /\ \A i \in loaded : rank(i) \in 1 .. k
      /\ \A i, j \in loaded : rank(i) = rank(j) => i = j
      /\ \A r \in 1 .. k : \E i \in loaded : rank(i) = r
  BY <1>2, <1>4, Ranks
<1>6. k # 0 => mem # {}
  <2>1. k # 0 => 1 \in 1 .. k
    BY <1>5
  <2> QED
    BY <1>5, <2>1 DEF loaded
<1> HIDE DEF k, rank
<1>7. /\ more \in Seq(Int) /\ Len(more) = k /\ \A n \in 1 .. k : more[n] = 1
  BY <1>5
<1> HIDE DEF more
<1>8. /\ files' \in Seq(Int) /\ Len(files') = L + k /\ L <= Len(files')
      /\ \A f \in 1 .. L : files'[f] = files[f]
      /\ \A f \in 1 .. Len(files') : f \notin 1 .. L => files'[f] = 1 /\ f - L \in 1 .. k
  <2>6. files \o more \in Seq(Int) /\ Len(files \o more) = Len(files) + Len(more)
    BY <1>2, <1>7, ConcatProperties
  <2>1. files' \in Seq(Int) /\ Len(files') = L + k
    BY <1>1, <1>7, <2>6
  <2>2. \A f \in 1 .. L + k : files'[f] = IF f <= L THEN files[f] ELSE more[f - L]
    BY <1>1, <1>2, <1>7, ConcatProperties
  <2>3. \A f \in 1 .. L : f \in 1 .. L + k /\ f <= L
    BY <1>2, <1>5
  <2>4. \A f \in 1 .. L + k : f \notin 1 .. L => ~ (f <= L) /\ f - L \in 1 .. k
    BY <1>2, <1>5
  <2>5. L <= L + k
    BY <1>2, <1>5
  <2> HIDE DEF L
  <2> QED
    BY <1>7, <2>1, <2>2, <2>3, <2>4, <2>5
<1>9. /\ DOMAIN map = mem
      /\ \A i \in mem : /\ i \in views => map[i].file = 0
                        /\ i \notin views => i \in loaded /\ map[i].file = L + rank(i)
                        /\ map[i] \in Segment
  BY <1>2, <1>5 DEF View, File, Segment, loaded
<1>10. map \in SegMaps
  <2>1. mem \in SUBSET Nat /\ map \in [mem -> Segment]
    BY <1>2, <1>3, <1>9
  <2> QED
    BY <2>1 DEF SegMaps
<1> HIDE DEF map
<1>11. SoundIn(map, ids, L + k)
  <2>1. \A i \in mem : map[i].file \in 0 .. L + k
    BY <1>2, <1>5, <1>9
  <2>2. \A i, j \in mem : map[i].file = map[j].file /\ map[i].file # 0 => i = j
    <3> SUFFICES ASSUME NEW i \in mem, NEW j \in mem, map[i].file = map[j].file, map[i].file # 0
                 PROVE  i = j
      OBVIOUS
    <3>1. i \in loaded /\ j \in loaded /\ L + rank(i) = L + rank(j)
      BY <1>9
    <3>2. rank(i) \in Nat /\ rank(j) \in Nat
      BY <1>5, <3>1
    <3>3. rank(i) = rank(j)
      BY <1>2, <3>1, <3>2
    <3> QED
      BY <1>5, <3>1, <3>3
  <2> QED
    BY <1>3, <1>9, <2>1, <2>2 DEF SoundIn
<1>12. \A f \in FilesOf(map) : f \notin 1 .. L
  <2> TAKE f \in FilesOf(map)
  <2>1. PICK i \in mem : f = map[i].file /\ f # 0
    BY <1>9 DEF FilesOf
  <2>2. i \in loaded /\ f = L + rank(i) /\ rank(i) \in 1 .. k
    BY <1>5, <1>9, <2>1
  <2> QED
    BY <1>2, <1>5, <2>2
<1>13. \A f \in 1 .. Len(files') : f \notin 1 .. L => f \in FilesOf(map)
  <2> SUFFICES ASSUME NEW f \in 1 .. Len(files'), f \notin 1 .. L PROVE f \in FilesOf(map)
    OBVIOUS
  <2>1. f - L \in 1 .. k
    BY <1>8
  <2>2. PICK i \in loaded : rank(i) = f - L
    BY <1>5, <2>1
  <2>3. i \in mem /\ i \notin views
    BY DEF loaded
  <2>4. map[i].file = L + (f - L)
    BY <1>9, <2>2, <2>3
  <2>5. map[i].file = f /\ f # 0
    BY <1>2, <1>8, <2>4
  <2> QED
    BY <1>9, <2>3, <2>5 DEF FilesOf
<1> DEFINE pc == IF mem = {} THEN "writing" ELSE "sending"
           new == [work[l] EXCEPT !.pc = pc]
<1>14. new \in Works /\ new.pc = pc /\ new.snap = work[l].snap /\ pc \in {"writing", "sending"}
  <2>1. pc \in {"writing", "sending"}
    OBVIOUS
  <2> HIDE DEF pc
  <2> QED
    BY <1>2, <2>1 DEF Works
<1>15. work' = [work EXCEPT ![l] = new]
  BY <1>1, <1>2
<1> HIDE DEF new
<1>16. /\ work' \in [Loops -> Works] /\ work'[OtherLoop(l)] = work[OtherLoop(l)]
       /\ work'[l].pc = pc /\ work'[l].snap = work[l].snap
  <2>1. OtherLoop(l) # l
    BY DEF OtherLoop
  <2> QED
    BY <1>2, <1>14, <1>15, <2>1
<1>17. ~ HasMap /\ (HasMap' <=> mem # {})
  BY <1>1, <1>16 DEF HasMap
<1>18. \A f : Has(l, f)' = 0
  BY <1>14, <1>16 DEF Has, Unplaced, One
<1>19. \A f \in 1 .. L : MapHas(f) = 0 /\ MapHas(f)' = 0
  BY <1>1, <1>12, <1>17 DEF MapHas, One
<1>20. \A f \in 1 .. Len(files') : f \notin 1 .. L => MapHas(f)' = 1
  <2> SUFFICES ASSUME NEW f \in 1 .. Len(files'), f \notin 1 .. L PROVE MapHas(f)' = 1
    OBVIOUS
  <2>1. k # 0
    BY <1>2, <1>8
  <2> QED
    BY <1>1, <1>6, <1>13, <1>17, <2>1 DEF MapHas, One
<1>21. Grows(l)
  <2>1. ids' \in Nat /\ ids <= ids'
    BY <1>1, <1>2
  <2>2. pc = "writing" => mem = {}
    OBVIOUS
  <2>3. SoundIn(persisted', ids', Len(files'))
    BY <1>1, <1>8, <1>11
  <2>4. \A f \in 1 .. Len(files') : f \notin 1 .. L => files'[f] = 1 /\ Has(l, f)' + MapHas(f)' = 1
    BY <1>8, <1>18, <1>20
  <2>5. \A f \in 1 .. L : Has(l, f)' = 0 /\ MapHas(f)' = MapHas(f)
    BY <1>18, <1>19
  <2> HIDE DEF pc
  <2> QED
    BY <1>1, <1>8, <1>10, <1>12, <1>14, <1>16, <1>17, <2>1, <2>2, <2>3, <2>4, <2>5 DEF Grows, mem
<1> QED
  BY <1>2, <1>21, GrowStep

\* The introducer begins a root with all segments of the present one to do.
LEMMA PersisterSendKeeps == ASSUME IInv, PersisterSend PROVE IInv'
<1> DEFINE l == "persister"
<1>1. /\ work[l].pc = "sending" /\ introducer.pc = "idle"
      /\ introducer' = [pc |-> "persist", todo |-> DOMAIN Segs, segs |-> <<>>]
      /\ work' = [work EXCEPT ![l].pc = "waiting"]
      /\ UNCHANGED <<snapshots, root, files, ids, persisted, last, reader, retrying, closer,
                     interrupted, faults>>
  BY DEF PersisterSend, life
<1>2. /\ l \in Loops /\ work \in [Loops -> Works] /\ work[l] \in Works /\ ids \in Nat
      /\ closer # "closed" /\ root # 0 /\ introducer.segs = <<>>
  BY <1>1 DEF IInv, Typed, Loops, Places
<1>3. /\ work' \in [Loops -> Works] /\ work'["merger"] = work["merger"]
      /\ work'[l].pc = "waiting" /\ work'[l].snap = work[l].snap
  BY <1>1, <1>2 DEF Works, Loops
<1>4. /\ Segs \in SegMaps /\ SoundIn(Segs, ids, Len(files)) /\ Segs' = Segs
      /\ DOMAIN Segs \in SUBSET Nat
  <2>1. Segs \in SegMaps /\ SoundIn(Segs, ids, Len(files)) /\ Segs' = Segs
    BY <1>1, <1>2, RootSegments DEF Segs
  <2> QED
    BY <1>2, <2>1 DEF SoundIn
<1>5. /\ HasMap' /\ HasMap
      /\ \A k \in Loops : /\ Published(k)' <=> Published(k)
                          /\ Unplaced(k)' <=> Unplaced(k)
                          /\ Published(k) \/ Unplaced(k) => work'[k] = work[k]
                          /\ work'[k].pc = "merged" => work'[k] = work[k]
                          /\ work'[k].snap = work[k].snap /\ Mine(k)' = Mine(k)
  BY <1>1, <1>3 DEF HasMap, Published, Unplaced, Loops, Mine
<1>6. \A k \in Loops : /\ \A n : Holds(k, n)' = Holds(k, n)
                       /\ \A f : Has(k, f)' = Has(k, f)
  BY <1>5 DEF Holds, Has, One
<1>7. \A f : MapHas(f)' = MapHas(f) /\ One(f \in FilesOf(introducer.segs))' = One(f \in FilesOf(introducer.segs))
  BY <1>1, <1>2, <1>5, NoSegments DEF MapHas, One
<1>8. Counted'
  <2>1. \A n : Users(n)' = Users(n) /\ ReadersOf(n)' = ReadersOf(n)
    BY <1>1, <1>6 DEF Users, ReadersOf, Loops
  <2> QED
    BY <1>1, <2>1 DEF Counted, IInv
<1>9. Balanced'
  <2>1. \A f : Others(f)' = Others(f)
    BY <1>6, <1>7 DEF Others, Loops
  <2> QED
    BY <1>1, <2>1 DEF Balanced, IInv
<1>10. Places'
  <2>1. \A k \in Loops : work'[k].pc \in {"idle", "stopped"} <=> work'[k].snap = 0
    BY <1>1, <1>2, <1>3 DEF IInv, Places, Loops
  <2>2. introducer'.pc = "persist" /\ introducer'.todo = DOMAIN Segs /\ introducer'.segs = <<>>
    BY <1>1
  <2>3. DOMAIN introducer'.segs = DOMAIN Segs' \ introducer'.todo
    BY <1>4, <2>2, NoSegments
  <2> QED
    BY <1>1, <1>2, <1>4, <2>1, <2>2, <2>3 DEF IInv, Places
<1>11. Named'
  BY <1>1, <1>5 DEF IInv, Named
<1>12. Distinct'
  <2>1. introducer'.segs = <<>> /\ SoundIn(<<>>, ids, Len(files))
    BY <1>1, NoSegments DEF SoundIn
  <2> QED
    BY <1>1, <2>1, NoSegments DEF IInv, Distinct, Sound
<1>13. OwnMerges'
  <2>1. introducer'.segs = <<>>
    BY <1>1
  <2>2. \A k \in Loops : OtherLoop(k) \in Loops
    BY DEF OtherLoop, Loops
  <2>3. \A k \in Loops : work'[k].pc = "merged" => Unplaced(k)
    BY <1>5 DEF Unplaced
  <2> QED
    BY <1>1, <1>2, <1>4, <1>5, <2>1, <2>2, <2>3 DEF IInv, OwnMerges
<1>14. Drains'
  <2>1. closer \in {"closing", "closed"} => interrupted
    BY <1>5 DEF IInv, Drains
  <2> QED
    BY <1>1, <1>3, <1>4, <2>1 DEF IInv, Drains
<1>15. Typed'
  <2>1. introducer' \in [pc : {"idle", "persist", "stopped"}, todo : SUBSET Nat, segs : SegMaps]
    BY <1>1, <1>4, NoSegments
  <2> QED
    BY <1>1, <1>3, <2>1 DEF IInv, Typed
<1> QED
  BY <1>8, <1>9, <1>10, <1>11, <1>12, <1>13, <1>14, <1>15 DEF IInv

\* The introducer takes a segment from the shared map, and with it the reference the map
\* had; it keeps one of the root that the map does not have, and adds a reference.
LEMMA SwapSegmentKeeps == ASSUME IInv, SwapSegment PROVE IInv'
<1> DEFINE i       == Min(introducer.todo)
           taken   == i \in DOMAIN persisted
           segment == IF taken THEN persisted[i] ELSE Segs[i]
           new     == Put(introducer.segs, i, segment)
           rest    == introducer.todo \ {i}
<1>1. /\ introducer.pc = "persist" /\ introducer.todo # {}
      /\ introducer' = [introducer EXCEPT !.todo = rest, !.segs = new]
      /\ taken => /\ files' = files /\ persisted' = Restrict(persisted, DOMAIN persisted \ {i})
      /\ ~ taken => files' = AddRefs(files, {segment.file}) /\ persisted' = persisted
      /\ UNCHANGED <<snapshots, root, ids, work, last, reader, retrying, closer, interrupted,
                     faults>>
  BY DEF SwapSegment, life
<1>2. /\ introducer \in [pc : {"idle", "persist", "stopped"}, todo : SUBSET Nat, segs : SegMaps]
      /\ persisted \in SegMaps /\ files \in Seq(Int) /\ Len(files) \in Nat /\ ids \in Nat
      /\ closer # "closed" /\ root # 0
  BY <1>1, Shapes DEF IInv, Typed, Places
<1>3. i \in introducer.todo /\ i \in Nat /\ introducer.todo \in SUBSET Nat
  BY <1>1, <1>2, LeastIn
<1> HIDE DEF i
<1>4. /\ introducer.todo \subseteq DOMAIN Segs
      /\ DOMAIN introducer.segs = DOMAIN Segs \ introducer.todo
  BY <1>1 DEF IInv, Places
<1>5. /\ introducer'.pc = "persist" /\ introducer'.todo = rest /\ introducer'.segs = new
      /\ introducer' \in [pc : {"persist"}, todo : {rest}, segs : {new}]
  <2> HIDE DEF rest, new
  <2> QED
    BY <1>1, <1>2
<1>6. /\ root \in 1 .. Len(snapshots) /\ Segs = snapshots[root].segs /\ Segs' = Segs
      /\ Segs \in SegMaps /\ SoundIn(Segs, ids, Len(files))
      /\ FilesOf(persisted) \cap FilesOf(Segs) = {}
  BY <1>1, <1>2, RootSegments DEF Segs
<1>7. /\ SoundIn(persisted, ids, Len(files)) /\ SoundIn(introducer.segs, ids, Len(files))
      /\ FilesOf(persisted) \cap FilesOf(introducer.segs) = {}
      /\ \A j \in DOMAIN introducer.segs :
           introducer.segs[j] = Segs[j] \/ introducer.segs[j].file \notin FilesOf(Segs)
  BY DEF IInv, Distinct, Sound
<1>8. \A segs \in SegMaps : \A j \in DOMAIN segs : segs[j] \in Segment
  BY DEF SegMaps
<1>9. i \in DOMAIN Segs /\ i \notin DOMAIN introducer.segs /\ i \in 1 .. ids
  BY <1>3, <1>4, <1>6 DEF SoundIn
<1>10. /\ segment \in Segment /\ segment.file \in 0 .. Len(files)
       /\ segment.file \notin FilesOf(introducer.segs)
       /\ taken => segment.file \notin FilesOf(Segs)
  <2>1. CASE taken
    <3>1. segment = persisted[i] /\ persisted[i] \in Segment
      BY <1>2, <1>8, <2>1
    <3>2. segment.file = 0 \/ segment.file \in FilesOf(persisted)
      BY <2>1, <3>1 DEF FilesOf
    <3> QED
      BY <1>6, <1>7, <2>1, <3>1, <3>2, NoFiles DEF SoundIn
  <2>2. CASE ~ taken
    <3>1. segment = Segs[i] /\ Segs[i] \in Segment /\ Segs[i].file \in 0 .. Len(files)
      BY <1>6, <1>8, <1>9, <2>2 DEF SoundIn
    <3>2. ASSUME NEW j \in DOMAIN introducer.segs, introducer.segs[j].file = Segs[i].file,
                 Segs[i].file # 0
          PROVE  FALSE
      <4>1. Segs[i].file \in FilesOf(Segs)
        BY <1>9, <3>2 DEF FilesOf
      <4>2. introducer.segs[j] = Segs[j]
        BY <1>7, <3>2, <4>1
      <4>3. j \in DOMAIN Segs /\ j # i
        BY <1>4, <1>9
      <4> QED
        BY <1>6, <1>9, <3>2, <4>2, <4>3 DEF SoundIn
    <3> QED
      BY <2>2, <3>1, <3>2 DEF FilesOf
  <2> QED
    BY <2>1, <2>2
<1>11. HasPut(new, introducer.segs, i, segment, ids, Len(files))
  <2>1. Fits(introducer.segs, i, segment, ids, Len(files))
    <3> HIDE DEF segment
    <3> QED
      BY <1>2, <1>7, <1>9, <1>10 DEF Fits
  <2> HIDE DEF segment
  <2> QED
    BY <2>1, Putting
<1>12. /\ new \in SegMaps /\ SoundIn(new, ids, Len(files))
       /\ FilesOf(new) = FilesOf(introducer.segs) \cup ({segment.file} \ {0})
       /\ DOMAIN new = DOMAIN introducer.segs \cup {i}
  BY <1>11 DEF HasPut
<1>13. \A j \in DOMAIN new : new[j] = Segs[j] \/ new[j].file \notin FilesOf(Segs)
  <2>1. new[i] = segment /\ \A j \in DOMAIN introducer.segs : j # i => new[j] = introducer.segs[j]
    BY DEF Put
  <2>2. ~ taken => segment = Segs[i]
    OBVIOUS
  <2> HIDE DEF segment, new, taken
  <2> QED
    BY <1>7, <1>9, <1>10, <1>12, <2>1, <2>2
<1> HIDE DEF new
<1>14. /\ persisted' \in SegMaps /\ SoundIn(persisted', ids, Len(files))
       /\ FilesOf(persisted') = FilesOf(persisted) \ (IF taken THEN {segment.file} ELSE {})
  <2>1. CASE taken
    <3> DEFINE D == DOMAIN persisted \ {i}
    <3>1. persisted' = Restrict(persisted, D) /\ D \in SUBSET DOMAIN persisted
      BY <1>1, <2>1
    <3>2. persisted' \in SegMaps /\ SoundIn(persisted', ids, Len(files))
      <4> HIDE DEF D
      <4> QED
        BY <1>2, <1>7, <3>1, Keeping
    <3>3. DOMAIN persisted' = D /\ \A j \in D : persisted'[j] = persisted[j]
      BY <3>1 DEF Restrict
    <3>4. segment = persisted[i] /\ i \in DOMAIN persisted
      BY <2>1
    <3>5. \A j \in D : persisted[j].file # 0 => persisted[j].file # persisted[i].file
      BY <1>7, <3>4 DEF SoundIn
    <3>6. FilesOf(persisted') = FilesOf(persisted) \ {segment.file}
      BY <3>3, <3>4, <3>5 DEF FilesOf
    <3> QED
      BY <2>1, <3>2, <3>6
  <2>2. CASE ~ taken
    BY <1>1, <1>2, <1>7, <2>2
  <2> QED
    BY <2>1, <2>2
<1>15. /\ files' \in Seq(Int) /\ Len(files') = Len(files)
       /\ \A f \in 1 .. Len(files) :
            files'[f] = files[f] + (IF taken THEN 0 ELSE One(f \in {segment.file}))
  <2>1. CASE taken
    <3>1. files' = files
      BY <1>1, <2>1
    <3> QED
      BY <1>2, <2>1, <3>1
  <2>2. CASE ~ taken
    <3>1. files' = AddRefs(files, {segment.file})
      BY <1>1, <2>2
    <3> HIDE DEF segment
    <3> QED
      BY <1>2, <2>2, <3>1, AddedRefs DEF One
  <2> QED
    BY <2>1, <2>2
<1>16. \A l \in Loops : /\ Published(l)' <=> Published(l)
                        /\ Unplaced(l)' <=> Unplaced(l)
                        /\ Mine(l)' = Mine(l)
                        /\ \A n : Holds(l, n)' = Holds(l, n)
                        /\ \A f : Has(l, f)' = Has(l, f) /\ Has(l, f) \in Nat
  BY <1>1 DEF Published, Unplaced, Mine, Holds, Has, One
<1>17. HasMap' <=> HasMap
  BY <1>1 DEF HasMap
<1>18. ~ interrupted => HasMap
  BY <1>1 DEF IInv, Drains, HasMap
<1>19. taken => segment.file = 0 \/ segment.file \in FilesOf(persisted)
  BY DEF FilesOf
<1> HIDE DEF segment, taken, rest
<1>20. Balanced'
  <2> SUFFICES ASSUME NEW f \in 1 .. Len(files)
               PROVE  /\ Balance(files', snapshots, f) <= Others(f)'
                      /\ ~ interrupted => Balance(files', snapshots, f) = Others(f)'
    BY <1>1, <1>15 DEF Balanced
  <2> DEFINE b == Balance(files, snapshots, f)   bb == Balance(files', snapshots, f)
             p == Has("persister", f)   g == Has("merger", f)
             m == MapHas(f)             mm == MapHas(f)'
             s == One(f \in FilesOf(introducer.segs))   ss == One(f \in FilesOf(introducer.segs))'
             u == Others(f)             uu == Others(f)'
  <2>1. p \in Nat /\ g \in Nat /\ Has("persister", f)' = p /\ Has("merger", f)' = g
    BY <1>16 DEF Loops
  <2>2. b \in Int
    BY BalanceType
  <2>3. u = p + g + m + s /\ uu = p + g + mm + ss
    BY <2>1 DEF Others
  <2>4. b <= u /\ (~ interrupted => b = u)
    BY DEF IInv, Balanced
  <2>5. f # 0
    BY <1>2
  <2>6. CASE f # segment.file
    <3>1. f \in FilesOf(introducer'.segs) <=> f \in FilesOf(introducer.segs)
      BY <1>5, <1>12, <2>6
    <3>2. f \in FilesOf(persisted') <=> f \in FilesOf(persisted)
      BY <1>14, <2>6
    <3>3. mm = m /\ ss = s
      BY <1>17, <3>1, <3>2 DEF MapHas, One
    <3>4. files'[f] = files[f]
      BY <1>2, <1>15, <2>6 DEF One
    <3>5. bb = b
      BY <3>4 DEF Balance
    <3> HIDE DEF b, bb, p, g, m, mm, s, ss, u, uu
    <3>6. bb <= uu /\ (~ interrupted => bb = uu)
      BY <2>3, <2>4, <3>3, <3>5
    <3> QED
      BY <3>6 DEF bb, uu
  <2>7. CASE f = segment.file /\ taken
    <3>1. s = 0 /\ ss = 1
      BY <1>5, <1>10, <1>12, <2>5, <2>7 DEF One
    <3>2. mm = 0 /\ m \in {0, 1} /\ (~ interrupted => m = 1)
      BY <1>14, <1>17, <1>18, <1>19, <2>5, <2>7 DEF MapHas, One
    <3>3. bb = b
      BY <1>1, <2>7 DEF Balance
    <3> HIDE DEF b, bb, p, g, m, mm, s, ss, u, uu
    <3>6. bb <= uu /\ (~ interrupted => bb = uu)
      BY <2>1, <2>2, <2>3, <2>4, <3>1, <3>2, <3>3
    <3> QED
      BY <3>6 DEF bb, uu
  <2>8. CASE f = segment.file /\ ~ taken
    <3>1. s = 0 /\ ss = 1
      BY <1>5, <1>10, <1>12, <2>5, <2>8 DEF One
    <3>2. persisted' = persisted
      BY <1>1, <2>8
    <3>3. mm = m /\ m \in Nat
      BY <1>17, <3>2 DEF MapHas, One
    <3>4. files'[f] = files[f] + 1 /\ files[f] \in Int
      BY <1>2, <1>15, <2>8 DEF One
    <3>5. Cardinality(SnapsOf(snapshots, f)) \in Nat
      BY SnapsFinite DEF IInv, Typed
    <3>6. bb = b + 1
      BY <3>4, <3>5 DEF Balance
    <3> HIDE DEF b, bb, p, g, m, mm, s, ss, u, uu
    <3>7. bb <= uu /\ (~ interrupted => bb = uu)
      BY <2>1, <2>2, <2>3, <2>4, <3>1, <3>3, <3>6
    <3> QED
      BY <3>7 DEF bb, uu
  <2> QED
    BY <2>6, <2>7, <2>8
<1>21. Counted'
  <2>1. \A n : Users(n)' = Users(n) /\ ReadersOf(n)' = ReadersOf(n)
    BY <1>1, <1>16 DEF Users, ReadersOf, Loops
  <2> QED
    BY <1>1, <2>1 DEF Counted, IInv
<1>22. Places'
  <2>1. rest \subseteq DOMAIN Segs /\ DOMAIN new = DOMAIN Segs \ rest
    BY <1>3, <1>4, <1>12 DEF rest
  <2> QED
    BY <1>1, <1>2, <1>5, <1>6, <2>1 DEF IInv, Places
<1>23. Named'
  BY <1>1, <1>16 DEF IInv, Named
<1>24. Distinct'
  <2>1. \A n \in 1 .. Len(snapshots) : SoundIn(snapshots[n].segs, ids, Len(files))
    BY DEF IInv, Distinct, Sound
  <2>2. \A n \in 1 .. Len(snapshots) : FilesOf(persisted') \cap FilesOf(snapshots[n].segs) = {}
    BY <1>14 DEF IInv, Distinct
  <2>3. FilesOf(persisted') \cap FilesOf(new) = {}
    <3>1. CASE taken
      BY <1>7, <1>12, <1>14, <3>1
    <3>2. CASE ~ taken
      <4>1. segment.file = 0 \/ segment.file \in FilesOf(Segs)
        BY <1>9, <3>2 DEF FilesOf, segment
      <4> QED
        BY <1>6, <1>7, <1>12, <1>14, <4>1, NoFiles
    <3> QED
      BY <3>1, <3>2
  <2> QED
    BY <1>1, <1>5, <1>6, <1>12, <1>13, <1>14, <1>15, <2>1, <2>2, <2>3 DEF Distinct, Sound
<1>25. OwnMerges'
  <2>1. \A l \in Loops : Unplaced(l) => work[l].file \notin FilesOf(persisted') \cup FilesOf(new)
    <3> SUFFICES ASSUME NEW l \in Loops, Unplaced(l)
                 PROVE  work[l].file \notin FilesOf(persisted') \cup FilesOf(new)
      OBVIOUS
    <3>1. /\ work[l].file \in 1 .. Len(files) /\ work[l].file \notin FilesOf(Segs)
          /\ work[l].file \notin FilesOf(persisted) /\ work[l].file \notin FilesOf(introducer.segs)
      BY <1>6 DEF IInv, OwnMerges
    <3>2. segment.file = 0 \/ segment.file \in FilesOf(Segs) \/ segment.file \in FilesOf(persisted)
      <4>1. ~ taken => segment.file = 0 \/ segment.file \in FilesOf(Segs)
        BY <1>9 DEF FilesOf, segment
      <4> QED
        BY <1>19, <4>1
    <3> QED
      BY <1>12, <1>14, <3>1, <3>2
  <2>2. \A l \in Loops : OtherLoop(l) \in Loops
    BY DEF OtherLoop, Loops
  <2> QED
    BY <1>1, <1>5, <1>6, <1>15, <1>16, <2>1, <2>2 DEF IInv, OwnMerges
<1>26. Drains'
  BY <1>1, <1>5, <1>6, <1>16, <1>17 DEF IInv, Drains
<1>27. Typed'
  <2>1. rest \in SUBSET Nat
    BY <1>3 DEF rest
  <2> QED
    BY <1>1, <1>5, <1>12, <1>14, <1>15, <2>1 DEF IInv, Typed
<1> QED
  BY <1>20, <1>21, <1>22, <1>23, <1>24, <1>25, <1>26, <1>27 DEF IInv

-----------------------------------------------------------------------------
(* Theorems *)

\* The first root is empty, and only the root and nobody else uses it.
LEMMA Initially == HandlesInit => IInv
<1> SUFFICES ASSUME HandlesInit PROVE IInv
  OBVIOUS
<1> USE DEF HandlesInit
<1> DEFINE first == [refs |-> 1, segs |-> <<>>]
<1>1. snapshots = <<first>> /\ Len(snapshots) = 1 /\ snapshots[1] = first /\ first \in Snapshot
  BY NoSegments DEF Snapshot
<1>2. /\ snapshots \in Seq(Snapshot) /\ files \in Seq(Int) /\ Len(files) = 0
      /\ \A n \in 1 .. Len(snapshots) : n = 1 /\ snapshots[n].refs = 1 /\ snapshots[n].segs = <<>>
  <2> HIDE DEF first
  <2>1. snapshots \in Seq(Snapshot)
    BY <1>1
  <2> QED
    BY <1>1, <2>1 DEF first
<1>3. \A l \in Loops : work[l] = Idle /\ ~ Published(l) /\ ~ Unplaced(l)
  BY DEF Idle, Published, Unplaced
<1>4. Segs = <<>> /\ SoundIn(<<>>, ids, Len(files))
  BY <1>1, NoSegments DEF Segs, SoundIn
<1>5. Typed
  <2>1. Idle \in Works
    BY DEF Idle, Works
  <2> QED
    BY <1>2, <2>1, NoSegments DEF Typed
<1>6. Places /\ Named
  BY <1>1, <1>3, <1>4, NoSegments DEF Places, Named, Idle
<1>7. Counted
  <2>1. ReadersOf(1) = {}
    BY DEF ReadersOf
  <2>2. Holds("persister", 1) = 0 /\ Holds("merger", 1) = 0 /\ One(root = 1) = 1
    BY <1>3 DEF Holds, One, Idle, Loops
  <2>3. IsFiniteSet(ReadersOf(1)) /\ Cardinality(ReadersOf(1)) = 0
    BY <2>1, FS_EmptySet
  <2>4. Users(1) = 1
    <3> DEFINE c == Cardinality(ReadersOf(1))  o == One(root = 1)
               p == Holds("persister", 1)  m == Holds("merger", 1)
    <3>1. Users(1) = c + o + p + m
      BY DEF Users
    <3>2. c = 0 /\ o = 1 /\ p = 0 /\ m = 0
      BY <2>2, <2>3
    <3> HIDE DEF c, o, p, m
    <3> QED
      BY <3>1, <3>2
  <2> QED
    BY <1>2, <2>3, <2>4 DEF Counted
<1>8. Distinct /\ OwnMerges /\ Balanced
  BY <1>2, <1>3, <1>4, NoSegments DEF Distinct, OwnMerges, Balanced, Sound, Idle
<1>9. Drains
  BY <1>3, <1>4, NoSegments DEF Drains, Idle, Loops, HasMap
<1> QED
  BY <1>5, <1>6, <1>7, <1>8, <1>9 DEF IInv

\* Every step keeps the census.
LEMMA Inductive == IInv /\ [HandlesNext]_handlesVars => IInv'
<1> SUFFICES ASSUME IInv, [HandlesNext]_handlesVars PROVE IInv'
  OBVIOUS
<1>1. CASE UNCHANGED handlesVars
  <2>1. /\ \A l : Published(l)' = Published(l) /\ Unplaced(l)' = Unplaced(l)
        /\ Segs' = Segs /\ HasMap' = HasMap /\ \A l : Mine(l)' = Mine(l)
    BY <1>1 DEF handlesVars, life, Published, Unplaced, Segs, HasMap, Mine
  <2>2. \A l, n : Holds(l, n)' = Holds(l, n) /\ Has(l, n)' = Has(l, n)
                  /\ ReadersOf(n)' = ReadersOf(n) /\ MapHas(n)' = MapHas(n)
    BY <1>1, <2>1 DEF handlesVars, life, Holds, Has, ReadersOf, MapHas
  <2>3. \A n : Users(n)' = Users(n) /\ Others(n)' = Others(n)
    BY <1>1, <2>2 DEF handlesVars, life, Users, Others
  <2> QED
    BY <1>1, <2>1, <2>2, <2>3 DEF handlesVars, life, IInv, Typed, Places, Named, Counted,
         Distinct, Sound, OwnMerges, Balanced, Drains
<1>2. CASE \E emptied \in SUBSET DOMAIN Segs : IntroduceSegment(emptied)
  BY <1>2, IntroduceSegmentKeeps
<1>3. CASE SwapSegment
  BY <1>3, SwapSegmentKeeps
<1>4. CASE IntroducePersist
  BY <1>4, IntroducePersistKeeps
<1>5. CASE \E l \in Loops : Take(l) \/ MergeSkipped(l) \/ MergeStops(l) \/ RoundFails(l) \/ LoopStop(l)
  BY <1>5, TakeKeeps, MergeSkippedKeeps, MergeStopsKeeps, RoundFailsKeeps, LoopStopKeeps
<1>6. CASE \E l \in Loops : \E old \in SUBSET (1 .. ids) : Merge(l, old)
  BY <1>6, MergeKeeps
<1>7. CASE \E l \in Loops : \E skipped \in BOOLEAN : IntroduceMerge(l, skipped)
  BY <1>7, IntroduceMergeKeeps
<1>8. CASE MergeDone \/ MergerRound
  BY <1>8, MergeDoneKeeps, MergerRoundKeeps
<1>9. CASE \E failed \in BOOLEAN : MemoryMergePersisted(failed)
  BY <1>9, MemoryMergePersistedKeeps
<1>10. CASE \E views \in SUBSET (1 .. ids) : PersisterLoad(views)
  BY <1>10, PersisterLoadKeeps
<1>11. CASE PersisterSend \/ PersisterApplied \/ PersisterStop \/ PersisterDone
  BY <1>11, PersisterSendKeeps, PersisterAppliedKeeps, PersisterStopKeeps, PersisterDoneKeeps
<1>12. CASE \E r \in Readers : OpenReader(r) \/ CloseReader(r)
  BY <1>12, OpenReaderKeeps, CloseReaderKeeps
<1>13. CASE CloseBegins \/ CloseSignals \/ IntroducerStop
  BY <1>13, CloseKeeps
<1>14. CASE CloseDone
  BY <1>14, CloseDoneKeeps
<1> QED
  BY <1>1, <1>2, <1>3, <1>4, <1>5, <1>6, <1>7, <1>8, <1>9, <1>10, <1>11, <1>12, <1>13, <1>14
     DEF HandlesNext

\* A snapshot in use has its segments open: each of its files counts it.
LEMMA InUseIsOpen == IInv => LiveIsOpenUnlessInterrupted
<1> SUFFICES ASSUME IInv, ~ interrupted,
                    NEW n \in 1 .. Len(snapshots), snapshots[n].refs >= 1,
                    NEW f \in FilesOf(snapshots[n].segs)
             PROVE  files[f] >= 1
  BY DEF LiveIsOpenUnlessInterrupted, LiveIsOpen, Open
<1>1. f \in 1 .. Len(files) /\ files[f] \in Int
  BY NotYetLoaded, Shapes
<1>2. IsFiniteSet(SnapsOf(snapshots, f)) /\ Cardinality(SnapsOf(snapshots, f)) \in Nat
  BY SnapsFinite DEF IInv, Typed
<1>3. n \in SnapsOf(snapshots, f)
  BY DEF SnapsOf
<1>4. Cardinality(SnapsOf(snapshots, f)) # 0
  BY <1>2, <1>3, FS_EmptySet
<1>5. Others(f) \in Nat
  <2>1. /\ Has("persister", f) \in Nat /\ Has("merger", f) \in Nat /\ MapHas(f) \in Nat
        /\ One(f \in FilesOf(introducer.segs)) \in Nat
    BY DEF Has, MapHas, One
  <2> QED
    BY <2>1 DEF Others
<1>6. files[f] - Cardinality(SnapsOf(snapshots, f)) = Others(f)
  BY <1>1 DEF IInv, Balanced, Balance
<1> QED
  BY <1>1, <1>2, <1>4, <1>5, <1>6

\* After Close nobody is left whom a snapshot or a file would count.
LEMMA ClosedIsEmpty == IInv => NothingLeaks
<1> SUFFICES ASSUME IInv, closer = "closed", \A r \in Readers : reader[r] = 0,
                    NEW f \in 1 .. Len(files)
             PROVE  files[f] <= 0
  BY DEF NothingLeaks
<1>1. root = 0 /\ introducer.segs = <<>> /\ \A l \in Loops : work[l].pc = "stopped" /\ work[l].snap = 0
  BY DEF IInv, Places
<1>2. \A l \in Loops : ~ Published(l) /\ ~ Unplaced(l)
  BY <1>1 DEF Published, Unplaced
<1>3. ~ HasMap
  BY <1>1 DEF HasMap, Loops
<1>4. Others(f) = 0
  <2>1. Has("persister", f) = 0 /\ Has("merger", f) = 0 /\ MapHas(f) = 0
        /\ One(f \in FilesOf(introducer.segs)) = 0
    BY <1>1, <1>2, <1>3, NoSegments DEF Has, MapHas, One, Loops
  <2> QED
    BY <2>1 DEF Others
<1>5. \A n \in 1 .. Len(snapshots) : snapshots[n].segs = <<>>
  <2> TAKE n \in 1 .. Len(snapshots)
  <2>1. n \in Nat /\ n # 0
    BY Shapes
  <2>2. ReadersOf(n) = {}
    BY <2>1 DEF ReadersOf
  <2>3. Holds("persister", n) = 0 /\ Holds("merger", n) = 0 /\ One(root = n) = 0
    BY <1>1, <1>2, <2>1 DEF Holds, One, Loops
  <2>4. Users(n) = 0
    BY <2>2, <2>3, FS_EmptySet DEF Users
  <2> QED
    BY <2>4 DEF IInv, Counted
<1>6. SnapsOf(snapshots, f) = {}
  BY <1>5, NoSegments DEF SnapsOf
<1>7. files[f] - 0 <= 0 /\ files[f] \in Int
  <2>1. Balance(files, snapshots, f) <= 0 /\ files[f] \in Int
    BY <1>4, Shapes DEF IInv, Balanced
  <2> QED
    BY <1>6, <2>1, FS_EmptySet DEF Balance
<1> QED
  BY <1>7

\* The invariant holds in every behaviour.
LEMMA CensusHolds == HandlesSpec => []IInv
  BY Initially, Inductive, PTL DEF HandlesSpec

\* Every segment of a snapshot somebody uses (the root's, a reader's, a loop's) is open: its
\* references (addRef, DecRef in index/segment_plugin.go, snapshot.go, introducer.go,
\* persister.go, merge.go) never run out early, unless Close cut a drain short.
THEOREM LiveSegmentsStayOpen == HandlesSpec => []LiveIsOpenUnlessInterrupted
  BY CensusHolds, InUseIsOpen, PTL

\* When the writer is closed and its readers too, no segment is open still, whatever came
\* too late, was skipped, failed, or was cut short.
THEOREM NoSegmentLeaks == HandlesSpec => []NothingLeaks
  BY CensusHolds, ClosedIsEmpty, PTL

=============================================================================
