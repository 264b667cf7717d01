------------------------- MODULE DurabilityProofs -------------------------
(***************************************************************************)
(* What the writer keeps on disk, for every set of keys, callers, batches   *)
(* and bounds, wherever the process dies: SnapshotsAreLoadable,             *)
(* CallbacksInOrder, FilesAreImmutable, and that the writer implements      *)
(* DurableIndex (ImplementsDurableIndex).                                   *)
(*                                                                         *)
(* JInv adds to the invariant of IndexWriterProofs what the files, the      *)
(* deletion policy and the callers have to do with each other: whatever     *)
(* counts as persisted has its file (Stored), the policy knows no segment   *)
(* that is not yet in a committed snapshot (Known) and every segment that a *)
(* complete snapshot needs (Retained), so that neither of the two cleanups  *)
(* takes what is needed; and the snapshot in hand is the only one that is   *)
(* incomplete (Single), so that OnDisk moves in one step only.              *)
(***************************************************************************)
EXTENDS IndexWriterProofs

-----------------------------------------------------------------------------
(* What the deletion policy was told when the writer opens. *)

LEMMA MaxIs ==
  ASSUME NEW N \in Nat, NEW S \in SUBSET (0 .. N), S # {}
  PROVE  Max(S) \in S /\ \A i \in S : i <= Max(S)
<1>1. S \in SUBSET Nat /\ \A i \in S : i <= N
  OBVIOUS
<1>2. PICK k \in S : \A i \in S : i <= k
  BY <1>1, GreatestOf
<1>3. \E n \in S : \A i \in S : n >= i
  BY <1>1, <1>2
<1>4. Max(S) \in S /\ \A i \in S : Max(S) >= i
  BY <1>3 DEF Max
<1> QED
  BY <1>1, <1>4

\* Sets of numbers one by one, the least first.
LEMMA MaxInduction ==
  ASSUME NEW N \in Nat, NEW E \in SUBSET (0 .. N), NEW G, {} \in G,
         \A S \in SUBSET E : S # {} /\ S \ {Max(S)} \in G => S \in G
  PROVE  \A S \in SUBSET E : S \in G
<1> DEFINE bad   == {S \in SUBSET E : S \notin G}
           sizes == {Cardinality(S) : S \in bad}
<1>1. \A S \in SUBSET E : IsFiniteSet(S) /\ Cardinality(S) \in Nat
  <2>1. IsFiniteSet(0 .. N)
    BY FS_Interval
  <2> QED
    BY <2>1, FS_Subset, FS_CardinalityType
<1> SUFFICES ASSUME bad # {} PROVE FALSE
  OBVIOUS
<1>2. sizes \in SUBSET Nat /\ sizes # {}
  BY <1>1
<1>3. PICK c \in sizes : \A i \in sizes : c <= i
  BY <1>2, LeastOf
<1>4. PICK S \in bad : Cardinality(S) = c
  OBVIOUS
<1>5. S # {} /\ S \in SUBSET (0 .. N)
  OBVIOUS
<1>6. Max(S) \in S
  BY <1>5, MaxIs
<1>7. Cardinality(S \ {Max(S)}) = Cardinality(S) - 1
  BY <1>1, <1>6, FS_RemoveElement
<1>8. S \ {Max(S)} \in bad
  BY <1>5
<1>9. Cardinality(S \ {Max(S)}) \in sizes
  BY <1>8
<1>10. c <= Cardinality(S \ {Max(S)}) /\ Cardinality(S) \in Nat
  BY <1>1, <1>3, <1>9
<1> HIDE DEF bad, sizes
<1> QED
  BY <1>4, <1>7, <1>10

\* There is a function that is defined by recursion on the greatest element.
Recurs(g, E, base, step) ==
  \A S \in SUBSET E : g[S] = IF S = {} THEN base ELSE step[<<g[S \ {Max(S)}], Max(S)>>]

LEMMA MaxRecursion ==
  ASSUME NEW N \in Nat, NEW E \in SUBSET (0 .. N), NEW P, NEW base \in P,
         NEW step \in [P \X E -> P]
  PROVE  \E g \in [SUBSET E -> P] : Recurs(g, E, base, step)
<1> DEFINE G == {S \in SUBSET E : \E g \in [SUBSET S -> P] : Recurs(g, S, base, step)}
<1>1. {} \in G
  <2>1. PICK g : g = [S \in SUBSET {} |-> base]
    OBVIOUS
  <2>2. g \in [SUBSET {} -> P] /\ Recurs(g, {}, base, step)
    BY <2>1 DEF Recurs
  <2> QED
    BY <2>2
<1>2. ASSUME NEW S \in SUBSET E, S # {}, S \ {Max(S)} \in G
      PROVE  S \in G
  <2>1. Max(S) \in S /\ \A i \in S : i <= Max(S)
    BY <1>2, MaxIs
  <2> DEFINE top  == Max(S)
             rest == S \ {top}
  <2>2. PICK g \in [SUBSET rest -> P] : Recurs(g, rest, base, step)
    BY <1>2
  <2>3. PICK h : h = [U \in SUBSET S |-> IF top \in U THEN step[<<g[U \ {top}], top>>] ELSE g[U]]
    OBVIOUS
  <2>4. \A U \in SUBSET S : top \in U => Max(U) = top /\ U # {} /\ U \ {top} \in SUBSET rest
    <3> SUFFICES ASSUME NEW U \in SUBSET S, top \in U PROVE Max(U) = top
      OBVIOUS
    <3>1. U \in SUBSET (0 .. N) /\ U # {}
      OBVIOUS
    <3>2. Max(U) \in U /\ \A i \in U : i <= Max(U)
      BY <3>1, MaxIs
    <3>3. Max(U) <= top /\ top <= Max(U)
      BY <2>1, <3>2
    <3>4. Max(U) \in Nat /\ top \in Nat
      <4>1. Max(U) \in 0 .. N /\ top \in 0 .. N
        BY <2>1, <3>1, <3>2
      <4> QED
        BY <4>1
    <3> HIDE DEF top
    <3> QED
      BY <3>3, <3>4
  <2>5. \A U \in SUBSET S : top \notin U => U \in SUBSET rest /\ U \ {Max(U)} \in SUBSET rest
    OBVIOUS
  <2>6. \A U \in SUBSET rest : g[U] \in P
    OBVIOUS
  <2>t. top \in E
    BY <2>1
  <2> HIDE DEF top, rest
  <2>7. h \in [SUBSET S -> P]
    <3> SUFFICES ASSUME NEW U \in SUBSET S
                 PROVE  (IF top \in U THEN step[<<g[U \ {top}], top>>] ELSE g[U]) \in P
      BY <2>3
    <3>1. CASE top \in U
      BY <2>4, <2>6, <2>t, <3>1
    <3>2. CASE top \notin U
      BY <2>5, <2>6, <3>2
    <3> QED
      BY <3>1, <3>2
  <2>8. \A U \in SUBSET rest : U \in SUBSET S /\ top \notin U
    BY DEF rest
  <2>9. ASSUME NEW U \in SUBSET S
        PROVE  h[U] = IF U = {} THEN base ELSE step[<<h[U \ {Max(U)}], Max(U)>>]
    <3>1. CASE top \in U
      <4>1. h[U] = step[<<g[U \ {top}], top>>]
        BY <2>3, <3>1
      <4>2. h[U \ {top}] = g[U \ {top}]
        BY <2>3, <2>4, <2>8, <3>1
      <4> QED
        BY <2>4, <3>1, <4>1, <4>2
    <3>2. CASE top \notin U
      <4>1. h[U] = g[U] /\ h[U \ {Max(U)}] = g[U \ {Max(U)}]
        BY <2>3, <2>5, <2>8, <3>2
      <4>2. g[U] = IF U = {} THEN base ELSE step[<<g[U \ {Max(U)}], Max(U)>>]
        BY <2>2, <2>5, <3>2 DEF Recurs
      <4> QED
        BY <4>1, <4>2
    <3> QED
      BY <3>1, <3>2
  <2> QED
    BY <2>7, <2>9 DEF Recurs
<1> HIDE DEF G
<1>3. E \in G
  BY <1>1, <1>2, MaxInduction
<1> QED
  BY <1>3 DEF G

LEMMA CommitIs ==
  ASSUME NEW p \in Policies, NEW epoch \in Nat, NEW ids \in SUBSET Nat
  PROVE  LET q == Commit(p, epoch, ids)
         IN  /\ q \in Policies
             /\ \A i \in DOMAIN q.live : q.live[i] = epoch \/ \E j \in DOMAIN p.live : q.live[i] = p.live[j]
             /\ \A e \in q.deletable : e \in p.deletable \/ \E j \in DOMAIN p.live : e = p.live[j]
             /\ \A x \in p.needs : x[1] # epoch => x \in q.needs
             /\ \A i \in ids : <<epoch, i>> \in q.needs
             /\ q.known = p.known \cup ids
<1> DEFINE live == Append(p.live, epoch)
           n    == Surplus(live)
           q    == Commit(p, epoch, ids)
<1>1. /\ p.live \in Seq(Nat) /\ p.deletable \in SUBSET Nat /\ p.needs \in SUBSET (Nat \X Nat)
      /\ p.known \in SUBSET Nat
  BY DEF Policies
<1>2. /\ live \in Seq(Nat) /\ Len(live) = Len(p.live) + 1 /\ Len(p.live) \in Nat
      /\ \A i \in 1 .. Len(p.live) : live[i] = p.live[i]
      /\ live[Len(p.live) + 1] = epoch
  BY <1>1
<1>3. n \in 0 .. Len(p.live)
  BY <1>2, KeepAssumption DEF Surplus
<1>4. /\ q = [live |-> SubSeq(live, n + 1, Len(live)),
              deletable |-> p.deletable \cup {live[i] : i \in 1 .. n},
              needs |-> {x \in p.needs : x[1] # epoch} \cup ({epoch} \X ids),
              known |-> p.known \cup ids]
  BY DEF Commit
<1> HIDE DEF live, n, q
<1>5. /\ q.live = SubSeq(live, n + 1, Len(live))
      /\ q.deletable = p.deletable \cup {live[i] : i \in 1 .. n}
      /\ q.needs = {x \in p.needs : x[1] # epoch} \cup ({epoch} \X ids)
      /\ q.known = p.known \cup ids
  BY <1>4
<1>6. /\ q.live \in Seq(Nat)
      /\ \A i \in DOMAIN q.live : i + n \in 1 .. Len(live) /\ q.live[i] = live[i + n]
  <2>1. n + 1 \in 1 .. Len(live) /\ Len(live) \in 1 .. Len(live)
    BY <1>2, <1>3
  <2>2. q.live \in Seq(Nat) /\ Len(q.live) = Len(live) - n
    BY <1>2, <1>3, <1>5, <2>1
  <2>3. \A i \in 1 .. Len(live) - n : q.live[i] = live[i + n]
    BY <1>2, <1>3, <1>5, <2>1
  <2>4. DOMAIN q.live = 1 .. Len(live) - n
    BY <2>2
  <2> QED
    <3>1. \A i \in 1 .. Len(live) - n : i + n \in 1 .. Len(live)
      <4>1. \A m, l \in Nat : m <= l => \A i \in 1 .. l - m : i + m \in 1 .. l
        OBVIOUS
      <4>2. n \in Nat /\ Len(live) \in Nat /\ n <= Len(live)
        BY <1>2, <1>3
      <4> QED
        BY <4>1, <4>2
    <3> QED
      BY <2>2, <2>3, <2>4, <3>1
<1>7. \A i \in 1 .. Len(live) : live[i] = epoch \/ \E j \in DOMAIN p.live : live[i] = p.live[j]
  <2> TAKE i \in 1 .. Len(live)
  <2>1. CASE i = Len(p.live) + 1
    BY <1>2, <2>1
  <2>2. CASE i \in 1 .. Len(p.live)
    BY <1>1, <1>2, <2>2
  <2> QED
    BY <1>2, <2>1, <2>2
<1>8. \A i \in 1 .. n : i \in 1 .. Len(p.live) /\ live[i] = p.live[i] /\ i \in DOMAIN p.live /\ live[i] \in Nat
  <2> TAKE i \in 1 .. n
  <2>1. \A l \in Nat : n \in 0 .. l => i \in 1 .. l
    OBVIOUS
  <2>2. i \in 1 .. Len(p.live)
    BY <1>2, <1>3, <2>1
  <2> QED
    BY <1>1, <1>2, <2>2
<1>9. q \in Policies
  <2>1. q.deletable \in SUBSET Nat
    BY <1>1, <1>5, <1>8
  <2>2. q.needs \in SUBSET (Nat \X Nat) /\ q.known \in SUBSET Nat
    BY <1>1, <1>5
  <2>3. q = [live |-> q.live, deletable |-> q.deletable, needs |-> q.needs, known |-> q.known]
    BY <1>4
  <2> QED
    BY <1>6, <2>1, <2>2, <2>3 DEF Policies
<1>10. \A i \in DOMAIN q.live : q.live[i] = epoch \/ \E j \in DOMAIN p.live : q.live[i] = p.live[j]
  BY <1>6, <1>7
<1>11. \A e \in q.deletable : e \in p.deletable \/ \E j \in DOMAIN p.live : e = p.live[j]
  BY <1>5, <1>8
<1>12. (\A x \in p.needs : x[1] # epoch => x \in q.needs) /\ (\A i \in ids : <<epoch, i>> \in q.needs)
  BY <1>5
<1> QED
  BY <1>5, <1>9, <1>10, <1>11, <1>12 DEF q

\* The segments that the file of an epoch names.
IdsAt(e) == {s.id : s \in (CHOOSE f \in snapFiles : f.epoch = e).segs}

\* What the deletion policy knows of these epochs.
Tells(S, p) ==
  /\ p \in Policies
  /\ \A i \in DOMAIN p.live : p.live[i] \in S
  /\ \A e \in p.deletable : e \in S /\ \E d \in S : e < d
  /\ \A e \in S : \A i \in IdsAt(e) : <<e, i>> \in p.needs
  /\ \A i \in p.known : \E e \in S : i \in IdsAt(e)

LEMMA ToldAtOpen ==
  ASSUME NEW N \in Nat, Epochs \in SUBSET (0 .. N), snapFiles \subseteq SnapFiles
  PROVE  \E p : Tells(Epochs, p) /\ PolicyAtOpen = TrackSegmentFiles(p, Ids(segFiles))
<1> DEFINE ids(e) == {s.id : s \in (CHOOSE f \in snapFiles : f.epoch = e).segs}
           next(t) == [epochs \in SUBSET Epochs |->
                        IF epochs = {} THEN NewPolicy
                        ELSE LET last == Max(epochs)
                             IN  Commit(t[epochs \ {last}], last, ids(last))]
           step == [x \in Policies \X Epochs |-> Commit(x[1], x[2], IdsAt(x[2]))]
           told == CHOOSE t : t = next(t)
<1>1. PolicyAtOpen = TrackSegmentFiles(told[Epochs], Ids(segFiles))
  BY DEF PolicyAtOpen
<1>2. \A e : ids(e) = IdsAt(e)
  BY DEF IdsAt
<1>3. \A e \in Epochs : e \in Nat /\ IdsAt(e) \in SUBSET Nat
  <2> TAKE e \in Epochs
  <2>1. \E f \in snapFiles : f.epoch = e
    BY DEF Epochs
  <2>2. PICK f \in snapFiles : f = CHOOSE h \in snapFiles : h.epoch = e
    BY <2>1
  <2>3. \A s \in f.segs : s.id \in Nat
    BY DEF SnapFiles
  <2> QED
    BY <2>2, <2>3 DEF IdsAt
<1>4. NewPolicy \in Policies
  BY DEF NewPolicy, Policies
<1>5. step \in [Policies \X Epochs -> Policies]
  <2> SUFFICES ASSUME NEW p \in Policies, NEW e \in Epochs PROVE Commit(p, e, IdsAt(e)) \in Policies
    OBVIOUS
  <2> QED
    BY <1>3, CommitIs
<1>6. \A p \in Policies, e \in Epochs : step[<<p, e>>] = Commit(p, e, IdsAt(e))
  OBVIOUS
<1> HIDE DEF step
<1>7. PICK g \in [SUBSET Epochs -> Policies] : Recurs(g, Epochs, NewPolicy, step)
  BY <1>4, <1>5, MaxRecursion
<1>8. \A S \in SUBSET Epochs : S # {} => Max(S) \in S /\ S \ {Max(S)} \in SUBSET Epochs /\ \A i \in S : i <= Max(S)
  <2> SUFFICES ASSUME NEW S \in SUBSET Epochs, S # {} PROVE Max(S) \in S /\ \A i \in S : i <= Max(S)
    OBVIOUS
  <2>1. S \in SUBSET (0 .. N)
    OBVIOUS
  <2> QED
    BY <2>1, MaxIs
<1>9. g = next(g)
  <2>1. \A S \in SUBSET Epochs :
          g[S] = IF S = {} THEN NewPolicy ELSE Commit(g[S \ {Max(S)}], Max(S), ids(Max(S)))
    <3> TAKE S \in SUBSET Epochs
    <3>1. CASE S = {}
      BY <1>7, <3>1 DEF Recurs
    <3>2. CASE S # {}
      <4>1. g[S] = step[<<g[S \ {Max(S)}], Max(S)>>]
        BY <1>7, <3>2 DEF Recurs
      <4>2. g[S \ {Max(S)}] \in Policies /\ Max(S) \in Epochs
        BY <1>8, <3>2
      <4>3. g[S] = Commit(g[S \ {Max(S)}], Max(S), IdsAt(Max(S)))
        BY <1>6, <4>1, <4>2
      <4> QED
        BY <1>2, <3>2, <4>3
    <3> QED
      BY <3>1, <3>2
  <2>2. g = [S \in SUBSET Epochs |-> g[S]]
    OBVIOUS
  <2> QED
    BY <2>1, <2>2
<1>10. told = next(told)
  BY <1>9
<1> HIDE DEF told
<1>11. PICK t : t = told
  OBVIOUS
<1>12. \A S \in SUBSET Epochs :
         t[S] = IF S = {} THEN NewPolicy ELSE Commit(t[S \ {Max(S)}], Max(S), IdsAt(Max(S)))
  BY <1>2, <1>10, <1>11
<1> DEFINE G == {S \in SUBSET Epochs : Tells(S, t[S])}
<1>13. {} \in G
  <2>1. t[{}] = NewPolicy
    BY <1>12
  <2>2. Tells({}, NewPolicy)
    BY <1>4 DEF Tells, NewPolicy
  <2> QED
    BY <2>1, <2>2
<1>14. ASSUME NEW S \in SUBSET Epochs, S # {}, S \ {Max(S)} \in G
       PROVE  S \in G
  <2>1. PICK top \in S : top = Max(S) /\ \A i \in S : i <= top
    BY <1>8, <1>14
  <2>2. PICK p : p = t[S \ {top}]
    OBVIOUS
  <2>3. PICK q : q = t[S]
    OBVIOUS
  <2>4. Tells(S \ {top}, p)
    BY <1>14, <2>1, <2>2
  <2>5. q = Commit(p, top, IdsAt(top))
    BY <1>12, <1>14, <2>1, <2>2, <2>3
  <2>6. top \in Nat /\ IdsAt(top) \in SUBSET Nat /\ p \in Policies
    BY <1>3, <2>4 DEF Tells
  <2>7. /\ q \in Policies
        /\ \A i \in DOMAIN q.live : q.live[i] = top \/ \E j \in DOMAIN p.live : q.live[i] = p.live[j]
        /\ \A e \in q.deletable : e \in p.deletable \/ \E j \in DOMAIN p.live : e = p.live[j]
        /\ \A x \in p.needs : x[1] # top => x \in q.needs
        /\ \A i \in IdsAt(top) : <<top, i>> \in q.needs
        /\ q.known = p.known \cup IdsAt(top)
    BY <2>5, <2>6, CommitIs
  <2>8. \A e \in S \ {top} : e < top
    <3> SUFFICES ASSUME NEW e \in S, e # top PROVE e < top
      OBVIOUS
    <3>1. e \in Nat /\ e <= top
      BY <1>3, <2>1
    <3> QED
      BY <2>6, <3>1
  <2>9. \A e \in q.deletable : e \in S /\ \E d \in S : e < d
    <3> TAKE e \in q.deletable
    <3>1. e \in S \ {top}
      BY <2>4, <2>7 DEF Tells
    <3> QED
      BY <2>8, <3>1
  <2>10. \A i \in DOMAIN q.live : q.live[i] \in S
    BY <2>4, <2>7 DEF Tells
  <2>11. \A e \in S : \A i \in IdsAt(e) : <<e, i>> \in q.needs
    <3> TAKE e \in S
    <3> TAKE i \in IdsAt(e)
    <3>1. CASE e = top
      BY <2>7, <3>1
    <3>2. CASE e # top
      <4>1. <<e, i>> \in p.needs /\ <<e, i>>[1] # top
        BY <2>4, <3>2 DEF Tells
      <4> QED
        BY <2>7, <4>1
    <3> QED
      BY <3>1, <3>2
  <2>12. \A i \in q.known : \E e \in S : i \in IdsAt(e)
    BY <2>4, <2>7 DEF Tells
  <2>13. Tells(S, q)
    BY <2>7, <2>9, <2>10, <2>11, <2>12 DEF Tells
  <2> QED
    BY <2>3, <2>13
<1> HIDE DEF G
<1>15. Epochs \in G
  BY <1>13, <1>14, MaxInduction
<1>16. Tells(Epochs, t[Epochs])
  BY <1>15 DEF G
<1> QED
  BY <1>1, <1>11, <1>16

USE DEF Resting, ResetMerger, NoSnap, Idle

-----------------------------------------------------------------------------
(* The invariant. *)

\* The persister at rest holds nothing.
Still ==
  ~Active => /\ persister.snap = NoSnap /\ persister.fresh = {}
             /\ persister.chans = {} /\ persister.callbacks = <<>>

\* What counts as persisted has its file, and so has what is complete on disk.
Stored ==
  /\ \A s \in Snaps : s.persisted => File(s) \in segFiles
  /\ \A m \in Merges : File(m) \in segFiles
  /\ \A i \in persister.fresh : HasFile(i)
  /\ \A f \in snapFiles : f.complete => \A s \in f.segs : HasFile(s.id)

\* What this attempt wrote are segments of the snapshot that have no file yet.
Writing ==
  /\ persister.fresh \subseteq Ids(Unpersisted(persister.snap.segs))
  /\ persister.pc \in {"taken", "merging"} => persister.fresh = {}

\* The deletion policy knows no segment that is not yet part of a committed snapshot, and
\* what it knows of the root is part of the newest one.
Known ==
  up => /\ policy.known \subseteq 0 .. nextSegmentID
        /\ policy.known \cap (Mem \cup Ids(Merges)) = {}
        /\ Named \cap Ids(Merges) = {}
        /\ \A s \in root.segs : s.id \in policy.known =>
             /\ s.id \in Ids(OnDisk.segs)
             /\ Active => s.id \in Ids(persister.snap.segs)

\* The newest snapshot is never deletable, and every complete one keeps its segments.
Retained ==
  up => /\ policy \in Policies
        /\ \A i \in DOMAIN policy.live : policy.live[i] <= OnDisk.epoch
        /\ \A e \in policy.deletable : e < OnDisk.epoch
        /\ \A f \in snapFiles : f.complete => \A s \in f.segs : <<f.epoch, s.id>> \in policy.needs

\* One file per epoch, and the only incomplete one is that of the persister.
Single ==
  /\ \A f, g \in snapFiles : f.complete /\ f.epoch = g.epoch => f = g
  /\ up => \A f \in snapFiles : ~f.complete => persister.pc = "snapshot" /\ f = SnapshotFile(FALSE)

\* Who waits for which snapshot, and what was acknowledged.
Told ==
  /\ persister.chans \subseteq Writers /\ rootPersisted \subseteq Writers
  /\ persister.chans \cap rootPersisted = {}
  /\ \A w \in rootPersisted : writer[w].pc = "waiting" /\ writer[w].at \in 0 .. Batched
  /\ \A w \in persister.chans : writer[w].pc = "waiting" /\ writer[w].at \in 0 .. persister.snap.upto
  /\ acked \in 0 .. OnDisk.upto
  /\ persister.pc = "committed" => persister.snap.upto <= OnDisk.upto

Increasing(s) == \A i, j \in DOMAIN s : i < j => s[i] < s[j]
Before(s, t)  == \A i \in DOMAIN s, j \in DOMAIN t : s[i] < t[j]
UpTo(s, n)    == \A i \in DOMAIN s : s[i] <= n

\* The callbacks that were called, those of failed attempts, those of this attempt and
\* those of the root follow each other.
Callbacks ==
  /\ fired \in Seq(Nat) /\ persister.carried \in Seq(Nat)
  /\ persister.callbacks \in Seq(Nat) /\ rootCallbacks \in Seq(Nat)
  /\ Increasing(fired) /\ Increasing(persister.carried)
  /\ Increasing(persister.callbacks) /\ Increasing(rootCallbacks)
  /\ Before(fired, persister.carried) /\ Before(fired, persister.callbacks)
  /\ Before(fired, rootCallbacks) /\ Before(persister.carried, persister.callbacks)
  /\ Before(persister.carried, rootCallbacks) /\ Before(persister.callbacks, rootCallbacks)
  /\ UpTo(fired, OnDisk.upto) /\ UpTo(persister.carried, Batched)
  /\ UpTo(persister.callbacks, persister.snap.upto) /\ UpTo(rootCallbacks, Batched)
  /\ Active => UpTo(persister.carried, persister.snap.upto)

\* A batch that waits for the introducer is one of Batches.
Asked ==
  \A w \in Senders : \E b \in Batches :
    writer[w].in.upd = b.upd /\ writer[w].in.terms = b.upd \cup b.del

JInv == /\ Still /\ Stored /\ Writing /\ Known /\ Retained /\ Single /\ Told /\ Callbacks /\ Asked

-----------------------------------------------------------------------------
(* The newest snapshot. *)

LEMMA OnDiskSame ==
  ASSUME {f \in snapFiles : f.complete}' = {f \in snapFiles : f.complete}
  PROVE  OnDisk' = OnDisk
<1>1. PICK c : c = {f \in snapFiles : f.complete}
  OBVIOUS
<1>2. OnDisk = IF c = {} THEN [epoch |-> 0, segs |-> {}, upto |-> 0, complete |-> TRUE] ELSE Newest(c)
  BY <1>1 DEF OnDisk
<1>3. OnDisk' = IF c = {} THEN [epoch |-> 0, segs |-> {}, upto |-> 0, complete |-> TRUE] ELSE Newest(c)
  BY <1>1 DEF OnDisk
<1> QED
  BY <1>2, <1>3

\* No other complete snapshot is as new.
LEMMA NewestIs ==
  ASSUME NEW S \in SUBSET SnapFiles, \A a, b \in S : a.complete /\ a.epoch = b.epoch => a = b,
         NEW f \in S, f.complete, \A g \in S : g.complete => g.epoch <= f.epoch
  PROVE  Newest({g \in S : g.complete}) = f /\ {g \in S : g.complete} # {}
<1> DEFINE C == {g \in S : g.complete}
<1>1. PICK d : d = Newest(C)
  OBVIOUS
<1>2. d \in C /\ \A g \in C : g.epoch <= d.epoch
  BY <1>1 DEF Newest
<1>3. d.epoch <= f.epoch /\ f.epoch <= d.epoch /\ f.epoch \in Nat /\ d.epoch \in Nat
  BY <1>2 DEF SnapFiles
<1>4. d.epoch = f.epoch
  BY <1>3
<1> QED
  BY <1>1, <1>2, <1>4

\* Which snapshots are complete when the persister is not writing one.
LEMMA AllComplete ==
  ASSUME Single, up, persister.pc # "snapshot"
  PROVE  \A f \in snapFiles : f.complete
  BY DEF Single

\* Files go but not the newest.
LEMMA OnDiskLeft ==
  ASSUME IInv, IInv', Single, Single', snapFiles' \subseteq snapFiles,
         OnDisk \in snapFiles => OnDisk \in snapFiles'
  PROVE  OnDisk' = OnDisk
<1>1. CASE OnDisk \in snapFiles /\ OnDisk.complete
  <2>1. PICK d : d = OnDisk
    OBVIOUS
  <2>2. d \in snapFiles' /\ d.complete
    BY <1>1, <2>1
  <2>3. \A g \in snapFiles' : g.complete => g.epoch <= d.epoch
    BY <2>1, OnDiskIs
  <2>4. snapFiles' \in SUBSET SnapFiles /\ \A a, b \in snapFiles' : a.complete /\ a.epoch = b.epoch => a = b
    BY DEF IInv, Typed, Single
  <2>5. Newest({g \in snapFiles' : g.complete}) = d /\ {g \in snapFiles' : g.complete} # {}
    BY <2>2, <2>3, <2>4, NewestIs
  <2>6. OnDisk' = d
    BY <2>5 DEF OnDisk
  <2> QED
    BY <2>1, <2>6
<1>2. CASE \A f \in snapFiles : ~f.complete
  <2>1. {f \in snapFiles : f.complete}' = {f \in snapFiles : f.complete}
    BY <1>2
  <2> QED
    BY <2>1, OnDiskSame
<1> QED
  BY <1>1, <1>2, OnDiskIs

-----------------------------------------------------------------------------
(* The steps that leave the persister alone. *)

\* Each step but those of the persister and those that start and end the process.
Elsewhere ==
  \/ \E w \in Writers : Prepare(w) \/ IntroduceSegment(w) \/ IntroduceFails(w)
  \/ MergerMergeDone \/ Merger \/ UNCHANGED vars

LEMMA ElsewhereIs ==
  ASSUME Elsewhere
  PROVE  UNCHANGED <<up, persister, policy, snapFiles, acked, fired>>
<1>1. CASE \E w \in Writers : Prepare(w) \/ IntroduceSegment(w) \/ IntroduceFails(w)
  BY <1>1 DEF Prepare, IntroduceSegment, IntroduceFails, disk, ghosts
<1>2. CASE MergerMergeDone \/ MergerPlan \/ MergerMerge \/ MergerRest
  BY <1>2 DEF MergerMergeDone, MergerPlan, MergerMerge, MergerRest, disk, ghosts
<1>3. CASE UNCHANGED vars
  BY <1>3 DEF vars, memory, disk, ghosts
<1> QED
  BY <1>1, <1>2, <1>3 DEF Elsewhere, Merger

\* The others, one by one.
LEMMA NextIs ==
  ASSUME [Next]_vars
  PROVE  \/ Elsewhere
         \/ PersisterTake \/ PersisterMerge \/ PersisterMergeDone \/ PersistSegment
         \/ IntroducePersist \/ SnapshotCreate \/ SnapshotWritten
         \/ PersistSucceeds \/ PersistFails \/ CleanupSnapshots \/ CleanupSegments
         \/ Crash \/ OpenWriter
  BY DEF Next, Introducer, Persister, Elsewhere

\* The persister comes back to its loop, or starts.
LEMMA RestsThen ==
  ASSUME PersistSucceeds \/ PersistFails \/ Crash \/ OpenWriter
  PROVE  /\ persister'.pc = "idle" /\ persister'.snap = NoSnap /\ persister'.fresh = {}
         /\ persister'.chans = {} /\ persister'.callbacks = <<>> /\ persister'.merge = {}
<1>1. \E l, c : persister' = Resting(l, c)
  BY DEF PersistSucceeds, PersistFails, Crash, OpenWriter
<1> QED
  BY <1>1

-----------------------------------------------------------------------------
(* Still *)

\* A persister that went back to its loop has let go of everything.
LEMMA StillKeeps ==
  ASSUME IInv, Still, [Next]_vars
  PROVE  Still'
<1> USE DEF Still, Active
<1>0. Shape
  BY DEF IInv
<1>1. CASE Elsewhere
  BY <1>1, ElsewhereIs
<1>2. CASE PersisterTake \/ PersisterMerge \/ PersistSegment \/ SnapshotCreate \/ SnapshotWritten
  BY <1>0, <1>2 DEF PersisterTake, PersisterMerge, PersistSegment, SnapshotCreate, SnapshotWritten, Shape,
     MayMergeInMemory
<1>3. CASE PersisterMergeDone
  <2>1. persister'.pc = "writing"
    BY <1>0, <1>3 DEF PersisterMergeDone, Shape
  <2> QED
    BY <2>1
<1>4. CASE IntroducePersist
  BY <1>0, <1>4 DEF IntroducePersist, Shape
<1>5. CASE PersistSucceeds \/ PersistFails \/ Crash \/ OpenWriter
  BY <1>5, RestsThen
<1>6. CASE CleanupSnapshots \/ CleanupSegments
  BY <1>0, <1>6 DEF CleanupSnapshots, CleanupSegments, Shape
<1> QED
  BY <1>1, <1>2, <1>3, <1>4, <1>5, <1>6, NextIs

-----------------------------------------------------------------------------
(* Single *)

\* A snapshot file gets an epoch that no complete one has.
LEMMA SingleKeeps ==
  ASSUME IInv, IInv', Still, Single, [Next]_vars
  PROVE  Single'
<1>0. Shape
  BY DEF IInv
<1>1. CASE Elsewhere
  BY <1>1, ElsewhereIs DEF Single, SnapshotFile
<1>2. CASE PersisterTake \/ PersisterMerge \/ PersistSegment \/ IntroducePersist \/ PersisterMergeDone
  <2>1. persister.pc # "snapshot" /\ UNCHANGED <<snapFiles, up>>
    BY <1>2 DEF PersisterTake, PersisterMerge, PersistSegment, IntroducePersist, PersisterMergeDone,
       disk, MayMergeInMemory
  <2> QED
    BY <2>1 DEF Single
<1>3. CASE SnapshotCreate
  <2>1. PICK f : f = SnapshotFile(FALSE)
    OBVIOUS
  <2>2. /\ snapFiles' = snapFiles \cup {f} /\ persister'.pc = "snapshot"
        /\ persister'.snap = persister.snap /\ up' = up
        /\ persister.pc \in {"taken", "writing"}
        /\ f.complete = FALSE /\ f.epoch = persister.snap.epoch
    BY <1>0, <1>3, <2>1 DEF SnapshotCreate, Shape, SnapshotFile
  <2>3. up
    BY <2>2 DEF IInv, Down
  <2>4. SnapshotFile(FALSE)' = f
    BY <2>1, <2>2 DEF SnapshotFile
  <2>5. \A g \in snapFiles : g.complete /\ g.epoch # f.epoch
    <3> TAKE g \in snapFiles
    <3>1. g.complete
      BY <2>2, <2>3, AllComplete
    <3>2. g.epoch <= persister.last /\ persister.last < f.epoch
      BY <2>2, <2>3, <3>1 DEF IInv, Order, Steps, Active
    <3>3. g.epoch \in Nat /\ persister.last \in Nat /\ f.epoch \in Nat
      BY <2>2 DEF IInv, Typed, SnapFiles, Snapshots
    <3> QED
      BY <3>1, <3>2, <3>3
  <2> QED
    BY <2>2, <2>3, <2>4, <2>5 DEF Single
<1>4. CASE SnapshotWritten
  <2>1. PICK f : f = SnapshotFile(TRUE)
    OBVIOUS
  <2>2. /\ snapFiles' = (snapFiles \ {SnapshotFile(FALSE)}) \cup {f} /\ up' = up
        /\ persister.pc = "snapshot" /\ f.complete /\ f.epoch = persister.snap.epoch
    BY <1>4, <2>1 DEF SnapshotWritten, SnapshotFile
  <2>3. up
    BY <2>2 DEF IInv, Down
  <2>4. \A g \in snapFiles : g.complete => g.epoch # f.epoch
    <3> TAKE g \in snapFiles
    <3> SUFFICES ASSUME g.complete PROVE g.epoch # f.epoch
      OBVIOUS
    <3>2. g.epoch <= persister.last /\ persister.last < f.epoch
      BY <2>2, <2>3 DEF IInv, Order, Steps, Active
    <3>3. g.epoch \in Nat /\ persister.last \in Nat /\ f.epoch \in Nat
      BY <2>2 DEF IInv, Typed, SnapFiles, Snapshots
    <3> QED
      BY <3>2, <3>3
  <2>5. \A g \in snapFiles' : g.complete /\ (g = f \/ g \in snapFiles)
    BY <2>2, <2>3 DEF Single
  <2> QED
    BY <2>2, <2>4, <2>5 DEF Single
<1>5. CASE PersistFails
  <2>1. snapFiles' = snapFiles \ {SnapshotFile(FALSE)} /\ up' = up
    BY <1>5 DEF PersistFails
  <2>2. up
    BY <1>5 DEF PersistFails, IInv, Down
  <2>3. \A f \in snapFiles' : f \in snapFiles /\ f.complete
    BY <2>1, <2>2 DEF Single
  <2> QED
    BY <2>3 DEF Single
<1>6. CASE PersistSucceeds \/ CleanupSnapshots \/ CleanupSegments
  <2>1. snapFiles' \subseteq snapFiles /\ up' = up /\ persister.pc # "snapshot"
    BY <1>6 DEF PersistSucceeds, CleanupSnapshots, CleanupSegments, disk
  <2> QED
    BY <2>1 DEF Single
<1>7. CASE Crash
  BY <1>7 DEF Crash, disk, Single
<1>8. CASE OpenWriter
  <2>1. snapFiles' \subseteq snapFiles /\ \A f \in snapFiles : f.complete
    BY <1>8 DEF OpenWriter, Loadable
  <2> QED
    BY <2>1 DEF Single
<1> QED
  BY <1>1, <1>2, <1>3, <1>4, <1>5, <1>6, <1>7, <1>8, NextIs

-----------------------------------------------------------------------------
(* Opening *)

\* What OpenWriter leaves of the files and of the deletion policy.
LEMMA OpenIs ==
  ASSUME IInv, Single, OpenWriter
  PROVE  /\ snapFiles' \subseteq snapFiles
         /\ \A f \in snapFiles : f.complete /\ (f.epoch = OnDisk.epoch => f \in snapFiles')
         /\ policy' \in Policies
         /\ \A i \in DOMAIN policy'.live : policy'.live[i] <= OnDisk.epoch
         /\ policy'.deletable = {}
         /\ \A f \in snapFiles' : \A s \in f.segs : <<f.epoch, s.id>> \in policy'.needs
         /\ policy'.known \subseteq Ids(segFiles)
         /\ \A g \in segFiles : g \in segFiles' \/ \A f \in snapFiles' : g.id \notin Ids(f.segs)
<1>1. /\ \A f \in snapFiles : Loadable(f)
      /\ snapFiles = {f \in snapFiles : f.complete}
  BY DEF OpenWriter, Loadable
<1>2. PICK N \in Nat : \A f \in snapFiles : f.epoch <= N
  BY <1>1, DiskIsBounded
<1>3. \A f \in snapFiles : f.epoch \in Nat /\ f.epoch \in Epochs
  BY DEF IInv, Typed, SnapFiles, Epochs
<1>4. Epochs \in SUBSET (0 .. N)
  BY <1>2, <1>3 DEF Epochs
<1>5. PICK p : Tells(Epochs, p) /\ PolicyAtOpen = TrackSegmentFiles(p, Ids(segFiles))
  BY <1>4, ToldAtOpen DEF IInv, Typed
<1>6. PICK tracked : tracked = PolicyAtOpen
  OBVIOUS
<1>7. PICK cleaned : cleaned = ForgetSnapshots(tracked, tracked.deletable)
  OBVIOUS
<1>8. /\ policy' = ForgetSegments(cleaned, Unneeded(cleaned))
      /\ snapFiles' = {f \in snapFiles : f.epoch \notin tracked.deletable}
      /\ segFiles' = Without(Unneeded(cleaned))
  BY <1>6, <1>7 DEF OpenWriter
<1>9. /\ p.live \in Seq(Nat) /\ p.deletable \in SUBSET Nat /\ p.needs \in SUBSET (Nat \X Nat)
      /\ p.known \in SUBSET Nat
      /\ p = [live |-> p.live, deletable |-> p.deletable, needs |-> p.needs, known |-> p.known]
  BY <1>5 DEF Tells, Policies
<1>10. /\ tracked.live = p.live /\ tracked.deletable = p.deletable /\ tracked.needs = p.needs
       /\ tracked.known = p.known \cup Ids(segFiles)
       /\ tracked = [live |-> p.live, deletable |-> p.deletable, needs |-> p.needs,
                     known |-> p.known \cup Ids(segFiles)]
  BY <1>5, <1>6, <1>9 DEF TrackSegmentFiles
<1>11. /\ cleaned.live = p.live /\ cleaned.deletable = {}
       /\ cleaned.needs = {x \in p.needs : x[1] \notin p.deletable}
       /\ cleaned.known = p.known \cup Ids(segFiles)
       /\ cleaned = [live |-> p.live, deletable |-> {},
                     needs |-> {x \in p.needs : x[1] \notin p.deletable},
                     known |-> p.known \cup Ids(segFiles)]
  BY <1>7, <1>10 DEF ForgetSnapshots
<1>12. /\ policy'.live = p.live /\ policy'.deletable = {} /\ policy'.needs = cleaned.needs
       /\ policy'.known = cleaned.known \ Unneeded(cleaned)
       /\ policy' = [live |-> p.live, deletable |-> {}, needs |-> cleaned.needs,
                     known |-> cleaned.known \ Unneeded(cleaned)]
  BY <1>8, <1>11 DEF ForgetSegments
<1>13. \A f \in snapFiles : IdsAt(f.epoch) = Ids(f.segs)
  <2> TAKE f \in snapFiles
  <2>1. PICK g \in snapFiles : g = (CHOOSE h \in snapFiles : h.epoch = f.epoch) /\ g.epoch = f.epoch
    OBVIOUS
  <2>2. g = f
    BY <1>1, <2>1 DEF Single
  <2> QED
    BY <2>1, <2>2 DEF IdsAt, Ids
<1>14. Ids(segFiles) \in SUBSET Nat
  BY DEF IInv, Typed, Files, Ids
<1>15. p.known \subseteq Ids(segFiles)
  <2> SUFFICES ASSUME NEW i \in p.known PROVE i \in Ids(segFiles)
    OBVIOUS
  <2>1. PICK e \in Epochs : i \in IdsAt(e)
    BY <1>5 DEF Tells
  <2>2. PICK f \in snapFiles : f.epoch = e
    BY DEF Epochs
  <2>3. PICK s \in f.segs : s.id = i
    BY <1>13, <2>1, <2>2 DEF Ids
  <2> QED
    BY <1>1, <2>3 DEF Loadable, HasFile, Ids
<1>16. policy' \in Policies
  BY <1>9, <1>11, <1>12, <1>14 DEF Policies
<1>17. \A e \in Epochs : e <= OnDisk.epoch
  BY <1>1, OnDiskIs DEF Epochs
<1>18. \A e \in p.deletable : e # OnDisk.epoch
  <2> SUFFICES ASSUME OnDisk.epoch \in p.deletable PROVE FALSE
    OBVIOUS
  <2>1. PICK d \in Epochs : OnDisk.epoch < d
    BY <1>5 DEF Tells
  <2>2. d <= OnDisk.epoch /\ d \in Nat /\ OnDisk.epoch \in Nat
    BY <1>4, <1>17, OnDiskIs
  <2> QED
    BY <2>1, <2>2
<1>19. \A i \in DOMAIN policy'.live : policy'.live[i] <= OnDisk.epoch
  BY <1>5, <1>12, <1>17 DEF Tells
<1>20. \A f \in snapFiles' : \A s \in f.segs : <<f.epoch, s.id>> \in policy'.needs
  <2> SUFFICES ASSUME NEW f \in snapFiles', NEW s \in f.segs PROVE <<f.epoch, s.id>> \in cleaned.needs
    BY <1>12
  <2>1. f \in snapFiles /\ f.epoch \notin p.deletable /\ f.epoch \in Epochs
    BY <1>3, <1>8, <1>10
  <2>2. s.id \in IdsAt(f.epoch)
    BY <1>13, <2>1 DEF Ids
  <2> QED
    BY <1>5, <1>11, <2>1, <2>2 DEF Tells
<1>21. \A g \in segFiles : g \in segFiles' \/ \A f \in snapFiles' : g.id \notin Ids(f.segs)
  <2> SUFFICES ASSUME NEW g \in segFiles, NEW f \in snapFiles', NEW s \in f.segs, s.id = g.id
               PROVE  g.id \notin Unneeded(cleaned)
    BY <1>8 DEF Without, Ids
  <2>1. <<f.epoch, g.id>> \in cleaned.needs
    BY <1>12, <1>20
  <2> QED
    BY <2>1 DEF Unneeded
<1>22. policy'.known \subseteq Ids(segFiles)
  BY <1>11, <1>12, <1>15
<1>23. snapFiles' \subseteq snapFiles
       /\ \A f \in snapFiles : f.complete /\ (f.epoch = OnDisk.epoch => f \in snapFiles')
  BY <1>1, <1>8, <1>10, <1>18
<1> QED
  BY <1>12, <1>16, <1>19, <1>20, <1>21, <1>22, <1>23

-----------------------------------------------------------------------------
(* The newest snapshot *)

\* Every step but the one that completes a snapshot.
NotSaving ==
  \/ Elsewhere
  \/ PersisterTake \/ PersisterMerge \/ PersisterMergeDone \/ PersistSegment
  \/ IntroducePersist \/ SnapshotCreate \/ PersistSucceeds \/ PersistFails
  \/ CleanupSnapshots \/ CleanupSegments \/ Crash \/ OpenWriter

\* Nothing but a snapshot that was written changes which is the newest.
LEMMA OnDiskKept ==
  ASSUME IInv, IInv', Still, Single, Single', Retained, NotSaving
  PROVE  OnDisk' = OnDisk
<1>1. CASE UNCHANGED snapFiles
  BY <1>1, OnDiskSame
<1>2. CASE SnapshotCreate
  <2>1. PICK f : f = SnapshotFile(FALSE)
    OBVIOUS
  <2>2. snapFiles' = snapFiles \cup {f} /\ ~f.complete
    BY <1>2, <2>1 DEF SnapshotCreate, SnapshotFile
  <2>3. {g \in snapFiles : g.complete}' = {g \in snapFiles : g.complete}
    BY <2>2
  <2> QED
    BY <2>3, OnDiskSame
<1>3. CASE PersistFails
  <2>1. PICK f : f = SnapshotFile(FALSE)
    OBVIOUS
  <2>2. snapFiles' = snapFiles \ {f} /\ ~f.complete
    BY <1>3, <2>1 DEF PersistFails, SnapshotFile
  <2>3. {g \in snapFiles : g.complete}' = {g \in snapFiles : g.complete}
    BY <2>2
  <2> QED
    BY <2>3, OnDiskSame
<1>4. CASE CleanupSnapshots
  <2>1. up
    BY <1>4 DEF CleanupSnapshots
  <2>2. PICK failed \in SUBSET policy.deletable :
          snapFiles' = {f \in snapFiles : f.epoch \notin policy.deletable \ failed}
    BY <1>4 DEF CleanupSnapshots
  <2>3. OnDisk.epoch \in Nat /\ (OnDisk.epoch \in policy.deletable => OnDisk.epoch < OnDisk.epoch)
    BY <2>1, OnDiskIs DEF Retained
  <2>4. OnDisk \in snapFiles => OnDisk \in snapFiles'
    BY <2>2, <2>3
  <2> QED
    BY <2>2, <2>4, OnDiskLeft
<1>5. CASE OpenWriter
  BY <1>5, OpenIs, OnDiskLeft
<1>6. CASE PersisterTake \/ PersisterMerge \/ PersisterMergeDone \/ PersistSegment \/ IntroducePersist
  <2>1. UNCHANGED snapFiles
    BY <1>6 DEF PersisterTake, PersisterMerge, PersisterMergeDone, PersistSegment, IntroducePersist, disk
  <2> QED
    BY <1>1, <2>1
<1>7. CASE PersistSucceeds \/ CleanupSegments \/ Crash
  <2>1. UNCHANGED snapFiles
    BY <1>7 DEF PersistSucceeds, CleanupSegments, Crash, disk
  <2> QED
    BY <1>1, <2>1
<1>8. CASE Elsewhere
  BY <1>1, <1>8, ElsewhereIs
<1> QED
  BY <1>2, <1>3, <1>4, <1>5, <1>6, <1>7, <1>8 DEF NotSaving

\* The snapshot that was written is newer than all others.
LEMMA OnDiskMoves ==
  ASSUME IInv, IInv', Single, Single', SnapshotWritten
  PROVE  /\ up /\ up'
         /\ OnDisk' = SnapshotFile(TRUE)
         /\ OnDisk'.epoch = persister.snap.epoch /\ OnDisk'.upto = persister.snap.upto
         /\ Ids(OnDisk'.segs) = Ids(persister.snap.segs)
         /\ OnDisk.epoch < persister.snap.epoch /\ OnDisk.upto <= persister.snap.upto
         /\ snapFiles' \subseteq snapFiles \cup {SnapshotFile(TRUE)}
         /\ \A g \in snapFiles : g.complete => g.epoch < persister.snap.epoch
<1>1. PICK f : f = SnapshotFile(TRUE)
  OBVIOUS
<1>2. /\ snapFiles' = (snapFiles \ {SnapshotFile(FALSE)}) \cup {f}
      /\ persister.pc = "snapshot" /\ up' = up
  BY <1>1 DEF SnapshotWritten
<1>3. /\ f.complete /\ f.epoch = persister.snap.epoch /\ f.upto = persister.snap.upto
      /\ f.segs = {[id |-> s.id, deleted |-> s.deleted] : s \in persister.snap.segs}
  BY <1>1 DEF SnapshotFile
<1>4. up
  BY <1>2 DEF IInv, Down
<1>5. /\ persister.last < persister.snap.epoch /\ persister.last \in Nat
      /\ persister.snap.epoch \in Nat /\ persister.snap.upto \in Nat
  BY <1>2 DEF IInv, Steps, Active, Typed, Snapshots
<1>6. \A g \in snapFiles : g.complete => g.epoch < persister.snap.epoch /\ g.upto <= persister.snap.upto
  <2> SUFFICES ASSUME NEW g \in snapFiles, g.complete
               PROVE  g.epoch < persister.snap.epoch /\ g.upto <= persister.snap.upto
    OBVIOUS
  <2>1. g.epoch <= persister.last /\ g.upto <= persister.snap.upto
    BY <1>2, <1>4 DEF IInv, Order, Active
  <2>2. g.epoch \in Nat
    BY DEF IInv, Typed, SnapFiles
  <2> QED
    BY <1>5, <2>1, <2>2
<1>7. OnDisk' = f
  <2>1. snapFiles' \in SUBSET SnapFiles /\ \A a, b \in snapFiles' : a.complete /\ a.epoch = b.epoch => a = b
    BY DEF IInv, Typed, Single
  <2>2. \A g \in snapFiles' : g.complete => g.epoch <= f.epoch
    <3> SUFFICES ASSUME NEW g \in snapFiles', g.complete PROVE g.epoch <= f.epoch
      OBVIOUS
    <3>1. CASE g = f
      BY <1>3, <1>5, <3>1
    <3>2. CASE g \in snapFiles
      <4>1. g.epoch \in Nat /\ g.epoch < persister.snap.epoch
        BY <1>6, <3>2 DEF IInv, Typed, SnapFiles
      <4> QED
        BY <1>3, <1>5, <4>1
    <3> QED
      BY <1>2, <3>1, <3>2
  <2>3. f \in snapFiles'
    BY <1>2
  <2>4. Newest({g \in snapFiles' : g.complete}) = f /\ {g \in snapFiles' : g.complete} # {}
    BY <1>3, <2>1, <2>2, <2>3, NewestIs
  <2> QED
    BY <2>4 DEF OnDisk
<1>8. Ids(f.segs) = Ids(persister.snap.segs)
  <2>1. ASSUME NEW s \in persister.snap.segs PROVE s.id \in Ids(f.segs)
    <3>1. [id |-> s.id, deleted |-> s.deleted] \in f.segs
      BY <1>3
    <3> QED
      BY <3>1 DEF Ids
  <2>2. ASSUME NEW e \in f.segs PROVE e.id \in Ids(persister.snap.segs)
    <3>1. PICK s \in persister.snap.segs : e = [id |-> s.id, deleted |-> s.deleted]
      BY <1>3
    <3> QED
      BY <3>1 DEF Ids
  <2>3. Ids(f.segs) \subseteq Ids(persister.snap.segs)
    BY <2>2 DEF Ids
  <2>4. Ids(persister.snap.segs) \subseteq Ids(f.segs)
    <3> SUFFICES ASSUME NEW i \in Ids(persister.snap.segs) PROVE i \in Ids(f.segs)
      OBVIOUS
    <3>1. PICK s \in persister.snap.segs : i = s.id
      BY DEF Ids
    <3> QED
      BY <2>1, <3>1
  <2> QED
    BY <2>3, <2>4
<1>9. OnDisk.epoch < persister.snap.epoch /\ OnDisk.upto <= persister.snap.upto
  <2>1. CASE OnDisk \in snapFiles /\ OnDisk.complete
    BY <1>6, <2>1
  <2>2. CASE OnDisk.epoch = 0 /\ OnDisk.upto = 0
    BY <1>5, <2>2
  <2> QED
    BY <2>1, <2>2, OnDiskIs
<1>10. \A g \in snapFiles : g.complete => g.epoch < persister.snap.epoch
  BY <1>6
<1> QED
  BY <1>1, <1>2, <1>3, <1>4, <1>7, <1>8, <1>9, <1>10

\* Steps of a process that is running.
LEMMA StepIs ==
  ASSUME [Next]_vars
  PROVE  NotSaving \/ SnapshotWritten
  BY NextIs DEF NotSaving

-----------------------------------------------------------------------------
(* Writing *)

LEMMA WritingKeeps ==
  ASSUME IInv, Still, Writing, [Next]_vars
  PROVE  Writing'
<1> USE DEF Writing
<1>0. Shape
  BY DEF IInv
<1>1. CASE Elsewhere
  BY <1>1, ElsewhereIs DEF Unpersisted
<1>2. CASE PersisterTake \/ PersisterMerge
  <2>1. persister'.fresh = {}
    BY <1>0, <1>2 DEF PersisterTake, PersisterMerge, MayMergeInMemory, Shape, Still, Active
  <2> QED
    BY <2>1
<1>3. CASE PersisterMergeDone \/ IntroducePersist
  <2>1. CASE PersisterMergeDone
    <3>1. persister'.fresh = persister.fresh /\ persister.pc = "merging"
      BY <1>0, <2>1 DEF PersisterMergeDone, Shape
    <3> QED
      BY <3>1
  <2>2. CASE IntroducePersist
    <3>1. persister'.fresh = {}
      BY <1>0, <2>2 DEF IntroducePersist, Shape
    <3> QED
      BY <3>1
  <2> QED
    BY <1>3, <2>1, <2>2
<1>4. CASE PersistSegment
  <2>1. PICK s \in NextToWrite : persister' = [persister EXCEPT !.pc = "writing", !.fresh = @ \cup {s.id}]
    BY <1>4 DEF PersistSegment
  <2>2. /\ persister'.fresh = persister.fresh \cup {s.id} /\ persister'.pc = "writing"
        /\ persister'.snap = persister.snap
    BY <1>0, <2>1 DEF Shape
  <2>3. s.id \in Ids(Unpersisted(persister.snap.segs))
    BY DEF NextToWrite, Ids
  <2> QED
    BY <2>2, <2>3 DEF Unpersisted
<1>5. CASE SnapshotCreate \/ SnapshotWritten
  <2>1. UNCHANGED <<persister.fresh, persister.snap>> /\ persister'.pc \in {"snapshot", "committed"}
    BY <1>0, <1>5 DEF SnapshotCreate, SnapshotWritten, Shape
  <2> QED
    BY <2>1 DEF Unpersisted
<1>6. CASE PersistSucceeds \/ PersistFails \/ Crash \/ OpenWriter
  BY <1>6, RestsThen
<1>7. CASE CleanupSnapshots \/ CleanupSegments
  <2>1. persister'.fresh = {}
    BY <1>0, <1>7 DEF CleanupSnapshots, CleanupSegments, Shape, Still, Active
  <2> QED
    BY <2>1
<1> QED
  BY <1>1, <1>2, <1>3, <1>4, <1>5, <1>6, <1>7, NextIs

-----------------------------------------------------------------------------
(* Stored *)

\* The ids whose files are relied on.
Relied ==
  UNION {Ids({s \in Snaps : s.persisted}), Ids(Merges), persister.fresh,
         UNION {Ids(f.segs) : f \in {g \in snapFiles : g.complete}}}

LEMMA StoredKept ==
  ASSUME Stored,
         \A g \in segFiles : g \in segFiles' \/ g.id \notin Relied',
         \A s \in Snaps' : s.persisted => File(s) \in segFiles \/ File(s) \in segFiles',
         \A m \in Merges' : File(m) \in segFiles \/ File(m) \in segFiles',
         \A i \in persister'.fresh : HasFile(i) \/ HasFile(i)',
         \A f \in snapFiles' : f.complete => \A s \in f.segs : HasFile(s.id) \/ HasFile(s.id)'
  PROVE  Stored'
<1>1. \A s : File(s).id = s.id
  BY DEF File
<1>2. \A i \in Relied' : HasFile(i) => HasFile(i)'
  BY DEF HasFile
<1>3. \A s \in Snaps' : s.persisted => s.id \in Relied'
  BY DEF Relied, Ids
<1>4. \A m \in Merges' : m.id \in Relied'
  BY DEF Relied, Ids
<1>5. \A i \in persister'.fresh : i \in Relied'
  BY DEF Relied
<1>6. \A f \in snapFiles' : f.complete => \A s \in f.segs : s.id \in Relied'
  BY DEF Relied, Ids
<1> QED
  BY <1>1, <1>2, <1>3, <1>4, <1>5, <1>6 DEF Stored

\* A step that removes no segment file and relies on nothing new.
LEMMA StoredStill ==
  ASSUME Stored, segFiles \subseteq segFiles', Snaps' \subseteq Snaps, Merges' \subseteq Merges,
         persister'.fresh \subseteq persister.fresh,
         \A f \in snapFiles' : f.complete => f \in snapFiles
  PROVE  Stored'
  BY StoredKept DEF Stored

\* What an introduction of a merge does to the root and to the files.
LEMMA MergeEffect ==
  ASSUME IInv, NEW m, IntroduceMerge(m)
  PROVE  /\ \A t \in root'.segs :
              \/ t \in root.segs
              \/ t.id = m.id /\ t.docs = m.docs /\ t.persisted /\ Merged(root.segs, m) # {}
         /\ \/ Merged(root.segs, m) # {} /\ segFiles' = segFiles
            \/ Merged(root.segs, m) = {} /\ segFiles' = Without({m.id})
<1>1. root'.segs = WithMerge(root.segs, m)
  BY DEF IntroduceMerge, IInv, Typed, Snapshots
<1>2. PICK new : new = Merged(root.segs, m)
  OBVIOUS
<1>3. \A t \in root'.segs : t \in root.segs \/ t \in new
  BY <1>1, <1>2 DEF WithMerge, NonEmpty
<1>4. \A t \in new : t.id = m.id /\ t.docs = m.docs /\ t.persisted
  BY <1>2 DEF Merged
<1>5. segFiles' = IF new = {} THEN Without({m.id}) ELSE segFiles
  BY <1>2 DEF IntroduceMerge
<1> QED
  BY <1>2, <1>3, <1>4, <1>5

\* The merger and the persister each work on a merge of their own.
LEMMA MergeIsApart ==
  ASSUME IInv, Known, up, NEW m \in Merges
  PROVE  m.id \notin Ids(Views) /\ m.id \notin Named
  BY DEF IInv, Identity, Fresh, Known, Ids

\* An introduction of a merge keeps the files that are relied on.
LEMMA StoredMerged ==
  ASSUME IInv, Stored, Known, Writing, up, NEW m \in Merges, IntroduceMerge(m), snapFiles' = snapFiles,
         Merges' \subseteq Merges, \A n \in Merges' : n.id # m.id,
         persister'.fresh = persister.fresh,
         \A t \in persister'.snap.segs :
              \/ t \in persister.snap.segs
              \/ t.id = m.id /\ t.docs = m.docs /\ Merged(root.segs, m) # {}
  PROVE  Stored'
<1>1. \A t \in Snaps' : \/ t \in Snaps
                        \/ t.id = m.id /\ t.docs = m.docs /\ Merged(root.segs, m) # {}
  BY MergeEffect DEF Snaps
<1>2. File(m) \in segFiles
  BY DEF Stored
<1>3. \A s \in Snaps' : s.persisted => File(s) \in segFiles
  <2> SUFFICES ASSUME NEW s \in Snaps', s.persisted PROVE File(s) \in segFiles
    OBVIOUS
  <2>1. CASE s \in Snaps
    BY <2>1 DEF Stored
  <2>2. CASE s.id = m.id /\ s.docs = m.docs
    BY <1>2, <2>2 DEF File
  <2> QED
    BY <1>1, <2>1, <2>2
<1>4. \A g \in segFiles : g \in segFiles' \/ g.id \notin Relied'
  <2>1. CASE Merged(root.segs, m) # {}
    BY <2>1, MergeEffect
  <2>2. CASE Merged(root.segs, m) = {}
    <3>1. segFiles' = Without({m.id})
      BY <2>2, MergeEffect
    <3>2. m.id \notin Ids(Views) /\ m.id \notin Named
      BY MergeIsApart
    <3>3. m.id \notin Ids(Snaps')
      BY <1>1, <2>2, <3>2 DEF Ids, Views
    <3>4. m.id \notin Ids(Merges')
      BY DEF Ids
    <3>5. m.id \notin persister'.fresh
      BY <3>2 DEF Writing, Ids, Unpersisted, Views, Snaps
    <3>6. m.id \notin Relied'
      BY <3>2, <3>3, <3>4, <3>5 DEF Relied, Ids, Named
    <3> QED
      BY <3>1, <3>6 DEF Without
  <2> QED
    BY <2>1, <2>2
<1> QED
  BY <1>3, <1>4, StoredKept DEF Stored

\* The steps that remove no segment file.
LEMMA StoredGrows ==
  ASSUME IInv, Stored, Writing, Still,
         \/ Elsewhere /\ ~MergerMergeDone
         \/ PersisterTake \/ PersisterMerge \/ PersistSegment \/ IntroducePersist
         \/ SnapshotCreate \/ SnapshotWritten
         \/ PersistSucceeds \/ CleanupSnapshots \/ Crash
  PROVE  Stored'
<1>0. Shape
  BY DEF IInv
<1>1. CASE \E w \in Writers : Prepare(w) \/ IntroduceFails(w)
  <2>1. UNCHANGED <<root, persister, merger, segFiles, snapFiles>>
    BY <1>1 DEF Prepare, IntroduceFails, disk
  <2> QED
    BY <2>1, StoredStill DEF Snaps, Merges
<1>2. CASE \E w \in Writers : IntroduceSegment(w)
  <2>1. PICK w \in Writers : IntroduceSegment(w)
    BY <1>2
  <2>2. PICK in : in = writer[w].in
    OBVIOUS
  <2>3. /\ w \in Senders
        /\ root'.segs = WithBatch(root.segs, in, NewSegment(in, Len(history)))
        /\ UNCHANGED <<persister, merger, segFiles, snapFiles>>
    BY <2>1, <2>2 DEF IntroduceSegment, Senders, disk
  <2>4. SeesWhatIs(in, root.segs)
    BY <2>2, <2>3 DEF IInv, Identity, Prepared
  <2>5. root'.segs = {t \in {Obsoleting(s, in.terms) : s \in root.segs} : Live(t) # {}}
                       \cup NewSegment(in, Len(history))
    BY <2>3, <2>4, WithBatchIs
  <2>6. \A t \in NewSegment(in, Len(history)) : ~t.persisted
    BY DEF NewSegment
  <2>7. \A s \in root.segs : /\ s \in SegmentSnapshots /\ s \in Snaps
                            /\ Obsoleting(s, in.terms).persisted = s.persisted
                            /\ File(Obsoleting(s, in.terms)) = File(s)
    BY ObsoletingIs DEF IInv, Typed, Snapshots, Snaps, File
  <2>8. \A t \in root'.segs : t.persisted => File(t) \in segFiles
    BY <2>5, <2>6, <2>7 DEF Stored
  <2>9. \A t \in Snaps' : t.persisted => File(t) \in segFiles
    BY <2>3, <2>8 DEF Snaps, Stored
  <2> QED
    BY <2>3, <2>9, StoredKept DEF Stored, Merges
<1>3. CASE MergerPlan \/ MergerRest \/ UNCHANGED vars
  <2>1. UNCHANGED <<root, persister, segFiles, snapFiles>> /\ merger'.merge \subseteq merger.merge
    <3>1. CASE MergerPlan
      BY <1>0, <3>1 DEF MergerPlan, disk, Shape
    <3>2. CASE MergerRest
      BY <3>2 DEF MergerRest, disk
    <3>3. CASE UNCHANGED vars
      BY <3>3 DEF vars, memory, disk
    <3> QED
      BY <1>3, <3>1, <3>2, <3>3
  <2> QED
    BY <2>1, StoredStill DEF Snaps, Merges
<1>4. CASE MergerMerge
  <2>1. PICK m : /\ segFiles' = segFiles \cup {[id |-> m.id, docs |-> m.docs]}
                 /\ merger'.merge = {m}
    BY <1>4 DEF MergerMerge
  <2>2. UNCHANGED <<root, persister, snapFiles>>
    BY <1>4 DEF MergerMerge
  <2>3. File(m) \in segFiles' /\ segFiles \subseteq segFiles'
    BY <2>1 DEF File
  <2> QED
    BY <2>1, <2>2, <2>3, StoredKept DEF Stored, Snaps, Merges
<1>5. CASE PersisterMerge
  <2>1. PICK m : /\ segFiles' = segFiles \cup {[id |-> m.id, docs |-> m.docs]}
                 /\ persister' = [persister EXCEPT !.pc = "merging", !.merge = {m}]
    BY <1>5 DEF PersisterMerge
  <2>2. UNCHANGED <<root, merger, snapFiles>>
    BY <1>5 DEF PersisterMerge
  <2>3. persister'.snap = persister.snap /\ persister'.fresh = persister.fresh /\ persister'.merge = {m}
    BY <1>0, <2>1 DEF Shape
  <2>4. File(m) \in segFiles' /\ segFiles \subseteq segFiles'
    BY <2>1 DEF File
  <2> QED
    BY <2>2, <2>3, <2>4, StoredKept DEF Stored, Snaps, Merges
<1>6. CASE PersistSegment
  <2>1. PICK s \in NextToWrite :
          /\ segFiles' = segFiles \cup {[id |-> s.id, docs |-> s.docs]}
          /\ persister' = [persister EXCEPT !.pc = "writing", !.fresh = @ \cup {s.id}]
    BY <1>6 DEF PersistSegment
  <2>2. UNCHANGED <<root, merger, snapFiles>>
    BY <1>6 DEF PersistSegment
  <2>3. /\ persister'.snap = persister.snap /\ persister'.fresh = persister.fresh \cup {s.id}
        /\ persister'.merge = persister.merge
    BY <1>0, <2>1 DEF Shape
  <2>4. HasFile(s.id)' /\ segFiles \subseteq segFiles'
    <3>1. [id |-> s.id, docs |-> s.docs] \in segFiles' /\ segFiles \subseteq segFiles'
      BY <2>1
    <3> QED
      BY <3>1 DEF HasFile
  <2>5. \A i \in persister'.fresh : HasFile(i) \/ HasFile(i)'
    BY <2>3, <2>4 DEF Stored
  <2> QED
    BY <2>2, <2>3, <2>4, <2>5, StoredKept DEF Stored, Snaps, Merges
<1>7. CASE IntroducePersist
  <2>1. PICK fresh : fresh = persister.fresh
    OBVIOUS
  <2>2. /\ root'.segs = WithPersisted(root.segs, fresh)
        /\ persister'.snap.segs = WithPersisted(persister.snap.segs, fresh)
        /\ persister'.fresh = {} /\ persister'.merge = persister.merge
        /\ UNCHANGED <<merger, segFiles, snapFiles>>
    BY <1>0, <1>7, <2>1 DEF IntroducePersist, Shape, disk, IInv, Typed, Snapshots
  <2>3. \A t \in Snaps' : \E s \in Snaps : t = Kept(s, fresh)
    BY <2>2, WithPersistedIs DEF Snaps
  <2>4. \A s \in Snaps : s \in SegmentSnapshots
    BY DEF Snaps, IInv, Typed, Snapshots
  <2>5. \A s \in Snaps : s.persisted \/ s.id \in fresh => File(s) \in segFiles
    <3> SUFFICES ASSUME NEW s \in Snaps, s.id \in fresh PROVE File(s) \in segFiles
      BY DEF Stored
    <3>1. PICK g \in segFiles : g.id = s.id
      BY <2>1 DEF Stored, HasFile
    <3>2. g \in Written /\ File(s) \in Written /\ File(s).id = s.id
      BY DEF Written, Views, File
    <3> QED
      BY <3>1, <3>2 DEF IInv, Identity, OneContent
  <2>6. \A t \in Snaps' : t.persisted => File(t) \in segFiles
    <3> SUFFICES ASSUME NEW s \in Snaps, Kept(s, fresh).persisted PROVE File(Kept(s, fresh)) \in segFiles
      BY <2>3
    <3>1. File(Kept(s, fresh)) = File(s)
      BY <2>4, KeptIs DEF File
    <3>2. s.persisted \/ s.id \in fresh
      BY <2>4, KeptIs
    <3> QED
      BY <2>5, <3>1, <3>2
  <2> QED
    BY <2>2, <2>6, StoredKept DEF Stored, Merges
<1>8. CASE SnapshotCreate \/ PersisterTake
  <2>1. /\ persister'.snap.segs \subseteq Snaps /\ persister'.fresh = persister.fresh
        /\ persister'.merge = persister.merge /\ UNCHANGED <<root, merger, segFiles>>
    BY <1>0, <1>8 DEF SnapshotCreate, PersisterTake, Shape, disk, Snaps
  <2>2. \A f \in snapFiles' : f.complete => f \in snapFiles
    BY <1>8 DEF SnapshotCreate, PersisterTake, disk, SnapshotFile
  <2> QED
    BY <2>1, <2>2, StoredStill DEF Snaps, Merges
<1>9. CASE SnapshotWritten
  <2>1. PICK f : f = SnapshotFile(TRUE)
    OBVIOUS
  <2>2. /\ persister'.snap = persister.snap /\ persister'.fresh = persister.fresh
        /\ persister'.merge = persister.merge /\ UNCHANGED <<root, merger, segFiles>>
        /\ persister.pc = "snapshot" /\ snapFiles' \subseteq snapFiles \cup {f}
    BY <1>0, <1>9, <2>1 DEF SnapshotWritten, Shape
  <2>3. f.segs = {[id |-> s.id, deleted |-> s.deleted] : s \in persister.snap.segs}
    BY <2>1 DEF SnapshotFile
  <2>4. \A e \in f.segs : HasFile(e.id)
    <3> SUFFICES ASSUME NEW s \in persister.snap.segs PROVE HasFile(s.id)
      BY <2>3
    <3>1. File(s) \in segFiles /\ File(s).id = s.id
      BY <2>2 DEF Stored, Snaps, IInv, Steps, File
    <3> QED
      BY <3>1 DEF HasFile
  <2>5. \A g \in snapFiles' : g.complete => \A e \in g.segs : HasFile(e.id)
    BY <2>2, <2>4 DEF Stored
  <2> QED
    BY <2>2, <2>5, StoredKept DEF Stored, Snaps, Merges
<1>10. CASE PersistSucceeds \/ Crash
  <2>1. /\ persister'.snap = NoSnap /\ persister'.fresh = {} /\ persister'.merge = {}
        /\ UNCHANGED <<segFiles, snapFiles>>
    BY <1>10, RestsThen DEF PersistSucceeds, Crash, disk
  <2>2. root'.segs \subseteq root.segs /\ merger'.merge \subseteq merger.merge
    <3>1. CASE PersistSucceeds
      BY <3>1 DEF PersistSucceeds
    <3>2. CASE Crash
      <4>1. root' = NoSnap /\ merger' = ResetMerger
        BY <3>2 DEF Crash
      <4> QED
        BY <4>1
    <3> QED
      BY <1>10, <3>1, <3>2
  <2> QED
    BY <2>1, <2>2, StoredStill DEF Snaps, Merges
<1>11. CASE CleanupSnapshots
  <2>1. /\ persister'.snap = persister.snap /\ persister'.fresh = persister.fresh
        /\ persister'.merge = persister.merge /\ UNCHANGED <<root, merger, segFiles>>
        /\ snapFiles' \subseteq snapFiles
    BY <1>0, <1>11 DEF CleanupSnapshots, Shape
  <2> QED
    BY <2>1, StoredStill DEF Snaps, Merges
<1> QED
  BY <1>1, <1>2, <1>3, <1>4, <1>5, <1>6, <1>7, <1>8, <1>9, <1>10, <1>11 DEF Elsewhere, Merger

\* The steps that remove some.
LEMMA StoredShrinks ==
  ASSUME IInv, Stored, Writing, Still, Known, Retained, Single,
         \/ MergerMergeDone \/ PersisterMergeDone \/ PersistFails
         \/ CleanupSegments \/ OpenWriter
  PROVE  Stored'
<1>0. Shape
  BY DEF IInv
<1>1. CASE MergerMergeDone
  <2>1. PICK m \in merger.merge : IntroduceMerge(m)
    BY <1>1 DEF MergerMergeDone
  <2>2. /\ merger'.merge = {} /\ merger.pc = "merging" /\ UNCHANGED <<persister, snapFiles>>
    BY <1>0, <1>1 DEF MergerMergeDone, Shape
  <2>3. up /\ m \in Merges
    BY <2>2 DEF IInv, Down, Merges
  <2>4. Merges' \subseteq Merges /\ \A n \in Merges' : n.id # m.id
    BY <2>2 DEF Merges, IInv, Identity, Fresh
  <2> QED
    BY <2>1, <2>2, <2>3, <2>4, StoredMerged
<1>2. CASE PersisterMergeDone
  <2>1. PICK m \in persister.merge :
          /\ IntroduceMerge(m)
          /\ LET whole == [id |-> m.id, docs |-> m.docs, deleted |-> {}, persisted |-> TRUE]
                 equiv == {s \in persister.snap.segs : s.persisted} \cup {whole}
             IN  persister' = [persister EXCEPT !.pc = "writing", !.merge = {},
                                 !.snap.segs = IF Merged(root.segs, m) = {} THEN @ ELSE equiv]
    BY <1>2 DEF PersisterMergeDone
  <2>2. /\ persister'.merge = {} /\ persister.pc = "merging" /\ UNCHANGED <<merger, snapFiles>>
        /\ persister'.fresh = persister.fresh
        /\ \/ persister'.snap.segs = persister.snap.segs
           \/ /\ persister'.snap.segs = {s \in persister.snap.segs : s.persisted} \cup {Whole(m, {})}
              /\ Merged(root.segs, m) # {}
    BY <1>0, <1>2, <2>1 DEF PersisterMergeDone, Shape, Whole, IInv, Typed, Snapshots
  <2>3. up /\ m \in Merges
    BY <2>2 DEF IInv, Down, Merges
  <2>4. Merges' \subseteq Merges /\ \A n \in Merges' : n.id # m.id
    BY <2>2 DEF Merges, IInv, Identity, Fresh
  <2>5. \A t \in persister'.snap.segs :
              \/ t \in persister.snap.segs
              \/ t.id = m.id /\ t.docs = m.docs /\ Merged(root.segs, m) # {}
    BY <2>2 DEF Whole
  <2> QED
    BY <2>1, <2>2, <2>3, <2>4, <2>5, StoredMerged
<1>3. CASE PersistFails
  <2>1. /\ persister'.snap = NoSnap /\ persister'.fresh = {} /\ persister'.merge = {}
        /\ UNCHANGED <<root, merger>> /\ snapFiles' \subseteq snapFiles
    BY <1>3, RestsThen DEF PersistFails
  <2>2. PICK broken \in SUBSET Ids(NextToWrite) : segFiles' = Without(broken)
    BY <1>3 DEF PersistFails
  <2>3. broken \subseteq Mem
    BY DEF NextToWrite, Unpersisted, Ids, Mem, Snaps
  <2>4. Relied' \subseteq Filed
    <3>1. Snaps' \subseteq Snaps /\ Merges' \subseteq Merges
      BY <2>1 DEF Snaps, Merges
    <3>2. UNION {Ids(f.segs) : f \in {g \in snapFiles' : g.complete}} \subseteq Named
      BY <2>1 DEF Named
    <3> QED
      BY <2>1, <3>1, <3>2 DEF Relied, Filed, Ids
  <2>5. \A g \in segFiles : g \in segFiles' \/ g.id \notin Relied'
    BY <2>2, <2>3, <2>4 DEF Without, IInv, Identity, Apart
  <2> QED
    BY <2>1, <2>5, StoredKept DEF Stored, Snaps, Merges
<1>4. CASE CleanupSegments
  <2>1. /\ persister.pc = "cleaning" /\ UNCHANGED <<root, merger, snapFiles>>
        /\ persister'.snap = persister.snap /\ persister'.fresh = persister.fresh
        /\ persister'.merge = persister.merge
    BY <1>0, <1>4 DEF CleanupSegments, Shape
  <2>2. PICK failed \in SUBSET Unneeded(policy) : segFiles' = Without(Unneeded(policy) \ failed)
    BY <1>4 DEF CleanupSegments
  <2>3. up /\ persister.snap = NoSnap /\ persister.fresh = {}
    BY <2>1 DEF IInv, Down, Still, Active
  <2>4. \A f \in snapFiles : f.complete => \A s \in f.segs : s.id \notin Unneeded(policy)
    <3> SUFFICES ASSUME NEW f \in snapFiles, f.complete, NEW s \in f.segs
                 PROVE  s.id \notin Unneeded(policy)
      OBVIOUS
    <3>1. <<f.epoch, s.id>> \in policy.needs
      BY <2>3 DEF Retained
    <3> QED
      BY <3>1 DEF Unneeded
  <2>5. \A s \in root.segs : s.id \notin Unneeded(policy)
    <3> SUFFICES ASSUME NEW s \in root.segs, s.id \in policy.known PROVE s.id \notin Unneeded(policy)
      BY DEF Unneeded
    <3>1. s.id \in Ids(OnDisk.segs)
      BY <2>3 DEF Known
    <3>2. OnDisk \in snapFiles /\ OnDisk.complete
      BY <3>1, OnDiskIs DEF Ids
    <3> QED
      BY <2>4, <3>1, <3>2 DEF Ids
  <2>6. \A m \in Merges : m.id \notin Unneeded(policy)
    BY <2>3 DEF Known, Unneeded, Ids
  <2>7. \A i \in Relied' : i \notin Unneeded(policy)
    <3>1. Relied' = UNION {Ids({s \in root.segs : s.persisted}), Ids(Merges),
                           UNION {Ids(f.segs) : f \in {g \in snapFiles : g.complete}}}
      BY <2>1, <2>3 DEF Relied, Snaps, Merges
    <3> QED
      BY <2>4, <2>5, <2>6, <3>1 DEF Ids
  <2>8. \A g \in segFiles : g \in segFiles' \/ g.id \notin Relied'
    BY <2>2, <2>7 DEF Without
  <2> QED
    BY <2>1, <2>8, StoredKept DEF Stored, Snaps, Merges
<1>5. CASE OpenWriter
  <2>1. /\ persister'.snap = NoSnap /\ persister'.fresh = {} /\ persister'.merge = {}
        /\ root'.segs = Loaded(OnDisk) /\ merger' = merger /\ ~up
    BY <1>5, RestsThen DEF OpenWriter
  <2>2. merger.merge = {} /\ Merges' = {} /\ Snaps' = Loaded(OnDisk)
    BY <2>1 DEF IInv, Down, Merges, Snaps
  <2>3. /\ snapFiles' \subseteq snapFiles
        /\ \A f \in snapFiles : f.complete /\ (f.epoch = OnDisk.epoch => f \in snapFiles')
        /\ \A g \in segFiles : g \in segFiles' \/ \A f \in snapFiles' : g.id \notin Ids(f.segs)
    BY <1>5, OpenIs
  <2>4. \A t \in Loaded(OnDisk) : \E f \in snapFiles' : f.complete /\ t.id \in Ids(f.segs)
    <3> SUFFICES ASSUME NEW t \in Loaded(OnDisk)
                 PROVE  \E f \in snapFiles' : f.complete /\ t.id \in Ids(f.segs)
      OBVIOUS
    <3>1. PICK e \in OnDisk.segs : t.id = e.id
      BY DEF Loaded
    <3>2. OnDisk \in snapFiles' /\ OnDisk.complete
      BY <2>3, OnDiskIs
    <3> QED
      BY <3>1, <3>2 DEF Ids
  <2>5. \A i \in Relied' : \E f \in snapFiles' : f.complete /\ i \in Ids(f.segs)
    BY <2>1, <2>2, <2>4 DEF Relied, Ids
  <2>6. \A g \in segFiles : g \in segFiles' \/ g.id \notin Relied'
    BY <2>3, <2>5
  <2>7. \A t \in Loaded(OnDisk) : File(t) \in segFiles
    <3> SUFFICES ASSUME NEW e \in OnDisk.segs
                 PROVE  [id |-> e.id, docs |-> FileOf(e.id).docs] \in segFiles
      BY DEF Loaded, File
    <3>1. OnDisk \in snapFiles /\ OnDisk.complete
      BY OnDiskIs
    <3>2. PICK g \in segFiles : g.id = e.id
      BY <3>1 DEF Stored, HasFile
    <3>3. FileOf(e.id) = g
      BY <3>2, FileIs DEF IInv, Identity
    <3>4. g = [id |-> g.id, docs |-> g.docs]
      BY DEF IInv, Typed, Files
    <3> QED
      BY <3>2, <3>3, <3>4
  <2> QED
    BY <2>1, <2>2, <2>3, <2>6, <2>7, StoredKept DEF Stored
<1> QED
  BY <1>1, <1>2, <1>3, <1>4, <1>5

LEMMA StoredKeeps ==
  ASSUME IInv, Stored, Writing, Still, Known, Retained, Single, [Next]_vars
  PROVE  Stored'
  BY StoredGrows, StoredShrinks, NextIs

-----------------------------------------------------------------------------
(* Retained *)

LEMMA RetainedStill ==
  ASSUME Retained, up' = up, policy' = policy, OnDisk' = OnDisk,
         \A f \in snapFiles' : f.complete => f \in snapFiles
  PROVE  Retained'
  BY DEF Retained

\* The policy goes on needing what the complete snapshots name, and never gives up the newest.
LEMMA RetainedKeeps ==
  ASSUME IInv, IInv', Still, Single, Single', Retained, [Next]_vars
  PROVE  Retained'
<1>1. CASE Elsewhere
  <2>1. OnDisk' = OnDisk
    BY <1>1, OnDiskKept DEF NotSaving
  <2> QED
    BY <1>1, <2>1, ElsewhereIs, RetainedStill
<1>2. CASE PersisterTake \/ PersisterMerge \/ PersisterMergeDone \/ PersistSegment \/ IntroducePersist
  <2>1. OnDisk' = OnDisk
    BY <1>2, OnDiskKept DEF NotSaving
  <2>2. UNCHANGED <<up, policy, snapFiles>>
    BY <1>2 DEF PersisterTake, PersisterMerge, PersisterMergeDone, PersistSegment, IntroducePersist, disk
  <2> QED
    BY <2>1, <2>2, RetainedStill
<1>3. CASE SnapshotCreate \/ PersistSucceeds \/ PersistFails
  <2>1. OnDisk' = OnDisk
    BY <1>3, OnDiskKept DEF NotSaving
  <2>2. UNCHANGED <<up, policy>> /\ \A f \in snapFiles' : f.complete => f \in snapFiles
    <3>1. CASE SnapshotCreate
      BY <3>1 DEF SnapshotCreate, SnapshotFile
    <3>2. CASE PersistSucceeds
      BY <3>2 DEF PersistSucceeds, disk
    <3>3. CASE PersistFails
      BY <3>3 DEF PersistFails
    <3> QED
      BY <1>3, <3>1, <3>2, <3>3
  <2> QED
    BY <2>1, <2>2, RetainedStill
<1>4. CASE SnapshotWritten
  <2>1. PICK f : f = SnapshotFile(TRUE)
    OBVIOUS
  <2>2. /\ up /\ OnDisk'.epoch = persister.snap.epoch
        /\ OnDisk.epoch < persister.snap.epoch
        /\ snapFiles' \subseteq snapFiles \cup {f}
        /\ \A g \in snapFiles : g.complete => g.epoch < persister.snap.epoch
        /\ f.epoch = persister.snap.epoch
        /\ f.segs = {[id |-> s.id, deleted |-> s.deleted] : s \in persister.snap.segs}
    BY <1>4, <2>1, OnDiskMoves DEF SnapshotFile
  <2>3. PICK ids, epoch : ids = Ids(persister.snap.segs) /\ epoch = persister.snap.epoch
    OBVIOUS
  <2>4. policy' = Commit(policy, epoch, ids)
    BY <1>4, <2>3 DEF SnapshotWritten
  <2>5. epoch \in Nat /\ ids \in SUBSET Nat /\ OnDisk.epoch \in Nat /\ policy \in Policies
    <3>1. OnDisk.epoch \in Nat
      BY OnDiskIs
    <3>2. policy \in Policies
      BY <2>2 DEF Retained
    <3>3. epoch \in Nat /\ \A s \in persister.snap.segs : s \in SegmentSnapshots
      BY <2>3 DEF IInv, Typed, Snapshots
    <3>4. ids \in SUBSET Nat
      BY <2>3, <3>3 DEF SegmentSnapshots, Ids
    <3> QED
      BY <3>1, <3>2, <3>3, <3>4
  <2>6. /\ policy' \in Policies
        /\ \A i \in DOMAIN policy'.live :
             policy'.live[i] = epoch \/ \E j \in DOMAIN policy.live : policy'.live[i] = policy.live[j]
        /\ \A e \in policy'.deletable : e \in policy.deletable \/ \E j \in DOMAIN policy.live : e = policy.live[j]
        /\ \A x \in policy.needs : x[1] # epoch => x \in policy'.needs
        /\ \A i \in ids : <<epoch, i>> \in policy'.needs
    BY <2>4, <2>5, CommitIs
  <2>7. \A j \in DOMAIN policy.live : policy.live[j] < epoch
    <3> TAKE j \in DOMAIN policy.live
    <3>1. policy.live[j] \in Nat /\ policy.live[j] <= OnDisk.epoch
      BY <2>2, <2>5 DEF Policies, Retained
    <3> QED
      BY <2>2, <2>3, <2>5, <3>1
  <2>8. \A e \in policy.deletable : e < epoch
    <3> TAKE e \in policy.deletable
    <3>1. e \in Nat /\ e < OnDisk.epoch
      BY <2>2, <2>5 DEF Policies, Retained
    <3> QED
      BY <2>2, <2>3, <2>5, <3>1
  <2>9. \A i \in DOMAIN policy'.live : policy'.live[i] <= epoch
    <3> TAKE i \in DOMAIN policy'.live
    <3>1. policy'.live[i] = epoch \/ policy'.live[i] < epoch
      BY <2>6, <2>7
    <3>2. policy'.live[i] \in Nat
      BY <2>6 DEF Policies
    <3> QED
      BY <2>5, <3>1, <3>2
  <2>10. \A e \in policy'.deletable : e < epoch
    BY <2>6, <2>7, <2>8
  <2>11. \A g \in snapFiles' : g.complete => \A s \in g.segs : <<g.epoch, s.id>> \in policy'.needs
    <3> SUFFICES ASSUME NEW g \in snapFiles', g.complete, NEW s \in g.segs
                 PROVE  <<g.epoch, s.id>> \in policy'.needs
      OBVIOUS
    <3>1. CASE g = f
      <4>1. s.id \in ids
        BY <2>2, <2>3, <3>1 DEF Ids
      <4> QED
        BY <2>2, <2>3, <2>6, <3>1, <4>1
    <3>2. CASE g \in snapFiles
      <4>1. <<g.epoch, s.id>> \in policy.needs
        BY <2>2, <3>2 DEF Retained
      <4>2. g.epoch # epoch
        <5>1. g.epoch < epoch /\ g.epoch \in Nat
          BY <2>2, <2>3, <3>2 DEF IInv, Typed, SnapFiles
        <5> QED
          BY <2>5, <5>1
      <4>3. <<g.epoch, s.id>>[1] # epoch
        BY <4>2
      <4> QED
        BY <2>6, <4>1, <4>3
    <3> QED
      BY <2>2, <3>1, <3>2
  <2> QED
    BY <2>2, <2>3, <2>6, <2>9, <2>10, <2>11 DEF Retained
<1>5. CASE CleanupSnapshots
  <2>1. OnDisk' = OnDisk /\ up
    BY <1>5, OnDiskKept DEF NotSaving, CleanupSnapshots
  <2>2. PICK failed \in SUBSET policy.deletable :
          /\ snapFiles' = {f \in snapFiles : f.epoch \notin policy.deletable \ failed}
          /\ policy' = ForgetSnapshots(policy, policy.deletable \ failed)
    BY <1>5 DEF CleanupSnapshots
  <2>3. PICK gone \in SUBSET policy.deletable : gone = policy.deletable \ failed
    OBVIOUS
  <2>4. policy \in Policies
    BY <2>1 DEF Retained
  <2>5. /\ policy'.live = policy.live /\ policy'.deletable = policy.deletable \ gone
        /\ policy'.needs = {x \in policy.needs : x[1] \notin gone}
        /\ policy' \in Policies
    BY <2>2, <2>3, <2>4 DEF ForgetSnapshots, Policies
  <2>6. \A f \in snapFiles' : f.complete => \A s \in f.segs : <<f.epoch, s.id>> \in policy'.needs
    <3> SUFFICES ASSUME NEW f \in snapFiles', f.complete, NEW s \in f.segs
                 PROVE  <<f.epoch, s.id>> \in policy'.needs
      OBVIOUS
    <3>1. f \in snapFiles /\ f.epoch \notin gone
      BY <2>2, <2>3
    <3>2. <<f.epoch, s.id>> \in policy.needs
      BY <2>1, <3>1 DEF Retained
    <3> QED
      BY <2>5, <3>1, <3>2
  <2> QED
    BY <2>1, <2>5, <2>6 DEF Retained
<1>6. CASE CleanupSegments
  <2>1. OnDisk' = OnDisk
    BY <1>6, OnDiskKept DEF NotSaving
  <2>2. UNCHANGED <<up, snapFiles>>
    BY <1>6 DEF CleanupSegments
  <2>3. PICK gone : policy' = ForgetSegments(policy, gone)
    BY <1>6 DEF CleanupSegments
  <2>4. policy \in Policies => /\ policy'.live = policy.live /\ policy'.deletable = policy.deletable
                               /\ policy'.needs = policy.needs /\ policy' \in Policies
    BY <2>3 DEF ForgetSegments, Policies
  <2> QED
    BY <2>1, <2>2, <2>4 DEF Retained
<1>7. CASE Crash
  BY <1>7 DEF Crash, Retained
<1>8. CASE OpenWriter
  <2>1. OnDisk' = OnDisk
    BY <1>8, OnDiskKept DEF NotSaving
  <2> QED
    BY <1>8, <2>1, OpenIs DEF Retained
<1> QED
  BY <1>1, <1>2, <1>3, <1>4, <1>5, <1>6, <1>7, <1>8, NextIs

-----------------------------------------------------------------------------
(* Known *)

\* Which ids were in memory only, and which will be.
LEMMA KnownKept ==
  ASSUME IInv, Known, up' = up, OnDisk' = OnDisk, policy'.known \subseteq policy.known,
         nextSegmentID' \in Nat, nextSegmentID <= nextSegmentID',
         \A i \in Mem' : i \in Mem \cup Ids(Merges) \/ i \notin 0 .. nextSegmentID,
         \A i \in Ids(Merges)' : i \in Ids(Merges) \/ i \notin 0 .. nextSegmentID,
         Named' \subseteq Named \cup Ids(Views),
         \A i \in Ids(root.segs)' : i \in Ids(root.segs) \cup Mem \cup Ids(Merges),
         Active' => \/ Ids(root.segs)' \subseteq Ids(persister.snap.segs)'
                    \/ Active /\ \A i \in Ids(persister.snap.segs) :
                                   i \in policy.known => i \in Ids(persister.snap.segs)'
  PROVE  Known'
<1> SUFFICES ASSUME up
             PROVE  /\ policy'.known \subseteq 0 .. nextSegmentID'
                    /\ policy'.known \cap (Mem \cup Ids(Merges))' = {}
                    /\ Named' \cap Ids(Merges)' = {}
                    /\ \A s \in root'.segs : s.id \in policy'.known =>
                         /\ s.id \in Ids(OnDisk.segs)
                         /\ Active' => s.id \in Ids(persister.snap.segs)'
  BY DEF Known
<1>1. /\ policy.known \subseteq 0 .. nextSegmentID
      /\ policy.known \cap (Mem \cup Ids(Merges)) = {}
      /\ Named \cap Ids(Merges) = {}
      /\ \A s \in root.segs : s.id \in policy.known =>
           /\ s.id \in Ids(OnDisk.segs)
           /\ Active => s.id \in Ids(persister.snap.segs)
  BY DEF Known
<1>2. nextSegmentID \in Nat
  BY DEF IInv, Typed
<1>3. policy'.known \subseteq 0 .. nextSegmentID'
  BY <1>1, <1>2
<1>4. policy'.known \cap (Mem \cup Ids(Merges))' = {}
  BY <1>1
<1>5. Ids(Views) \cap Ids(Merges) = {} /\ Ids(Views) \subseteq 0 .. nextSegmentID /\ Named \subseteq 0 .. nextSegmentID
  <2>1. Ids(Views) \cap Ids(Merges) = {}
    BY DEF IInv, Identity, Fresh, Ids
  <2>2. Ids(Views) \subseteq Ids(Written)
    BY IdsWritten DEF Ids
  <2> QED
    BY <2>1, <2>2 DEF IInv, Identity, Bounded
<1>6. Named' \cap Ids(Merges)' = {}
  BY <1>1, <1>5
<1>7. ASSUME NEW s \in root'.segs, s.id \in policy'.known
      PROVE  /\ s.id \in Ids(OnDisk.segs)
             /\ Active' => s.id \in Ids(persister.snap.segs)'
  <2>1. s.id \in Ids(root.segs)'
    BY DEF Ids
  <2>2. s.id \in policy.known /\ s.id \in Ids(root.segs)
    BY <1>1, <1>7, <2>1
  <2>3. PICK o \in root.segs : o.id = s.id
    BY <2>2 DEF Ids
  <2> QED
    BY <1>1, <2>1, <2>2, <2>3
<1> QED
  BY <1>3, <1>4, <1>6, <1>7

\* The ids of segments in memory.
LEMMA MemKept ==
  ASSUME \A t \in Snaps' : t.persisted \/ t \in Snaps \/ t.id \in Mem,
         \A w \in Senders' : \/ w \in Senders /\ writer'[w] = writer[w]
                            \/ writer'[w].in.id = nextSegmentID + 1
  PROVE  \A i \in Mem' : i \in Mem \/ i = nextSegmentID + 1
<1>1. ASSUME NEW t \in Snaps', ~t.persisted PROVE t.id \in Mem
  BY <1>1 DEF Mem, Ids
<1>2. ASSUME NEW w \in Senders' PROVE writer'[w].in.id \in Mem \/ writer'[w].in.id = nextSegmentID + 1
  BY DEF Mem
<1>3. \A i \in Mem' : \/ \E t \in Snaps' : ~t.persisted /\ i = t.id
                     \/ \E w \in Senders' : i = writer'[w].in.id
  BY DEF Mem, Ids
<1> QED
  BY <1>1, <1>2, <1>3

\* The steps of the callers, the introducer and the merger.
LEMMA KnownElsewhere ==
  ASSUME IInv, Known, Elsewhere, up, OnDisk' = OnDisk
  PROVE  Known'
<1>0. /\ Shape /\ nextSegmentID \in Nat
      /\ nextSegmentID + 1 \in Nat /\ nextSegmentID + 1 \notin 0 .. nextSegmentID
      /\ nextSegmentID <= nextSegmentID + 1 /\ nextSegmentID <= nextSegmentID
  BY DEF IInv, Typed
<1>1. /\ UNCHANGED <<up, persister, policy, snapFiles>> /\ Named' = Named
      /\ Active' = Active /\ Ids(persister.snap.segs)' = Ids(persister.snap.segs)
  BY ElsewhereIs DEF Named, Active
<1>2. CASE \E w \in Writers : Prepare(w)
  <2>1. PICK w \in Writers : Prepare(w)
    BY <1>2
  <2>2. PICK in : writer' = [writer EXCEPT ![w] = Sending(in)] /\ in.id = nextSegmentID + 1
    <3>1. PICK b, seen :
            /\ b \in Batches
            /\ writer' = [writer EXCEPT ![w] = Sending([id |-> nextSegmentID + 1, upd |-> b.upd,
                                                        terms |-> b.upd \cup b.del, obsoletes |-> seen])]
      BY <2>1 DEF Prepare
    <3>2. PICK in : in = [id |-> nextSegmentID + 1, upd |-> b.upd,
                          terms |-> b.upd \cup b.del, obsoletes |-> seen]
      OBVIOUS
    <3>3. in.id = nextSegmentID + 1
      BY <3>2
    <3>4. writer' = [writer EXCEPT ![w] = Sending(in)]
      BY ONLY <3>1, <3>2, Zenon
    <3> QED
      BY <3>3, <3>4, Zenon
  <2>3. UNCHANGED <<root, merger>> /\ nextSegmentID' = nextSegmentID + 1
    BY <2>1 DEF Prepare
  <2>4. \A v \in Senders' : \/ v \in Senders /\ writer'[v] = writer[v]
                           \/ writer'[v].in.id = nextSegmentID + 1
    BY <1>0, <2>2 DEF Senders, Sending, Shape
  <2>5. \A i \in Mem' : i \in Mem \/ i = nextSegmentID + 1
    BY <1>1, <2>3, <2>4, MemKept DEF Snaps
  <2> QED
    BY <1>0, <1>1, <2>3, <2>5, KnownKept DEF Merges
<1>3. CASE \E w \in Writers : IntroduceSegment(w)
  <2>1. PICK w \in Writers : IntroduceSegment(w)
    BY <1>3
  <2>2. PICK in : in = writer[w].in
    OBVIOUS
  <2>3. /\ w \in Senders
        /\ root'.segs = WithBatch(root.segs, in, NewSegment(in, Len(history)))
        /\ UNCHANGED <<merger, nextSegmentID>>
        /\ \A v \in Senders' : v \in Senders /\ writer'[v] = writer[v]
    BY <1>0, <2>1, <2>2 DEF IntroduceSegment, Senders, Shape, Waiting
  <2>4. SeesWhatIs(in, root.segs)
    BY <2>2, <2>3 DEF IInv, Identity, Prepared
  <2>5. root'.segs = {t \in {Obsoleting(s, in.terms) : s \in root.segs} : Live(t) # {}}
                       \cup NewSegment(in, Len(history))
    BY <2>3, <2>4, WithBatchIs
  <2>6. \A t \in NewSegment(in, Len(history)) : t.id = in.id
    BY DEF NewSegment
  <2>7. in.id \in Mem
    BY <2>2, <2>3 DEF Mem
  <2>8. \A s \in root.segs : /\ Obsoleting(s, in.terms).id = s.id
                            /\ Obsoleting(s, in.terms).persisted = s.persisted
    BY ObsoletingIs DEF IInv, Typed, Snapshots
  <2>9. \A t \in root'.segs : \/ t.id = in.id
                             \/ \E s \in root.segs : t.id = s.id /\ t.persisted = s.persisted
    BY <2>5, <2>6, <2>8
  <2>10. \A t \in Snaps' : t.persisted \/ t \in Snaps \/ t.id \in Mem
    <3>1. \A s \in root.segs : s.persisted \/ s.id \in Mem
      BY DEF Mem, Ids, Snaps
    <3> QED
      BY <1>1, <2>7, <2>9, <3>1 DEF Snaps
  <2>11. \A i \in Mem' : i \in Mem \/ i = nextSegmentID + 1
    BY <2>3, <2>10, MemKept
  <2>12. \A i \in Ids(root.segs)' : i \in Ids(root.segs) \cup Mem
    BY <2>7, <2>9 DEF Ids
  <2> QED
    BY <1>0, <1>1, <2>3, <2>11, <2>12, KnownKept DEF Merges
<1>4. CASE \E w \in Writers : IntroduceFails(w)
  <2>1. PICK w \in Writers : IntroduceFails(w)
    BY <1>4
  <2>2. /\ UNCHANGED <<root, merger, nextSegmentID>>
        /\ \A v \in Senders' : v \in Senders /\ writer'[v] = writer[v]
    BY <1>0, <2>1 DEF IntroduceFails, Senders, Shape
  <2>3. \A i \in Mem' : i \in Mem \/ i = nextSegmentID + 1
    BY <1>1, <2>2, MemKept DEF Snaps
  <2> QED
    BY <1>0, <1>1, <2>2, <2>3, KnownKept DEF Merges
<1>5. CASE MergerMergeDone
  <2>1. PICK m \in merger.merge : IntroduceMerge(m)
    BY <1>5 DEF MergerMergeDone
  <2>2. /\ merger'.merge = {} /\ UNCHANGED <<writer, nextSegmentID>>
    BY <1>0, <1>5 DEF MergerMergeDone, Shape
  <2>3. \A t \in root'.segs : t \in root.segs \/ (t.id = m.id /\ t.persisted)
    <3>1. \A t \in root'.segs : \/ t \in root.segs
                               \/ /\ t.id = m.id /\ t.docs = m.docs
                                  /\ t.persisted /\ Merged(root.segs, m) # {}
      BY ONLY <2>1, IInv, MergeEffect
    <3> QED
      BY <3>1
  <2>4. \A i \in Mem' : i \in Mem \/ i = nextSegmentID + 1
    BY <1>1, <2>2, <2>3, MemKept DEF Snaps, Senders
  <2>5. \A i \in Ids(root.segs)' : i \in Ids(root.segs) \cup Ids(Merges)
    BY <2>3 DEF Ids, Merges
  <2>6. Ids(Merges)' \subseteq Ids(Merges)
    BY <1>1, <2>2 DEF Ids, Merges
  <2> QED
    BY <1>0, <1>1, <2>2, <2>4, <2>5, <2>6, KnownKept
<1>6. CASE MergerPlan \/ MergerRest \/ UNCHANGED vars
  <2>1. /\ UNCHANGED <<root, writer>> /\ merger'.merge \subseteq merger.merge
        /\ nextSegmentID' = nextSegmentID \/ nextSegmentID' = nextSegmentID + 1
    <3>1. CASE MergerPlan
      BY <1>0, <3>1 DEF MergerPlan, Shape
    <3>2. CASE MergerRest
      BY <3>2 DEF MergerRest
    <3>3. CASE UNCHANGED vars
      BY <3>3 DEF vars, memory
    <3> QED
      BY <1>6, <3>1, <3>2, <3>3
  <2>2. \A i \in Mem' : i \in Mem \/ i = nextSegmentID + 1
    BY <1>1, <2>1, MemKept DEF Snaps, Senders
  <2>3. Ids(Merges)' \subseteq Ids(Merges)
    BY <1>1, <2>1 DEF Ids, Merges
  <2> QED
    BY <1>0, <1>1, <2>1, <2>2, <2>3, KnownKept
<1>7. CASE MergerMerge
  <2>1. PICK m : merger'.merge = {m} /\ m.id = nextSegmentID + 1
    <3>1. PICK task : merger'.merge = {Merge(nextSegmentID + 1, task)}
      BY <1>7 DEF MergerMerge
    <3>2. Merge(nextSegmentID + 1, task).id = nextSegmentID + 1
      BY DEF Merge
    <3> QED
      BY <3>1, <3>2
  <2>2. UNCHANGED <<root, writer>> /\ nextSegmentID' = nextSegmentID + 1
    BY <1>7 DEF MergerMerge
  <2>3. \A i \in Mem' : i \in Mem \/ i = nextSegmentID + 1
    BY <1>1, <2>2, MemKept DEF Snaps, Senders
  <2>4. \A i \in Ids(Merges)' : i \in Ids(Merges) \/ i = nextSegmentID + 1
    BY <1>1, <2>1 DEF Ids, Merges
  <2> QED
    BY <1>0, <1>1, <2>2, <2>3, <2>4, KnownKept
<1> QED
  BY <1>2, <1>3, <1>4, <1>5, <1>6, <1>7 DEF Elsewhere, Merger

\* The steps of the persister, a crash and opening.
LEMMA KnownKeeps ==
  ASSUME IInv, IInv', Still, Single, Single', Retained, Known, [Next]_vars
  PROVE  Known'
<1>0. /\ Shape /\ nextSegmentID \in Nat
      /\ nextSegmentID + 1 \in Nat /\ nextSegmentID + 1 \notin 0 .. nextSegmentID
      /\ nextSegmentID <= nextSegmentID + 1 /\ nextSegmentID <= nextSegmentID
  BY DEF IInv, Typed
<1>1. CASE Elsewhere
  <2>1. up' = up /\ OnDisk' = OnDisk
    BY <1>1, ElsewhereIs, OnDiskKept DEF NotSaving
  <2>2. CASE up
    BY <1>1, <2>1, <2>2, KnownElsewhere
  <2>3. CASE ~up
    BY <2>1, <2>3 DEF Known
  <2> QED
    BY <2>2, <2>3
<1>2. CASE PersisterTake
  <2>1. /\ persister'.snap = root /\ persister'.merge = persister.merge
        /\ UNCHANGED <<up, root, merger, writer, policy, snapFiles, nextSegmentID>>
    BY <1>0, <1>2 DEF PersisterTake, Shape, disk
  <2>2. OnDisk' = OnDisk
    BY <1>2, OnDiskKept DEF NotSaving
  <2>3. \A i \in Mem' : i \in Mem \/ i = nextSegmentID + 1
    BY <2>1, MemKept DEF Snaps, Senders
  <2>4. Merges' = Merges /\ Named' = Named /\ Ids(root.segs)' = Ids(root.segs)
        /\ Ids(root.segs)' = Ids(persister.snap.segs)'
    BY <2>1 DEF Merges, Named
  <2> QED
    BY <1>0, <2>1, <2>2, <2>3, <2>4, KnownKept
<1>3. CASE PersisterMerge
  <2>1. PICK m : persister' = [persister EXCEPT !.pc = "merging", !.merge = {m}] /\ m.id = nextSegmentID + 1
    <3>1. PICK m : /\ m = Merge(nextSegmentID + 1, Unpersisted(persister.snap.segs))
                   /\ persister' = [persister EXCEPT !.pc = "merging", !.merge = {m}]
      BY <1>3 DEF PersisterMerge
    <3>2. m.id = nextSegmentID + 1
      BY <3>1 DEF Merge
    <3> QED
      BY <3>1, <3>2
  <2>2. /\ UNCHANGED <<up, root, merger, writer, policy, snapFiles>> /\ nextSegmentID' = nextSegmentID + 1
        /\ persister'.snap = persister.snap /\ persister'.merge = {m}
        /\ persister.pc = "taken"
    BY <1>0, <1>3, <2>1 DEF PersisterMerge, Shape, MayMergeInMemory
  <2>3. OnDisk' = OnDisk
    BY <1>3, OnDiskKept DEF NotSaving
  <2>4. \A i \in Mem' : i \in Mem \/ i = nextSegmentID + 1
    BY <2>2, MemKept DEF Snaps, Senders
  <2>5. \A i \in Ids(Merges)' : i \in Ids(Merges) \/ i = nextSegmentID + 1
    BY <2>1, <2>2 DEF Ids, Merges
  <2>6. Named' = Named /\ Active /\ Ids(root.segs)' = Ids(root.segs)
        /\ Ids(persister.snap.segs)' = Ids(persister.snap.segs)
    BY <2>2 DEF Named, Active
  <2> QED
    BY <1>0, <2>2, <2>3, <2>4, <2>5, <2>6, KnownKept
<1>4. CASE PersisterMergeDone
  <2>1. PICK m \in persister.merge :
          /\ IntroduceMerge(m)
          /\ LET whole == [id |-> m.id, docs |-> m.docs, deleted |-> {}, persisted |-> TRUE]
                 equiv == {s \in persister.snap.segs : s.persisted} \cup {whole}
             IN  persister' = [persister EXCEPT !.pc = "writing", !.merge = {},
                                 !.snap.segs = IF Merged(root.segs, m) = {} THEN @ ELSE equiv]
    BY <1>4 DEF PersisterMergeDone
  <2>2. /\ persister'.merge = {} /\ persister.pc = "merging"
        /\ UNCHANGED <<up, merger, writer, policy, snapFiles, nextSegmentID>>
        /\ \/ persister'.snap.segs = persister.snap.segs
           \/ persister'.snap.segs = {s \in persister.snap.segs : s.persisted} \cup {Whole(m, {})}
    BY <1>0, <1>4, <2>1 DEF PersisterMergeDone, Shape, Whole, IInv, Typed, Snapshots
  <2>3. OnDisk' = OnDisk
    BY <1>4, OnDiskKept DEF NotSaving
  <2>4. \A t \in root'.segs : t \in root.segs \/ (t.id = m.id /\ t.persisted)
    <3>0. IntroduceMerge(m)
      BY <2>1
    <3>1. \A t \in root'.segs : \/ t \in root.segs
                               \/ /\ t.id = m.id /\ t.docs = m.docs
                                  /\ t.persisted /\ Merged(root.segs, m) # {}
      BY ONLY <3>0, IInv, MergeEffect
    <3> QED
      BY <3>1
  <2>5. \A t \in persister'.snap.segs : t \in persister.snap.segs \/ t.persisted
    BY <2>2 DEF Whole
  <2>6. \A i \in Mem' : i \in Mem \/ i = nextSegmentID + 1
    BY <2>2, <2>4, <2>5, MemKept DEF Snaps, Senders
  <2>7. \A i \in Ids(root.segs)' : i \in Ids(root.segs) \cup Ids(Merges)
    BY <2>4 DEF Ids, Merges
  <2>8. Ids(Merges)' \subseteq Ids(Merges) /\ Named' = Named
    BY <2>2 DEF Ids, Merges, Named
  <2>9. up
    BY <2>2 DEF IInv, Down
  <2>10. \A i \in Ids(persister.snap.segs) : i \in policy.known => i \in Ids(persister.snap.segs)'
    <3> SUFFICES ASSUME NEW t \in persister.snap.segs, t.id \in policy.known
                 PROVE  t.id \in Ids(persister.snap.segs)'
      BY DEF Ids
    <3>1. ~t.persisted => t.id \in Mem
      BY DEF Mem, Ids, Snaps
    <3>2. t.persisted
      BY <2>9, <3>1 DEF Known
    <3> QED
      BY <2>2, <3>2 DEF Ids
  <2> QED
    BY <1>0, <2>2, <2>3, <2>6, <2>7, <2>8, <2>10, KnownKept DEF Active
<1>5. CASE PersistSegment
  <2>1. /\ persister'.snap = persister.snap /\ persister'.merge = persister.merge
        /\ persister.pc \in {"taken", "writing"}
        /\ UNCHANGED <<up, root, merger, writer, policy, snapFiles, nextSegmentID>>
    <3>1. PICK s : persister' = [persister EXCEPT !.pc = "writing", !.fresh = @ \cup {s.id}]
      BY <1>5 DEF PersistSegment
    <3> QED
      BY <1>0, <1>5, <3>1 DEF PersistSegment, Shape
  <2>2. OnDisk' = OnDisk
    BY <1>5, OnDiskKept DEF NotSaving
  <2>3. \A i \in Mem' : i \in Mem \/ i = nextSegmentID + 1
    BY <2>1, MemKept DEF Snaps, Senders
  <2>4. /\ Merges' = Merges /\ Named' = Named /\ Ids(root.segs)' = Ids(root.segs) /\ Active
        /\ Ids(persister.snap.segs)' = Ids(persister.snap.segs)
    BY <2>1 DEF Merges, Named, Active
  <2> QED
    BY <1>0, <2>1, <2>2, <2>3, <2>4, KnownKept
<1>6. CASE IntroducePersist
  <2>1. PICK fresh : fresh = persister.fresh
    OBVIOUS
  <2>2. /\ root'.segs = WithPersisted(root.segs, fresh)
        /\ persister'.snap.segs = WithPersisted(persister.snap.segs, fresh)
        /\ persister'.merge = persister.merge /\ persister.pc = "writing"
        /\ UNCHANGED <<up, merger, writer, policy, snapFiles, nextSegmentID>>
    BY <1>0, <1>6, <2>1 DEF IntroducePersist, Shape, disk, IInv, Typed, Snapshots
  <2>3. OnDisk' = OnDisk
    BY <1>6, OnDiskKept DEF NotSaving
  <2>4. \A s \in Snaps : /\ Kept(s, fresh).id = s.id
                         /\ Kept(s, fresh).persisted <=> (s.persisted \/ s.id \in fresh)
    BY KeptIs DEF Snaps, IInv, Typed, Snapshots
  <2>5. root'.segs = {Kept(s, fresh) : s \in root.segs}
        /\ persister'.snap.segs = {Kept(s, fresh) : s \in persister.snap.segs}
    BY <2>2, WithPersistedIs
  <2>6. \A t \in Snaps' : t.persisted \/ t \in Snaps \/ t.id \in Mem
    <3>1. \A s \in Snaps : s.persisted \/ s.id \in Mem
      BY DEF Mem, Ids
    <3> QED
      BY <2>4, <2>5, <3>1 DEF Snaps
  <2>7. \A i \in Mem' : i \in Mem \/ i = nextSegmentID + 1
    BY <2>2, <2>6, MemKept DEF Senders
  <2>8. Merges' = Merges /\ Named' = Named /\ Active
    BY <2>2 DEF Merges, Named, Active
  <2>9. Ids(root.segs)' \subseteq Ids(root.segs)
    BY <2>4, <2>5 DEF Ids, Snaps
  <2>10. Ids(persister.snap.segs) \subseteq Ids(persister.snap.segs)'
    <3> SUFFICES ASSUME NEW s \in persister.snap.segs PROVE s.id \in Ids(persister.snap.segs)'
      BY DEF Ids
    <3>1. Kept(s, fresh) \in persister'.snap.segs /\ Kept(s, fresh).id = s.id
      BY <2>4, <2>5 DEF Snaps
    <3> QED
      BY <3>1 DEF Ids
  <2> QED
    BY <1>0, <2>2, <2>3, <2>7, <2>8, <2>9, <2>10, KnownKept
<1>7. CASE SnapshotCreate
  <2>1. PICK f : f = SnapshotFile(FALSE)
    OBVIOUS
  <2>2. /\ persister'.snap = persister.snap /\ persister'.merge = persister.merge
        /\ persister.pc \in {"taken", "writing"} /\ snapFiles' = snapFiles \cup {f}
        /\ UNCHANGED <<up, root, merger, writer, policy, nextSegmentID>>
    BY <1>0, <1>7, <2>1 DEF SnapshotCreate, Shape
  <2>3. OnDisk' = OnDisk
    BY <1>7, OnDiskKept DEF NotSaving
  <2>4. Ids(f.segs) \subseteq Ids(persister.snap.segs)
    <3>1. f.segs = {[id |-> s.id, deleted |-> s.deleted] : s \in persister.snap.segs}
      BY <2>1 DEF SnapshotFile
    <3>2. \A e \in f.segs : \E s \in persister.snap.segs : e.id = s.id
      BY <3>1
    <3> QED
      BY <3>2 DEF Ids
  <2>5. Named' \subseteq Named \cup Ids(Views)
    <3>1. Ids(persister.snap.segs) \subseteq Ids(Views)
      BY DEF Views, Snaps, Ids
    <3> QED
      BY <2>2, <2>4, <3>1 DEF Named
  <2>6. \A i \in Mem' : i \in Mem \/ i = nextSegmentID + 1
    BY <2>2, MemKept DEF Snaps, Senders
  <2>7. /\ Merges' = Merges /\ Ids(root.segs)' = Ids(root.segs) /\ Active
        /\ Ids(persister.snap.segs)' = Ids(persister.snap.segs)
    BY <2>2 DEF Merges, Active
  <2> QED
    BY <1>0, <2>2, <2>3, <2>5, <2>6, <2>7, KnownKept
<1>8. CASE PersistSucceeds \/ PersistFails \/ CleanupSnapshots \/ CleanupSegments
  <2>1. OnDisk' = OnDisk
    BY <1>8, OnDiskKept DEF NotSaving
  <2>2. /\ UNCHANGED <<up, root, merger>> /\ snapFiles' \subseteq snapFiles
        /\ nextSegmentID' = nextSegmentID \/ nextSegmentID' = nextSegmentID + 1
    <3>1. CASE PersistSucceeds
      BY <3>1 DEF PersistSucceeds, disk
    <3>2. CASE PersistFails
      BY <3>2 DEF PersistFails
    <3>3. CASE CleanupSnapshots
      BY <3>3 DEF CleanupSnapshots
    <3>4. CASE CleanupSegments
      BY <3>4 DEF CleanupSegments
    <3> QED
      BY <1>8, <3>1, <3>2, <3>3, <3>4
  <2>3. /\ persister'.snap.segs \subseteq persister.snap.segs /\ persister'.merge \subseteq persister.merge
        /\ ~Active'
    <3>1. CASE PersistSucceeds \/ PersistFails
      BY <3>1, RestsThen DEF Active
    <3>2. CASE CleanupSnapshots \/ CleanupSegments
      BY <1>0, <3>2 DEF CleanupSnapshots, CleanupSegments, Shape, Active
    <3> QED
      BY <1>8, <3>1, <3>2
  <2>4. \A w \in Senders' : w \in Senders /\ writer'[w] = writer[w]
    <3>1. CASE PersistSucceeds
      BY <3>1 DEF PersistSucceeds, Senders, Returned
    <3>2. CASE PersistFails
      BY <3>2 DEF PersistFails, Senders, Returned
    <3>3. CASE CleanupSnapshots \/ CleanupSegments
      BY <3>3 DEF CleanupSnapshots, CleanupSegments, Senders
    <3> QED
      BY <1>8, <3>1, <3>2, <3>3
  <2>5. policy'.known \subseteq policy.known
    <3>1. CASE PersistSucceeds \/ PersistFails
      BY <3>1 DEF PersistSucceeds, PersistFails
    <3>2. CASE CleanupSnapshots
      <4>1. PICK gone : policy' = ForgetSnapshots(policy, gone)
        BY <3>2 DEF CleanupSnapshots
      <4>2. CASE up
        <5>1. policy \in Policies
          BY <4>2 DEF Retained
        <5> QED
          BY <4>1, <5>1 DEF ForgetSnapshots, Policies
      <4> QED
        BY <3>2, <4>2 DEF CleanupSnapshots
    <3>3. CASE CleanupSegments
      <4>1. PICK gone : policy' = ForgetSegments(policy, gone)
        BY <3>3 DEF CleanupSegments
      <4>2. up
        BY <3>3 DEF CleanupSegments, IInv, Down
      <4>3. policy \in Policies
        BY <4>2 DEF Retained
      <4> QED
        BY <4>1, <4>3 DEF ForgetSegments, Policies
    <3> QED
      BY <1>8, <3>1, <3>2, <3>3
  <2>6. \A i \in Mem' : i \in Mem \/ i = nextSegmentID + 1
    BY <2>2, <2>3, <2>4, MemKept DEF Snaps
  <2>7. Ids(Merges)' \subseteq Ids(Merges) /\ Named' \subseteq Named /\ Ids(root.segs)' = Ids(root.segs)
    BY <2>2, <2>3 DEF Merges, Named, Ids
  <2> QED
    BY <1>0, <2>1, <2>2, <2>3, <2>5, <2>6, <2>7, KnownKept
<1>9. CASE SnapshotWritten
  <2>1. /\ up /\ Ids(OnDisk'.segs) = Ids(persister.snap.segs)
        /\ snapFiles' \subseteq snapFiles \cup {SnapshotFile(TRUE)}
        /\ OnDisk' = SnapshotFile(TRUE)
    BY <1>9, OnDiskMoves
  <2>2. /\ persister'.snap = persister.snap /\ persister'.merge = persister.merge
        /\ persister.pc = "snapshot"
        /\ UNCHANGED <<up, root, merger, writer, nextSegmentID>>
        /\ policy' = Commit(policy, persister.snap.epoch, Ids(persister.snap.segs))
    BY <1>0, <1>9 DEF SnapshotWritten, Shape
  <2>3. policy'.known = policy.known \cup Ids(persister.snap.segs)
    BY <2>2 DEF Commit
  <2>4. Mem' = Mem /\ Merges' = Merges /\ Senders' = Senders
    BY <2>2 DEF Mem, Merges, Snaps, Senders
  <2>5. Ids(persister.snap.segs) \subseteq Filed /\ Ids(persister.snap.segs) \subseteq Ids(Views)
    BY <2>2 DEF IInv, Steps, Filed, Ids, Views, Snaps
  <2>6. Ids(Views) \cap Ids(Merges) = {} /\ Ids(Views) \subseteq 0 .. nextSegmentID
    <3>1. Ids(Views) \cap Ids(Merges) = {}
      BY DEF IInv, Identity, Fresh, Ids
    <3>2. Ids(Views) \subseteq Ids(Written)
      BY IdsWritten DEF Ids
    <3> QED
      BY <2>1, <3>1, <3>2 DEF IInv, Identity, Bounded
  <2>7. policy'.known \cap (Mem \cup Ids(Merges)) = {} /\ policy'.known \subseteq 0 .. nextSegmentID
    BY <2>1, <2>3, <2>5, <2>6 DEF Known, IInv, Identity, Apart
  <2>8. Named' \cap Ids(Merges) = {}
    <3>1. Named' \subseteq Named \cup Ids(persister.snap.segs)
      BY <2>1 DEF Named
    <3> QED
      BY <2>1, <2>5, <2>6, <3>1 DEF Known
  <2>9. \A s \in root.segs : s.id \in policy'.known => s.id \in Ids(persister.snap.segs)
    BY <2>1, <2>2, <2>3 DEF Known, Active
  <2>10. \A s \in root'.segs : s.id \in policy'.known => s.id \in Ids(OnDisk'.segs) /\ s.id \in Ids(persister'.snap.segs)
    BY <2>1, <2>2, <2>9
  <2> QED
    BY <2>1, <2>2, <2>4, <2>7, <2>8, <2>10 DEF Known
<1>10. CASE Crash
  BY <1>10 DEF Crash, Known
<1>11. CASE OpenWriter
  <2>1. /\ persister'.snap = NoSnap /\ persister'.merge = {} /\ persister'.pc = "idle"
        /\ root'.segs = Loaded(OnDisk) /\ UNCHANGED <<merger, writer>> /\ ~up
        /\ nextSegmentID' = FirstSegmentID
    BY <1>11, RestsThen DEF OpenWriter
  <2>2. /\ Merges' = {} /\ Senders' = {} /\ Snaps' = Loaded(OnDisk)
    BY <2>1 DEF IInv, Down, Merges, Snaps, Senders
  <2>3. Mem' = {}
    <3>1. \A t \in Loaded(OnDisk) : t.persisted
      BY DEF Loaded
    <3> QED
      BY <2>2, <3>1 DEF Mem, Ids
  <2>4. OnDisk' = OnDisk
    BY <1>11, OnDiskKept DEF NotSaving
  <2>5. policy'.known \subseteq Ids(segFiles)
    BY <1>11, OpenIs
  <2>6. \A i \in Ids(segFiles) : i \in 0 .. FirstSegmentID
    BY FirstSegmentIDIs DEF IInv, Typed, Files, Ids
  <2>7. \A t \in Loaded(OnDisk) : t.id \in Ids(OnDisk.segs)
    BY DEF Loaded, Ids
  <2>8. ~Active'
    BY <2>1 DEF Active
  <2>9. Ids(Merges)' = {}
    BY <2>2 DEF Ids
  <2>10. policy'.known \subseteq 0 .. nextSegmentID'
    BY <2>1, <2>5, <2>6
  <2> QED
    BY <2>1, <2>3, <2>4, <2>7, <2>8, <2>9, <2>10 DEF Known
<1> QED
  BY <1>1, <1>2, <1>3, <1>4, <1>5, <1>6, <1>7, <1>8, <1>9, <1>10, <1>11, NextIs

-----------------------------------------------------------------------------
(* Told *)

LEMMA ToldStill ==
  ASSUME Told, UNCHANGED <<rootPersisted, acked>>, Batched' = Batched,
         persister'.chans = persister.chans, persister'.snap.upto = persister.snap.upto,
         persister'.pc = "committed" => persister.pc = "committed", OnDisk' = OnDisk,
         \A w \in rootPersisted \cup persister.chans : writer'[w] = writer[w]
  PROVE  Told'
  BY DEF Told

\* The acknowledgement only says what is on disk.
LEMMA AckedIs ==
  ASSUME IInv, Told, PersistSucceeds
  PROVE  acked' \in acked .. OnDisk.upto
<1> DEFINE told == {writer[w].at : w \in persister.chans} \cup {acked}
<1>1. persister.pc = "committed" /\ acked' = CHOOSE n \in told : \A m \in told : m <= n
  BY DEF PersistSucceeds
<1>2. OnDisk.upto \in Nat /\ persister.snap.upto \in Nat /\ persister.snap.upto <= OnDisk.upto
  <2>1. OnDisk.upto \in 0 .. Batched /\ Batched \in Nat
    BY OnDiskIs DEF IInv, Typed, Batched
  <2> QED
    BY <1>1, <2>1 DEF Told, IInv, Typed, Snapshots
<1>3. acked \in 0 .. OnDisk.upto
  BY DEF Told
<1>4. \A w \in persister.chans : writer[w].at \in 0 .. OnDisk.upto
  <2> TAKE w \in persister.chans
  <2>1. writer[w].at \in 0 .. persister.snap.upto
    BY DEF Told
  <2> QED
    BY <1>2, <2>1
<1>5. told \in SUBSET (0 .. OnDisk.upto) /\ acked \in told
  BY <1>3, <1>4
<1> HIDE DEF told
<1>6. \E n \in told : \A i \in told : i <= n
  <2>1. told \in SUBSET Nat /\ told # {} /\ \A i \in told : i <= OnDisk.upto
    BY <1>5
  <2> QED
    BY <1>2, <2>1, GreatestOf
<1>7. acked' \in told /\ \A i \in told : i <= acked'
  BY <1>1, <1>6
<1>8. acked' \in 0 .. OnDisk.upto /\ acked <= acked'
  BY <1>5, <1>7
<1> QED
  BY <1>2, <1>3, <1>8

\* Nobody is told of a batch that is not on disk.
LEMMA ToldKeeps ==
  ASSUME IInv, IInv', Still, Still', Single, Single', Retained, Told, [Next]_vars
  PROVE  Told'
<1>0. /\ Shape /\ Batched \in Nat
      /\ OnDisk.upto \in Nat /\ OnDisk.upto <= Batched
  <2>1. Batched \in Nat
    BY DEF IInv, Typed, Batched
  <2> QED
    BY <2>1, OnDiskIs DEF IInv
<1>1. CASE \E w \in Writers : Prepare(w)
  <2>1. PICK w \in Writers : Prepare(w)
    BY <1>1
  <2>2. OnDisk' = OnDisk
    BY <1>1, OnDiskKept DEF NotSaving, Elsewhere
  <2>3. /\ UNCHANGED <<rootPersisted, acked, persister, history>>
        /\ writer[w].pc = "idle" /\ \A v \in Writers : v # w => writer'[v] = writer[v]
    BY <1>0, <2>1 DEF Prepare, Shape, ghosts
  <2>4. w \notin rootPersisted /\ w \notin persister.chans
    BY <2>3 DEF Told
  <2>5. \A v \in rootPersisted \cup persister.chans : writer'[v] = writer[v]
    BY <2>3, <2>4 DEF Told
  <2> QED
    BY <2>2, <2>3, <2>5, ToldStill DEF Batched
<1>2. CASE \E w \in Writers : IntroduceFails(w)
  <2>1. PICK w \in Writers : IntroduceFails(w)
    BY <1>2
  <2>2. OnDisk' = OnDisk
    BY <1>2, OnDiskKept DEF NotSaving, Elsewhere
  <2>3. /\ UNCHANGED <<rootPersisted, acked, persister, history>>
        /\ writer[w].pc = "sending" /\ \A v \in Writers : v # w => writer'[v] = writer[v]
    BY <1>0, <2>1 DEF IntroduceFails, Shape
  <2>4. w \notin rootPersisted /\ w \notin persister.chans
    BY <2>3 DEF Told
  <2>5. \A v \in rootPersisted \cup persister.chans : writer'[v] = writer[v]
    BY <2>3, <2>4 DEF Told
  <2> QED
    BY <2>2, <2>3, <2>5, ToldStill DEF Batched
<1>3. CASE \E w \in Writers : IntroduceSegment(w)
  <2>1. PICK w \in Writers : IntroduceSegment(w)
    BY <1>3
  <2>2. OnDisk' = OnDisk
    BY <1>3, OnDiskKept DEF NotSaving, Elsewhere
  <2>3. PICK n : n = Len(history)
    OBVIOUS
  <2>4. /\ UNCHANGED <<acked, persister>> /\ history' = Append(history, Content(root'.segs))
        /\ writer' = [writer EXCEPT ![w] = IF UnsafeBatch THEN Idle ELSE Waiting(n)]
        /\ rootPersisted' = IF UnsafeBatch THEN rootPersisted ELSE rootPersisted \cup {w}
        /\ writer[w].pc = "sending"
    BY <2>1, <2>3 DEF IntroduceSegment, IInv, Typed, Snapshots
  <2>5. Batched' = Batched + 1 /\ n = Batched + 1
    <3>1. Len(history') = Len(history) + 1 /\ Len(history) \in Nat
      BY <2>4 DEF IInv, Typed
    <3> QED
      BY <2>3, <3>1 DEF Batched
  <2>6. w \notin rootPersisted /\ w \notin persister.chans
    BY <2>4 DEF Told
  <2>7. \A v \in Writers : v # w => writer'[v] = writer[v]
    BY <1>0, <2>4 DEF Shape
  <2>8. \A v \in rootPersisted : writer'[v].pc = "waiting" /\ writer'[v].at \in 0 .. Batched'
    <3> TAKE v \in rootPersisted
    <3>1. v \in Writers /\ v # w /\ writer[v].pc = "waiting" /\ writer[v].at \in 0 .. Batched
      BY <2>6 DEF Told
    <3> QED
      BY <1>0, <2>5, <2>7, <3>1
  <2>9. ~UnsafeBatch => writer'[w].pc = "waiting" /\ writer'[w].at \in 0 .. Batched'
    <3>1. ~UnsafeBatch => writer'[w] = Waiting(n)
      BY <1>0, <2>1, <2>4 DEF Shape
    <3> QED
      BY <1>0, <2>5, <3>1 DEF Waiting
  <2>10. \A v \in rootPersisted' : writer'[v].pc = "waiting" /\ writer'[v].at \in 0 .. Batched'
    BY <2>4, <2>8, <2>9
  <2>11. \A v \in persister'.chans : writer'[v].pc = "waiting" /\ writer'[v].at \in 0 .. persister'.snap.upto
    BY <2>4, <2>6, <2>7 DEF Told
  <2>12. persister'.chans \subseteq Writers /\ rootPersisted' \subseteq Writers
         /\ persister'.chans \cap rootPersisted' = {}
    BY <2>4, <2>6 DEF Told
  <2> QED
    BY <2>2, <2>4, <2>10, <2>11, <2>12 DEF Told
<1>4. CASE MergerMergeDone \/ Merger \/ UNCHANGED vars
  <2>1. OnDisk' = OnDisk
    BY <1>4, OnDiskKept DEF NotSaving, Elsewhere
  <2>2. UNCHANGED <<rootPersisted, acked, persister, history, writer>>
    <3>1. CASE MergerMergeDone
      BY <3>1 DEF MergerMergeDone, ghosts
    <3>2. CASE Merger
      BY <3>2 DEF Merger, MergerPlan, MergerMerge, MergerRest, ghosts
    <3>3. CASE UNCHANGED vars
      BY <3>3 DEF vars, memory, ghosts
    <3> QED
      BY <1>4, <3>1, <3>2, <3>3
  <2> QED
    BY <2>1, <2>2, ToldStill DEF Batched
<1>5. CASE PersisterTake
  <2>1. OnDisk' = OnDisk
    BY <1>5, OnDiskKept DEF NotSaving
  <2>2. /\ persister'.snap = root /\ persister'.chans = rootPersisted /\ rootPersisted' = {}
        /\ persister'.pc = "taken" /\ up /\ UNCHANGED <<acked, writer, history>>
    BY <1>0, <1>5 DEF PersisterTake, Shape, ghosts
  <2>3. root.upto = Batched
    BY <2>2 DEF IInv, Contents
  <2> QED
    BY <2>1, <2>2, <2>3 DEF Told
<1>6. CASE PersisterMerge \/ PersisterMergeDone \/ PersistSegment \/ IntroducePersist \/ SnapshotCreate
  <2>1. OnDisk' = OnDisk
    BY <1>6, OnDiskKept DEF NotSaving
  <2>2. /\ UNCHANGED <<rootPersisted, acked, history, writer>> /\ persister'.chans = persister.chans
        /\ persister'.snap.upto = persister.snap.upto /\ persister'.pc # "committed"
    <3>1. CASE PersisterMerge
      BY <1>0, <3>1 DEF PersisterMerge, Shape, ghosts
    <3>2. CASE PersisterMergeDone
      BY <1>0, <3>2 DEF PersisterMergeDone, Shape, ghosts, IInv, Typed, Snapshots
    <3>3. CASE PersistSegment
      BY <1>0, <3>3 DEF PersistSegment, Shape, ghosts
    <3>4. CASE IntroducePersist
      BY <1>0, <3>4 DEF IntroducePersist, Shape, ghosts, IInv, Typed, Snapshots
    <3>5. CASE SnapshotCreate
      BY <1>0, <3>5 DEF SnapshotCreate, Shape, ghosts
    <3> QED
      BY <1>6, <3>1, <3>2, <3>3, <3>4, <3>5
  <2> QED
    BY <2>1, <2>2, ToldStill DEF Batched
<1>7. CASE SnapshotWritten
  <2>1. OnDisk'.upto = persister.snap.upto /\ OnDisk.upto <= persister.snap.upto
    BY <1>7, OnDiskMoves
  <2>2. /\ UNCHANGED <<rootPersisted, acked, history, writer>> /\ persister'.chans = persister.chans
        /\ persister'.snap = persister.snap
    BY <1>0, <1>7 DEF SnapshotWritten, Shape, ghosts
  <2>3. persister.snap.upto \in Nat
    BY DEF IInv, Typed, Snapshots
  <2>4. acked' \in 0 .. OnDisk'.upto /\ persister'.snap.upto <= OnDisk'.upto
    BY <1>0, <2>1, <2>2, <2>3 DEF Told
  <2> QED
    BY <2>2, <2>4 DEF Told, Batched
<1>8. CASE PersistSucceeds
  <2>1. OnDisk' = OnDisk
    BY <1>8, OnDiskKept DEF NotSaving
  <2>2. /\ persister'.chans = {} /\ persister'.pc = "idle" /\ UNCHANGED <<rootPersisted, history>>
        /\ writer' = Returned(persister.chans)
    BY <1>8, RestsThen DEF PersistSucceeds
  <2>3. \A w \in rootPersisted : writer'[w] = writer[w]
    BY <2>2 DEF Returned, Told
  <2>4. acked' \in 0 .. OnDisk.upto
    <3>1. acked' \in acked .. OnDisk.upto /\ acked \in 0 .. OnDisk.upto
      BY <1>8, AckedIs DEF Told
    <3> QED
      BY <1>0, <3>1
  <2> QED
    BY <2>1, <2>2, <2>3, <2>4 DEF Told, Batched
<1>9. CASE PersistFails
  <2>1. OnDisk' = OnDisk
    BY <1>9, OnDiskKept DEF NotSaving
  <2>2. /\ persister'.chans = {} /\ persister'.pc = "idle" /\ UNCHANGED <<rootPersisted, history, acked>>
        /\ writer' = Returned(persister.chans)
    BY <1>9, RestsThen DEF PersistFails
  <2>3. \A w \in rootPersisted : writer'[w] = writer[w]
    BY <2>2 DEF Returned, Told
  <2> QED
    BY <2>1, <2>2, <2>3 DEF Told, Batched
<1>10. CASE CleanupSnapshots \/ CleanupSegments
  <2>1. OnDisk' = OnDisk
    BY <1>10, OnDiskKept DEF NotSaving
  <2>2. /\ UNCHANGED <<rootPersisted, acked, history, writer>> /\ persister'.chans = persister.chans
        /\ persister'.snap = persister.snap /\ persister'.pc # "committed"
    BY <1>0, <1>10 DEF CleanupSnapshots, CleanupSegments, Shape
  <2> QED
    BY <2>1, <2>2, ToldStill DEF Batched
<1>11. CASE Crash
  <2>1. OnDisk' = OnDisk
    BY <1>11, OnDiskKept DEF NotSaving
  <2>2. persister'.chans = {} /\ persister'.pc = "idle" /\ rootPersisted' = {} /\ acked' = acked
    BY <1>11, RestsThen DEF Crash
  <2> QED
    BY <2>1, <2>2 DEF Told
<1>12. CASE OpenWriter
  <2>1. OnDisk' = OnDisk
    BY <1>12, OnDiskKept DEF NotSaving
  <2>2. /\ persister'.chans = {} /\ persister'.pc = "idle"
        /\ UNCHANGED <<rootPersisted, acked, history, writer>>
    BY <1>12, RestsThen DEF OpenWriter, ghosts
  <2> QED
    BY <2>1, <2>2 DEF Told, Batched
<1> QED
  BY <1>1, <1>2, <1>3, <1>4, <1>5, <1>6, <1>7, <1>8, <1>9, <1>10, <1>11, <1>12, NextIs DEF Elsewhere

-----------------------------------------------------------------------------
(* Callbacks *)

\* What a concatenation holds.
LEMMA JoinIs ==
  ASSUME NEW a \in Seq(Nat), NEW b \in Seq(Nat)
  PROVE  /\ a \o b \in Seq(Nat)
         /\ \A i \in DOMAIN (a \o b) :
              \/ i \in DOMAIN a /\ (a \o b)[i] = a[i]
              \/ /\ i - Len(a) \in DOMAIN b /\ (a \o b)[i] = b[i - Len(a)]
                 /\ \A j \in DOMAIN a : j < i
  OBVIOUS

LEMMA JoinIncreases ==
  ASSUME NEW a \in Seq(Nat), NEW b \in Seq(Nat), Increasing(a), Increasing(b), Before(a, b)
  PROVE  Increasing(a \o b)
<1> SUFFICES ASSUME NEW i \in DOMAIN (a \o b), NEW j \in DOMAIN (a \o b), i < j
             PROVE  (a \o b)[i] < (a \o b)[j]
  BY DEF Increasing
<1>0. i \in Nat /\ j \in Nat /\ Len(a) \in Nat /\ DOMAIN (a \o b) = 1 .. Len(a \o b) /\ DOMAIN a = 1 .. Len(a)
  OBVIOUS
<1>1. CASE j \in DOMAIN a
  <2>1. i \in DOMAIN a
    BY <1>0, <1>1
  <2>2. (a \o b)[i] = a[i] /\ (a \o b)[j] = a[j]
    BY <1>1, <2>1
  <2> QED
    BY <1>1, <2>1, <2>2 DEF Increasing
<1>2. CASE j \notin DOMAIN a /\ i \in DOMAIN a
  <2>1. (a \o b)[i] = a[i]
    BY <1>2
  <2>2. j - Len(a) \in DOMAIN b /\ (a \o b)[j] = b[j - Len(a)]
    BY <1>2, JoinIs
  <2> QED
    BY <1>2, <2>1, <2>2 DEF Before
<1>3. CASE j \notin DOMAIN a /\ i \notin DOMAIN a
  <2>1. i - Len(a) \in DOMAIN b /\ (a \o b)[i] = b[i - Len(a)]
    BY <1>3, JoinIs
  <2>2. j - Len(a) \in DOMAIN b /\ (a \o b)[j] = b[j - Len(a)]
    BY <1>3, JoinIs
  <2>3. i - Len(a) < j - Len(a)
    BY <1>0
  <2> QED
    BY <2>1, <2>2, <2>3 DEF Increasing
<1> QED
  BY <1>1, <1>2, <1>3

LEMMA JoinBefore ==
  ASSUME NEW a \in Seq(Nat), NEW b \in Seq(Nat), NEW c, Before(a, c), Before(b, c)
  PROVE  Before(a \o b, c)
  BY JoinIs DEF Before

LEMMA JoinAfter ==
  ASSUME NEW a \in Seq(Nat), NEW b \in Seq(Nat), NEW c, Before(c, a), Before(c, b)
  PROVE  Before(c, a \o b)
  BY JoinIs DEF Before

LEMMA JoinUpTo ==
  ASSUME NEW a \in Seq(Nat), NEW b \in Seq(Nat), NEW n, UpTo(a, n), UpTo(b, n)
  PROVE  UpTo(a \o b, n)
  BY JoinIs DEF UpTo

LEMMA UpToMore ==
  ASSUME NEW a \in Seq(Nat), NEW m \in Nat, NEW n \in Nat, m <= n, UpTo(a, m)
  PROVE  UpTo(a, n)
  BY DEF UpTo

\* A callback of a later batch comes at the end.
LEMMA AppendIs ==
  ASSUME NEW a \in Seq(Nat), NEW m \in Nat, NEW n \in Nat, m < n, UpTo(a, m), Increasing(a)
  PROVE  /\ Append(a, n) \in Seq(Nat) /\ Increasing(Append(a, n)) /\ UpTo(Append(a, n), n)
         /\ \A c \in Seq(Nat) : Before(c, a) /\ UpTo(c, m) => Before(c, Append(a, n))
<1>1. /\ Append(a, n) \in Seq(Nat)
      /\ \A i \in DOMAIN Append(a, n) :
           \/ i \in DOMAIN a /\ Append(a, n)[i] = a[i] /\ a[i] \in Nat
           \/ i = Len(a) + 1 /\ Append(a, n)[i] = n
  OBVIOUS
<1>2. \A i \in DOMAIN a : a[i] \in Nat /\ a[i] < n /\ i \in Nat /\ i <= Len(a)
  BY DEF UpTo
<1>3. Increasing(Append(a, n))
  <2> SUFFICES ASSUME NEW i \in DOMAIN Append(a, n), NEW j \in DOMAIN Append(a, n), i < j
               PROVE  Append(a, n)[i] < Append(a, n)[j]
    BY DEF Increasing
  <2>1. CASE i \in DOMAIN a /\ j \in DOMAIN a
    BY <1>1, <2>1 DEF Increasing
  <2>2. CASE i \in DOMAIN a /\ j = Len(a) + 1
    BY <1>1, <1>2, <2>2
  <2>3. CASE i = Len(a) + 1
    <3>1. j \in Nat /\ j <= Len(a) + 1 /\ Len(a) \in Nat
      BY <1>1, <1>2
    <3> QED
      BY <2>3, <3>1
  <2> QED
    BY <1>1, <2>1, <2>2, <2>3
<1>4. UpTo(Append(a, n), n)
  BY <1>1, <1>2 DEF UpTo
<1>5. ASSUME NEW c \in Seq(Nat), Before(c, a), UpTo(c, m)
      PROVE  Before(c, Append(a, n))
  <2>1. \A i \in DOMAIN c : c[i] \in Nat /\ c[i] < n
    BY <1>5 DEF UpTo
  <2> QED
    BY <1>1, <1>5, <2>1 DEF Before
<1> QED
  BY <1>1, <1>3, <1>4, <1>5

LEMMA NothingCalled ==
  /\ <<>> \in Seq(Nat) /\ Increasing(<<>>)
  /\ \A c \in Seq(Nat) : Before(<<>>, c) /\ Before(c, <<>>)
  /\ \A n : UpTo(<<>>, n)
  BY DEF Increasing, Before, UpTo

LEMMA CallbacksStill ==
  ASSUME Callbacks, UNCHANGED <<fired, rootCallbacks>>, Batched' = Batched,
         persister'.carried = persister.carried, persister'.callbacks = persister.callbacks,
         persister'.snap.upto = persister.snap.upto, Active' => Active,
         OnDisk.upto \in Nat, OnDisk'.upto \in Nat, OnDisk.upto <= OnDisk'.upto
  PROVE  Callbacks'
<1>1. UpTo(fired, OnDisk'.upto)
  BY UpToMore DEF Callbacks
<1> QED
  BY <1>1 DEF Callbacks

\* The callbacks move from the root to the attempt, to those carried over, to those called.
LEMMA CallbacksKeep ==
  ASSUME IInv, IInv', Still, Still', Single, Single', Retained, Told, Callbacks, [Next]_vars
  PROVE  Callbacks'
<1>0. /\ Shape /\ Batched \in Nat
      /\ OnDisk.upto \in Nat /\ OnDisk.upto <= Batched
      /\ persister.snap.upto \in Nat /\ persister.snap.upto <= Batched
  <2>1. Batched \in Nat
    BY DEF IInv, Typed, Batched
  <2>2. persister.snap.upto \in 0 .. Batched
    BY DEF IInv, Contents, Reaches
  <2> QED
    BY <2>1, <2>2, OnDiskIs DEF IInv
<1>1. CASE \E w \in Writers : IntroduceSegment(w)
  <2>1. OnDisk' = OnDisk
    BY <1>1, OnDiskKept DEF NotSaving, Elsewhere
  <2>2. PICK n : n = Len(history)
    OBVIOUS
  <2>3. /\ UNCHANGED <<fired, persister>> /\ history' = Append(history, Content(root'.segs))
        /\ rootCallbacks' = Append(rootCallbacks, n)
    BY <1>1, <2>2 DEF IntroduceSegment, IInv, Typed, Snapshots
  <2>4. Batched' = Batched + 1 /\ n = Batched + 1
    <3>1. Len(history') = Len(history) + 1 /\ Len(history) \in Nat
      BY <2>3 DEF IInv, Typed
    <3> QED
      BY <2>2, <3>1 DEF Batched
  <2>5. UpTo(fired, Batched) /\ UpTo(persister.callbacks, Batched)
    BY <1>0, UpToMore DEF Callbacks
  <2>6. /\ rootCallbacks' \in Seq(Nat) /\ Increasing(rootCallbacks') /\ UpTo(rootCallbacks', n)
        /\ \A c \in Seq(Nat) : Before(c, rootCallbacks) /\ UpTo(c, Batched) => Before(c, rootCallbacks')
    <3>1. n \in Nat /\ Batched < n
      BY <1>0, <2>4
    <3> QED
      BY <1>0, <2>3, <3>1, AppendIs DEF Callbacks
  <2>7. Before(fired, rootCallbacks') /\ Before(persister.carried, rootCallbacks')
        /\ Before(persister.callbacks, rootCallbacks')
    BY <2>5, <2>6 DEF Callbacks
  <2>8. UpTo(persister.carried, Batched') /\ UpTo(rootCallbacks', Batched')
    <3>1. Batched' \in Nat /\ Batched <= Batched'
      BY <1>0, <2>4
    <3> QED
      BY <1>0, <2>4, <2>6, <3>1, UpToMore DEF Callbacks
  <2>9. /\ Increasing(persister.carried) /\ Increasing(persister.callbacks) /\ Increasing(fired)
        /\ Before(fired, persister.carried) /\ Before(fired, persister.callbacks)
        /\ Before(persister.carried, persister.callbacks)
        /\ UpTo(fired, OnDisk.upto) /\ UpTo(persister.callbacks, persister.snap.upto)
        /\ Active => UpTo(persister.carried, persister.snap.upto)
        /\ fired \in Seq(Nat) /\ persister.carried \in Seq(Nat) /\ persister.callbacks \in Seq(Nat)
    BY DEF Callbacks
  <2> QED
    BY <2>1, <2>3, <2>6, <2>7, <2>8, <2>9 DEF Callbacks, Active
<1>2. CASE PersisterTake
  <2>1. OnDisk' = OnDisk
    BY <1>2, OnDiskKept DEF NotSaving
  <2>2. /\ persister'.snap = root /\ persister'.callbacks = rootCallbacks /\ rootCallbacks' = <<>>
        /\ persister'.carried = persister.carried /\ up /\ UNCHANGED <<fired, history>>
    BY <1>0, <1>2 DEF PersisterTake, Shape, ghosts
  <2>3. persister'.snap.upto = Batched
    BY <2>2 DEF IInv, Contents
  <2> QED
    BY <2>1, <2>2, <2>3, NothingCalled DEF Callbacks, Batched
<1>3. CASE PersistSucceeds
  <2>1. OnDisk' = OnDisk
    BY <1>3, OnDiskKept DEF NotSaving
  <2>2. /\ persister'.carried = <<>> /\ persister'.callbacks = <<>>
        /\ fired' = (fired \o persister.carried) \o persister.callbacks
        /\ persister.pc = "committed" /\ UNCHANGED <<rootCallbacks, history>>
    BY <1>3 DEF PersistSucceeds
  <2>3. persister.snap.upto <= OnDisk.upto /\ Active
    BY <2>2 DEF Told, Active
  <2>4. PICK a, b, c, r : a = fired /\ b = persister.carried /\ c = persister.callbacks /\ r = rootCallbacks
    OBVIOUS
  <2>5. /\ a \in Seq(Nat) /\ b \in Seq(Nat) /\ c \in Seq(Nat) /\ r \in Seq(Nat)
        /\ Increasing(a) /\ Increasing(b) /\ Increasing(c) /\ Increasing(r)
        /\ Before(a, b) /\ Before(a, c) /\ Before(a, r) /\ Before(b, c) /\ Before(b, r) /\ Before(c, r)
    BY <2>4 DEF Callbacks
  <2>6. UpTo(a, OnDisk.upto) /\ UpTo(b, OnDisk.upto) /\ UpTo(c, OnDisk.upto)
    <3>1. UpTo(a, OnDisk.upto) /\ UpTo(b, persister.snap.upto) /\ UpTo(c, persister.snap.upto)
      BY <2>3, <2>4 DEF Callbacks
    <3> QED
      BY <1>0, <2>3, <2>5, <3>1, UpToMore
  <2>7. PICK d : d = a \o b
    OBVIOUS
  <2>8. d \in Seq(Nat) /\ Increasing(d) /\ Before(d, c) /\ Before(d, r) /\ UpTo(d, OnDisk.upto)
    BY <2>5, <2>6, <2>7, JoinIs, JoinIncreases, JoinBefore, JoinUpTo
  <2>9. PICK e : e = d \o c
    OBVIOUS
  <2>10. e \in Seq(Nat) /\ Increasing(e) /\ Before(e, r) /\ UpTo(e, OnDisk.upto)
    BY <2>5, <2>6, <2>8, <2>9, JoinIs, JoinIncreases, JoinBefore, JoinUpTo
  <2>11. fired' = e
    BY <2>2, <2>4, <2>7, <2>9
  <2>12. rootCallbacks' = r /\ UpTo(r, Batched)
    BY <2>2, <2>4 DEF Callbacks
  <2> QED
    BY <2>1, <2>2, <2>5, <2>10, <2>11, <2>12, NothingCalled DEF Callbacks, Batched
<1>4. CASE PersistFails
  <2>1. OnDisk' = OnDisk
    BY <1>4, OnDiskKept DEF NotSaving
  <2>2. /\ persister'.carried = persister.carried \o persister.callbacks /\ persister'.callbacks = <<>>
        /\ persister'.pc = "idle" /\ UNCHANGED <<fired, rootCallbacks, history>>
    BY <1>4, RestsThen DEF PersistFails
  <2>4. PICK a, b, c, r : a = fired /\ b = persister.carried /\ c = persister.callbacks /\ r = rootCallbacks
    OBVIOUS
  <2>5. /\ a \in Seq(Nat) /\ b \in Seq(Nat) /\ c \in Seq(Nat) /\ r \in Seq(Nat)
        /\ Increasing(a) /\ Increasing(b) /\ Increasing(c) /\ Increasing(r)
        /\ Before(a, b) /\ Before(a, c) /\ Before(a, r) /\ Before(b, c) /\ Before(b, r) /\ Before(c, r)
    BY <2>4 DEF Callbacks
  <2>6. UpTo(a, OnDisk.upto) /\ UpTo(b, Batched) /\ UpTo(c, Batched) /\ UpTo(r, Batched)
    <3>1. UpTo(a, OnDisk.upto) /\ UpTo(b, Batched) /\ UpTo(c, persister.snap.upto) /\ UpTo(r, Batched)
      BY <2>4 DEF Callbacks
    <3> QED
      BY <1>0, <2>5, <3>1, UpToMore
  <2>7. PICK d : d = b \o c
    OBVIOUS
  <2>8. d \in Seq(Nat) /\ Increasing(d) /\ Before(a, d) /\ Before(d, r) /\ UpTo(d, Batched)
    BY <2>5, <2>6, <2>7, JoinIs, JoinIncreases, JoinBefore, JoinAfter, JoinUpTo
  <2>9. persister'.carried = d /\ fired' = a /\ rootCallbacks' = r
    BY <2>2, <2>4, <2>7
  <2> QED
    BY <2>1, <2>2, <2>5, <2>6, <2>8, <2>9, NothingCalled DEF Callbacks, Batched, Active
<1>5. CASE Crash
  <2>1. /\ persister'.carried = <<>> /\ persister'.callbacks = <<>> /\ fired' = <<>> /\ rootCallbacks' = <<>>
    BY <1>5 DEF Crash
  <2> QED
    BY <2>1, NothingCalled DEF Callbacks
<1>6. CASE OpenWriter
  <2>1. OnDisk' = OnDisk
    BY <1>6, OnDiskKept DEF NotSaving
  <2>2. /\ persister'.carried = <<>> /\ persister'.callbacks = <<>> /\ UNCHANGED <<fired, rootCallbacks, history>>
    BY <1>6 DEF OpenWriter, ghosts
  <2> QED
    BY <2>1, <2>2, NothingCalled DEF Callbacks, Batched
<1>7. CASE SnapshotWritten
  <2>1. OnDisk'.upto = persister.snap.upto /\ OnDisk.upto <= persister.snap.upto
    BY <1>7, OnDiskMoves
  <2>2. /\ UNCHANGED <<fired, rootCallbacks, history>> /\ persister'.callbacks = persister.callbacks
        /\ persister'.snap = persister.snap /\ persister'.carried = persister.carried
        /\ persister.pc = "snapshot"
    BY <1>0, <1>7 DEF SnapshotWritten, Shape, ghosts
  <2> QED
    BY <1>0, <2>1, <2>2, CallbacksStill DEF Batched, Active
<1>8. CASE \/ \E w \in Writers : Prepare(w) \/ IntroduceFails(w)
           \/ MergerMergeDone \/ Merger \/ UNCHANGED vars
  <2>1. OnDisk' = OnDisk /\ persister' = persister /\ fired' = fired
    BY <1>8, OnDiskKept, ElsewhereIs DEF NotSaving, Elsewhere
  <2>2. UNCHANGED <<rootCallbacks, history>>
    <3>1. CASE \E w \in Writers : Prepare(w) \/ IntroduceFails(w)
      BY <3>1 DEF Prepare, IntroduceFails, ghosts
    <3>2. CASE MergerMergeDone
      BY <3>2 DEF MergerMergeDone, ghosts
    <3>3. CASE Merger
      BY <3>3 DEF Merger, MergerPlan, MergerMerge, MergerRest, ghosts
    <3>4. CASE UNCHANGED vars
      BY <3>4 DEF vars, memory, ghosts
    <3> QED
      BY <1>8, <3>1, <3>2, <3>3, <3>4
  <2> QED
    BY <1>0, <2>1, <2>2, CallbacksStill DEF Batched, Active
<1>9. CASE \/ PersisterMerge \/ PersisterMergeDone \/ PersistSegment \/ IntroducePersist
           \/ SnapshotCreate \/ CleanupSnapshots \/ CleanupSegments
  <2>1. OnDisk' = OnDisk
    BY <1>9, OnDiskKept DEF NotSaving
  <2>2. /\ UNCHANGED <<fired, rootCallbacks, history>> /\ persister'.callbacks = persister.callbacks
        /\ persister'.snap.upto = persister.snap.upto /\ persister'.carried = persister.carried
        /\ persister'.pc \notin {"idle", "cleaning"} => persister.pc \notin {"idle", "cleaning"}
    <3>1. CASE PersisterMerge
      BY <1>0, <3>1 DEF PersisterMerge, Shape, ghosts, MayMergeInMemory
    <3>2. CASE PersisterMergeDone
      BY <1>0, <3>2 DEF PersisterMergeDone, Shape, ghosts, IInv, Typed, Snapshots
    <3>3. CASE PersistSegment
      BY <1>0, <3>3 DEF PersistSegment, Shape, ghosts
    <3>4. CASE IntroducePersist
      BY <1>0, <3>4 DEF IntroducePersist, Shape, ghosts, IInv, Typed, Snapshots
    <3>5. CASE SnapshotCreate
      BY <1>0, <3>5 DEF SnapshotCreate, Shape, ghosts
    <3>6. CASE CleanupSnapshots \/ CleanupSegments
      BY <1>0, <3>6 DEF CleanupSnapshots, CleanupSegments, Shape
    <3> QED
      BY <1>9, <3>1, <3>2, <3>3, <3>4, <3>5, <3>6
  <2> QED
    BY <1>0, <2>1, <2>2, CallbacksStill DEF Batched, Active
<1> QED
  BY <1>1, <1>2, <1>3, <1>4, <1>5, <1>6, <1>7, <1>8, <1>9, NextIs DEF Elsewhere

-----------------------------------------------------------------------------
(* Asked *)

LEMMA AskedStill ==
  ASSUME Asked, \A w \in Senders' : w \in Senders /\ writer'[w] = writer[w]
  PROVE  Asked'
  BY DEF Asked

LEMMA AskedKeeps ==
  ASSUME IInv, Asked, [Next]_vars
  PROVE  Asked'
<1>0. Shape
  BY DEF IInv
<1>1. CASE \E w \in Writers : Prepare(w)
  <2>1. PICK w \in Writers : Prepare(w)
    BY <1>1
  <2>2. PICK b, in : /\ b \in Batches
                     /\ writer' = [writer EXCEPT ![w] = Sending(in)]
                     /\ in.upd = b.upd /\ in.terms = b.upd \cup b.del
    <3>1. PICK b, seen :
            /\ b \in Batches
            /\ writer' = [writer EXCEPT ![w] = Sending([id |-> nextSegmentID + 1, upd |-> b.upd,
                                                        terms |-> b.upd \cup b.del, obsoletes |-> seen])]
      BY <2>1 DEF Prepare
    <3>2. PICK in : in = [id |-> nextSegmentID + 1, upd |-> b.upd,
                          terms |-> b.upd \cup b.del, obsoletes |-> seen]
      OBVIOUS
    <3>3. in.upd = b.upd /\ in.terms = b.upd \cup b.del
      BY <3>2
    <3>4. writer' = [writer EXCEPT ![w] = Sending(in)]
      BY ONLY <3>1, <3>2, Zenon
    <3>5. b \in Batches
      BY <3>1
    <3> QED
      BY <3>3, <3>4, <3>5, Zenon
  <2>3. \A v \in Writers : v # w => writer'[v] = writer[v]
    BY <1>0, <2>2 DEF Shape
  <2>4. writer'[w].in = in
    BY <1>0, <2>2 DEF Shape, Sending
  <2> QED
    BY <2>2, <2>3, <2>4 DEF Asked, Senders
<1>2. CASE \E w \in Writers : IntroduceSegment(w) \/ IntroduceFails(w)
  <2>1. PICK w \in Writers : IntroduceSegment(w) \/ IntroduceFails(w)
    BY <1>2
  <2>2. \A v \in Senders' : v \in Senders /\ writer'[v] = writer[v]
    <3>1. CASE IntroduceSegment(w)
      BY <1>0, <3>1 DEF IntroduceSegment, Senders, Shape, Waiting
    <3>2. CASE IntroduceFails(w)
      BY <1>0, <3>2 DEF IntroduceFails, Senders, Shape
    <3> QED
      BY <2>1, <3>1, <3>2
  <2> QED
    BY <2>2, AskedStill
<1>3. CASE PersistSucceeds \/ PersistFails
  <2>1. writer' = Returned(persister.chans)
    BY <1>3 DEF PersistSucceeds, PersistFails
  <2>2. \A w \in Senders' : w \in Senders /\ writer'[w] = writer[w]
    BY <2>1 DEF Senders, Returned
  <2> QED
    BY <2>2, AskedStill
<1>4. CASE Crash
  <2>1. Senders' = {}
    BY <1>4 DEF Crash, Senders
  <2> QED
    BY <2>1, AskedStill
<1>5. CASE \/ MergerMergeDone \/ Merger \/ UNCHANGED vars
           \/ PersisterTake \/ PersisterMerge \/ PersisterMergeDone \/ PersistSegment \/ IntroducePersist
           \/ SnapshotCreate \/ SnapshotWritten \/ CleanupSnapshots \/ CleanupSegments \/ OpenWriter
  <2>1. writer' = writer
    <3>1. CASE MergerMergeDone \/ MergerPlan \/ MergerMerge \/ MergerRest
      BY <3>1 DEF MergerMergeDone, MergerPlan, MergerMerge, MergerRest
    <3>2. CASE PersisterTake \/ PersisterMerge \/ PersisterMergeDone \/ PersistSegment
      BY <3>2 DEF PersisterTake, PersisterMerge, PersisterMergeDone, PersistSegment
    <3>3. CASE IntroducePersist \/ SnapshotCreate \/ SnapshotWritten
      BY <3>3 DEF IntroducePersist, SnapshotCreate, SnapshotWritten
    <3>4. CASE CleanupSnapshots \/ CleanupSegments \/ OpenWriter
      BY <3>4 DEF CleanupSnapshots, CleanupSegments, OpenWriter
    <3>5. CASE UNCHANGED vars
      BY <3>5 DEF vars, memory
    <3> QED
      BY <1>5, <3>1, <3>2, <3>3, <3>4, <3>5 DEF Merger
  <2> QED
    BY <2>1, AskedStill DEF Senders
<1> QED
  BY <1>1, <1>2, <1>3, <1>4, <1>5, NextIs DEF Elsewhere

-----------------------------------------------------------------------------
(* The invariant holds. *)

LEMMA InitJInv == Init => JInv
<1> SUFFICES ASSUME Init PROVE JInv
  OBVIOUS
<1>1. /\ up /\ root = NoSnap /\ rootPersisted = {} /\ rootCallbacks = <<>>
      /\ writer = [w \in Writers |-> Idle] /\ persister = Resting(0, <<>>)
      /\ merger = ResetMerger /\ policy = NewPolicy /\ segFiles = {} /\ snapFiles = {}
      /\ history = <<{}>> /\ acked = 0 /\ fired = <<>>
  BY DEF Init
<1>2. PICK d : d = OnDisk
  OBVIOUS
<1>3. d.epoch = 0 /\ d.segs = {} /\ d.upto = 0
  BY <1>1, <1>2 DEF OnDisk
<1>4. Snaps = {} /\ Merges = {} /\ Senders = {} /\ Named = {} /\ Mem = {}
  BY <1>1 DEF Snaps, Merges, Senders, Named, Mem, Ids
<1>5. Still /\ Writing /\ Single /\ Stored
  BY <1>1, <1>4 DEF Still, Writing, Single, Stored, Active
<1>6. Known
  BY <1>1, <1>4 DEF Known, NewPolicy, Ids
<1>7. Retained
  <2>1. policy \in Policies
    BY <1>1 DEF Policies, NewPolicy
  <2>2. policy.live = <<>> /\ policy.deletable = {}
    BY <1>1 DEF NewPolicy
  <2> QED
    BY <1>1, <2>1, <2>2 DEF Retained
<1>8. Told
  BY <1>1, <1>2, <1>3 DEF Told
<1>9. Callbacks
  BY <1>1, NothingCalled DEF Callbacks, Active
<1>10. Asked
  BY <1>4 DEF Asked
<1> QED
  BY <1>5, <1>6, <1>7, <1>8, <1>9, <1>10 DEF JInv

LEMMA StepJInv == IInv /\ IInv' /\ JInv /\ [Next]_vars => JInv'
<1> SUFFICES ASSUME IInv, IInv', JInv, [Next]_vars PROVE JInv'
  OBVIOUS
<1>1. /\ Still /\ Stored /\ Writing /\ Known /\ Retained /\ Single /\ Told /\ Callbacks /\ Asked
  BY DEF JInv
<1>2. Still' /\ Single'
  BY <1>1, StillKeeps, SingleKeeps
<1>3. Stored' /\ Writing'
  BY <1>1, StoredKeeps, WritingKeeps
<1>4. Known' /\ Retained'
  BY <1>1, <1>2, KnownKeeps, RetainedKeeps
<1>5. Told' /\ Callbacks' /\ Asked'
  BY <1>1, <1>2, ToldKeeps, CallbacksKeep, AskedKeeps
<1> QED
  BY <1>2, <1>3, <1>4, <1>5 DEF JInv

LEMMA SpecJInv == Spec => [](IInv /\ JInv)
<1> QED
  BY InitIInv, InitJInv, StepIInv, StepJInv, PTL DEF Spec

-----------------------------------------------------------------------------
(* What opening finds. *)

\* Whenever the process may die, every complete snapshot on disk opens and holds what a
\* prefix of the batches left, and no file behind a persisted segment of the root is gone,
\* although both cleanups only know what the deletion policy was told (deletion.go).
THEOREM SnapshotsStayLoadable == Spec => []SnapshotsAreLoadable
<1>1. IInv /\ JInv => SnapshotsAreLoadable
  <2> SUFFICES ASSUME IInv, JInv PROVE SnapshotsAreLoadable
    OBVIOUS
  <2>1. \A f \in snapFiles : f.complete => Loadable(f)
    BY DEF JInv, Stored, Loadable
  <2>2. \A f \in snapFiles : f.complete => Content(Loaded(f)) = history[f.upto + 1]
    BY <2>1 DEF IInv, Contents, Restores, Reaches
  <2>3. \A s \in root.segs : s.persisted => [id |-> s.id, docs |-> s.docs] \in segFiles
    BY DEF JInv, Stored, Snaps, File
  <2> QED
    BY <2>1, <2>2, <2>3 DEF SnapshotsAreLoadable
<1> QED
  BY <1>1, SpecJInv, PTL

\* The persisted callbacks are called in the order of the batches, each once and none before
\* its batch is on disk, however often persisting fails and is tried again (persister.go).
THEOREM CallbacksStayInOrder == Spec => []CallbacksInOrder
<1>1. JInv => CallbacksInOrder
  BY DEF JInv, Callbacks, Increasing, UpTo, CallbacksInOrder
<1> QED
  BY <1>1, SpecJInv, PTL

-----------------------------------------------------------------------------
(* What is written. *)

\* A file is written under an id that is new, or again with what the id stands for.
LEMMA SegmentFilesAre ==
  ASSUME IInv, [Next]_vars
  PROVE  \A g \in segFiles' : g \in Written \/ (up /\ g.id = nextSegmentID + 1)
<1>1. segFiles \subseteq Written
  BY DEF Written
<1>2. CASE PersistSegment
  <2>1. PICK s \in NextToWrite : segFiles' = segFiles \cup {[id |-> s.id, docs |-> s.docs]}
    BY <1>2 DEF PersistSegment
  <2>2. s \in Views
    BY <2>1 DEF NextToWrite, Unpersisted, Views, Snaps
  <2>3. [id |-> s.id, docs |-> s.docs] \in Written
    BY <2>2 DEF Written, File
  <2> QED
    BY <1>1, <2>1, <2>3
<1>3. CASE PersisterMerge
  <2>1. PICK m : /\ m = Merge(nextSegmentID + 1, Unpersisted(persister.snap.segs))
                 /\ segFiles' = segFiles \cup {[id |-> m.id, docs |-> m.docs]}
    BY <1>3 DEF PersisterMerge
  <2>2. m.id = nextSegmentID + 1
    BY <2>1 DEF Merge
  <2>3. up
    BY <1>3 DEF PersisterMerge, MayMergeInMemory, IInv, Down
  <2> QED
    BY <1>1, <2>1, <2>2, <2>3
<1>4. CASE MergerMerge
  <2>1. PICK task, m : /\ m = Merge(nextSegmentID + 1, task)
                       /\ segFiles' = segFiles \cup {[id |-> m.id, docs |-> m.docs]}
    BY <1>4 DEF MergerMerge
  <2>2. m.id = nextSegmentID + 1
    BY <2>1 DEF Merge
  <2>3. up
    BY <1>4 DEF MergerMerge, IInv, Down
  <2> QED
    BY <1>1, <2>1, <2>2, <2>3
<1>5. CASE ~PersistSegment /\ ~PersisterMerge /\ ~MergerMerge
  <2>1. segFiles' \subseteq segFiles
    <3>1. CASE \E w \in Writers : Prepare(w) \/ IntroduceSegment(w) \/ IntroduceFails(w)
      BY <3>1 DEF Prepare, IntroduceSegment, IntroduceFails, disk
    <3>2. CASE MergerMergeDone \/ PersisterMergeDone
      <4>1. PICK m : IntroduceMerge(m)
        BY <3>2 DEF MergerMergeDone, PersisterMergeDone
      <4> QED
        BY <4>1 DEF IntroduceMerge, Without
    <3>3. CASE MergerPlan \/ MergerRest \/ PersisterTake \/ IntroducePersist
      BY <3>3 DEF MergerPlan, MergerRest, PersisterTake, IntroducePersist, disk
    <3>4. CASE SnapshotCreate \/ SnapshotWritten \/ PersistSucceeds
      BY <3>4 DEF SnapshotCreate, SnapshotWritten, PersistSucceeds, disk
    <3>5. CASE PersistFails \/ CleanupSnapshots \/ CleanupSegments
      BY <3>5 DEF PersistFails, CleanupSnapshots, CleanupSegments, Without
    <3>6. CASE Crash \/ OpenWriter
      BY <3>6 DEF Crash, OpenWriter, disk, Without
    <3>7. CASE UNCHANGED vars
      BY <3>7 DEF vars, disk
    <3> QED
      BY <1>5, <3>1, <3>2, <3>3, <3>4, <3>5, <3>6, <3>7, NextIs DEF Elsewhere, Merger
  <2> QED
    BY <1>1, <2>1
<1> QED
  BY <1>2, <1>3, <1>4, <1>5

\* A snapshot is written under an epoch above those of the complete ones.
LEMMA SnapshotFilesAre ==
  ASSUME IInv, IInv', JInv, JInv', [Next]_vars
  PROVE  \A g \in snapFiles' : \/ g \in snapFiles
                               \/ \A f \in snapFiles : f.complete => f.epoch < g.epoch
<1>1. CASE SnapshotCreate
  <2>1. PICK g : g = SnapshotFile(FALSE)
    OBVIOUS
  <2>2. /\ snapFiles' = snapFiles \cup {g} /\ g.epoch = persister.snap.epoch
        /\ persister.pc \in {"taken", "writing"}
    BY <1>1, <2>1 DEF SnapshotCreate, SnapshotFile
  <2>3. up /\ Active
    BY <2>2 DEF IInv, Down, Active
  <2>4. \A f \in snapFiles : f.complete => f.epoch < g.epoch
    <3> SUFFICES ASSUME NEW f \in snapFiles, f.complete PROVE f.epoch < g.epoch
      OBVIOUS
    <3>1. f.epoch <= persister.last /\ persister.last < persister.snap.epoch
      BY <2>2, <2>3 DEF IInv, Order, Steps
    <3>2. f.epoch \in Nat /\ persister.last \in Nat /\ persister.snap.epoch \in Nat
      BY DEF IInv, Typed, SnapFiles, Snapshots
    <3> QED
      BY <2>2, <3>1, <3>2
  <2> QED
    BY <2>2, <2>4
<1>2. CASE SnapshotWritten
  <2>1. PICK g : g = SnapshotFile(TRUE)
    OBVIOUS
  <2>2. snapFiles' \subseteq snapFiles \cup {g} /\ \A f \in snapFiles : f.complete => f.epoch < persister.snap.epoch
    BY <1>2, <2>1, OnDiskMoves DEF JInv
  <2>3. g.epoch = persister.snap.epoch
    BY <2>1 DEF SnapshotFile
  <2> QED
    BY <2>2, <2>3
<1>3. CASE ~SnapshotCreate /\ ~SnapshotWritten
  <2>1. snapFiles' \subseteq snapFiles
    <3>1. CASE Elsewhere
      BY <3>1, ElsewhereIs
    <3>2. CASE PersisterTake \/ PersisterMerge \/ PersisterMergeDone \/ PersistSegment
      BY <3>2 DEF PersisterTake, PersisterMerge, PersisterMergeDone, PersistSegment, disk
    <3>3. CASE IntroducePersist \/ PersistSucceeds \/ PersistFails
      BY <3>3 DEF IntroducePersist, PersistSucceeds, PersistFails, disk
    <3>4. CASE CleanupSnapshots \/ CleanupSegments
      BY <3>4 DEF CleanupSnapshots, CleanupSegments
    <3>5. CASE Crash \/ OpenWriter
      BY <3>5 DEF Crash, OpenWriter, disk
    <3> QED
      BY <1>3, <3>1, <3>2, <3>3, <3>4, <3>5, NextIs
  <2> QED
    BY <2>1
<1> QED
  BY <1>1, <1>2, <1>3

\* No step of any goroutine changes a segment file or a complete snapshot: what is written
\* under an id again, by a retry, is what the id already stood for (persister.go, merge.go).
THEOREM FilesStayAsWritten == Spec => FilesAreImmutable
<1>1. ASSUME IInv, IInv', JInv, JInv', [Next]_vars
      PROVE  /\ \A f \in segFiles, g \in segFiles' : f.id = g.id => f = g
             /\ \A f \in snapFiles, g \in snapFiles' :
                  f.epoch = g.epoch /\ f.complete => f = g
  <2>1. ASSUME NEW f \in segFiles, NEW g \in segFiles', f.id = g.id PROVE f = g
    <3>1. f \in Written
      BY DEF Written
    <3>2. ~(up /\ g.id = nextSegmentID + 1)
      <4>1. f.id \in Ids(Written)
        BY <3>1 DEF Ids
      <4>2. up => nextSegmentID + 1 \notin Ids(Written)
        <5>1. Bounded /\ nextSegmentID \in Nat
          BY <1>1 DEF IInv, Identity, Typed
        <5> QED
          BY <5>1, NextIdIsNew
      <4> QED
        BY <2>1, <4>1, <4>2
    <3>3. g \in Written
      BY <1>1, <3>2, SegmentFilesAre
    <3> QED
      BY <1>1, <2>1, <3>1, <3>3 DEF IInv, Identity, OneContent
  <2>2. ASSUME NEW f \in snapFiles, NEW g \in snapFiles', f.epoch = g.epoch, f.complete PROVE f = g
    <3>1. CASE g \in snapFiles
      BY <1>1, <2>2, <3>1 DEF JInv, Single
    <3>2. CASE \A h \in snapFiles : h.complete => h.epoch < g.epoch
      <4>1. f.epoch < g.epoch /\ f.epoch \in Nat
        BY <1>1, <2>2, <3>2 DEF IInv, Typed, SnapFiles
      <4> QED
        BY <2>2, <4>1
    <3> QED
      BY <1>1, <3>1, <3>2, SnapshotFilesAre
  <2> QED
    BY <2>1, <2>2
<1> QED
  BY <1>1, SpecJInv, PTL DEF Spec, FilesAreImmutable

-----------------------------------------------------------------------------
(* The promise of a durable index. *)

\* The segment of batch n holds what the batch updates and nothing else.
LEMMA NewSegmentHolds ==
  ASSUME NEW in, in.id \in Nat, in.upd \subseteq Keys, IsFiniteSet(in.upd), NEW n \in Nat, NEW d
  PROVE  Holds(NewSegment(in, n), d) <=> d \in in.upd \X {n}
<1> DEFINE docs == in.upd \X {n}
           s    == [id |-> in.id, docs |-> SetToSeq(docs), deleted |-> {}, persisted |-> FALSE]
<1>1. CASE in.upd = {}
  BY <1>1 DEF NewSegment, Holds
<1>2. CASE in.upd # {}
  <2>1. NewSegment(in, n) = {s}
    BY <1>2 DEF NewSegment
  <2>2. IsFiniteSet(docs)
    BY FS_Singleton, FS_Product
  <2>3. /\ SetToSeq(docs) \in [1 .. Cardinality(docs) -> docs]
        /\ \A e \in docs : \E k \in 1 .. Cardinality(docs) : SetToSeq(docs)[k] = e
    <3>1. Cardinality(docs) \in Nat /\ ExistsBijection(1 .. Cardinality(docs), docs)
      BY <2>2, FS_CardinalityType
    <3>2. /\ SetToSeq(docs) \in [1 .. Cardinality(docs) -> docs]
          /\ \A k, m \in 1 .. Cardinality(docs) : SetToSeq(docs)[k] = SetToSeq(docs)[m] => k = m
      BY <3>1 DEF SetToSeq, IsInjective, ExistsBijection, Bijection, Injection
    <3> DEFINE q == SetToSeq(docs)
    <3> HIDE DEF q, docs
    <3>3. q \in Injection(1 .. Cardinality(docs), docs)
      BY <3>2 DEF q, Injection, IsInjective
    <3>4. /\ IsFiniteSet(1 .. Cardinality(docs)) /\ IsFiniteSet(docs)
          /\ Cardinality(1 .. Cardinality(docs)) = Cardinality(docs)
      BY <2>2, <3>1, FS_Interval DEF docs
    <3>5. q \in Surjection(1 .. Cardinality(docs), docs)
      BY <3>3, <3>4, FS_Injection
    <3> QED
      BY <3>2, <3>5 DEF q, Surjection
  <2> HIDE DEF docs
  <2>4. Live(s) = 1 .. Cardinality(docs)
    BY <2>3 DEF Live
  <2>5. PICK q : q = SetToSeq(docs)
    OBVIOUS
  <2>6. PICK t : t = s
    OBVIOUS
  <2>7. NewSegment(in, n) = {t} /\ t.docs = q /\ Live(t) = 1 .. Cardinality(docs)
    BY <2>1, <2>4, <2>5, <2>6
  <2>8. \A e : (\E k \in 1 .. Cardinality(docs) : e = q[k]) <=> e \in docs
    BY <2>3, <2>5
  <2>9. Holds(NewSegment(in, n), d) <=> \E k \in 1 .. Cardinality(docs) : d = q[k]
    BY <2>7 DEF Holds
  <2> QED
    BY <2>8, <2>9 DEF docs
<1> QED
  BY <1>1, <1>2

\* A batch is applied at once and as a whole: the root holds what it held, without what
\* the batch updates or deletes, and what it updates.
LEMMA BatchApplies ==
  ASSUME NEW segs, Sound(segs), NEW in, NEW n \in Nat,
         in.id \in Nat, in.upd \subseteq Keys, IsFiniteSet(in.upd), in.upd \subseteq in.terms,
         SeesWhatIs(in, segs), in.id \notin Ids(segs)
  PROVE  Content(WithBatch(segs, in, NewSegment(in, n))) =
           {d \in Content(segs) : d[1] \notin in.terms} \cup (in.upd \X {n})
<1> DEFINE kept == {t \in {Obsoleting(s, in.terms) : s \in segs} : Live(t) # {}}
           new  == NewSegment(in, n)
           all  == WithBatch(segs, in, new)
<1>1. all = kept \cup new
  BY WithBatchIs
<1>2. Sound(all) /\ UniqueIds(all) /\ UniqueIds(segs) /\ segs \subseteq SegmentSnapshots
  BY BatchIsSound DEF Sound
<1>3. \A d : Holds(new, d) <=> d \in in.upd \X {n}
  BY NewSegmentHolds
<1>4. \A d : Holds(kept, d) <=> Holds(segs, d) /\ d[1] \notin in.terms
  <2> SUFFICES ASSUME NEW d PROVE Holds(kept, d) <=> Holds(segs, d) /\ d[1] \notin in.terms
    OBVIOUS
  <2>1. ASSUME NEW t \in kept, NEW k \in Live(t), d = t.docs[k]
        PROVE  Holds(segs, d) /\ d[1] \notin in.terms
    <3>1. PICK s \in segs : t = Obsoleting(s, in.terms)
      OBVIOUS
    <3>2. t.docs = s.docs /\ k \in Live(s) /\ s.docs[k][1] \notin in.terms
      BY <1>2, <3>1, ObsoletingIs
    <3> QED
      BY <2>1, <3>2 DEF Holds
  <2>2. ASSUME NEW s \in segs, NEW k \in Live(s), d = s.docs[k], d[1] \notin in.terms
        PROVE  Holds(kept, d)
    <3>1. PICK t : t = Obsoleting(s, in.terms)
      OBVIOUS
    <3>2. t.docs = s.docs /\ k \in Live(t)
      BY <1>2, <2>2, <3>1, ObsoletingIs
    <3>3. t \in kept
      BY <3>1, <3>2
    <3> QED
      BY <2>2, <3>2, <3>3 DEF Holds
  <2> QED
    BY <2>1, <2>2 DEF Holds
<1>5. \A d : Holds(kept \cup new, d) <=> Holds(kept, d) \/ Holds(new, d)
  BY DEF Holds
<1> HIDE DEF kept, new, all
<1>6. \A d : d \in Content(all) <=> Holds(kept, d) \/ Holds(new, d)
  BY <1>1, <1>2, <1>5, ContentIs
<1>7. \A d : d \in Content(segs) <=> Holds(segs, d)
  BY <1>2, ContentIs
<1>8. Content(all) = {d \in Content(segs) : d[1] \notin in.terms} \cup (in.upd \X {n})
  BY <1>3, <1>4, <1>6, <1>7
<1> QED
  BY <1>8 DEF all, new

\* Taking a batch is Apply.
LEMMA IntroduceApplies ==
  ASSUME IInv, JInv, NEW w \in Writers, IntroduceSegment(w), OnDisk' = OnDisk
  PROVE  Store!Apply
<1>1. PICK in, n : in = writer[w].in /\ n = Len(history)
  OBVIOUS
<1>2. /\ history' = Append(history, Content(WithBatch(root.segs, in, NewSegment(in, n))))
      /\ acked' = acked /\ w \in Senders
  BY <1>1 DEF IntroduceSegment, Senders
<1>3. up
  BY <1>2 DEF IInv, Down
<1>4. /\ in.id \in Nat /\ in.upd \subseteq Keys /\ IsFiniteSet(in.upd) /\ in.upd \subseteq in.terms
      /\ SeesWhatIs(in, root.segs)
  BY <1>1, <1>2 DEF IInv, Identity, Prepared
<1>5. in.id \notin Ids(root.segs)
  <2>1. in.id \notin Ids(Written)
    BY <1>1, <1>2 DEF IInv, Identity, Fresh
  <2>2. Ids(root.segs) \subseteq Ids(Written)
    BY IdsWritten DEF Ids, Views, Snaps
  <2> QED
    BY <2>1, <2>2
<1>6. n \in Nat /\ n > 0 /\ Sound(root.segs) /\ Content(root.segs) = history[n]
  <2>1. n \in Nat /\ n > 0
    BY <1>1 DEF IInv, Typed
  <2>2. Reaches(root.segs, root.upto) /\ root.upto = Batched
    BY <1>3 DEF IInv, Contents
  <2>3. Batched + 1 = n
    BY <1>1, <2>1 DEF Batched
  <2> QED
    BY <2>1, <2>2, <2>3 DEF Reaches
<1>7. PICK b \in Batches : in.upd = b.upd /\ in.terms = b.upd \cup b.del
  BY <1>1, <1>2 DEF JInv, Asked
<1>8. Content(WithBatch(root.segs, in, NewSegment(in, n)))
        = {d \in history[n] : d[1] \notin b.upd \cup b.del} \cup (b.upd \X {n})
  BY <1>4, <1>5, <1>6, <1>7, BatchApplies
<1>9. history' = Append(history, Store!Applied(history[Len(history)], b, Len(history)))
  BY <1>1, <1>2, <1>8 DEF Store!Applied
<1> QED
  BY <1>2, <1>9 DEF Store!Apply

\* Every step is one of DurableIndex or leaves its variables alone.
LEMMA StepImplements ==
  ASSUME IInv, IInv', JInv, JInv', [Next]_vars
  PROVE  [Store!Next]_<<history, OnDisk.upto, acked>>
<1>0. /\ Still /\ Single /\ Single' /\ Retained /\ Told
      /\ Batched \in Nat /\ OnDisk.upto \in 0 .. Batched
  BY OnDiskIs DEF JInv, IInv, Typed, Batched
<1>1. CASE \E w \in Writers : IntroduceSegment(w)
  <2>1. OnDisk' = OnDisk
    BY <1>0, <1>1, OnDiskKept DEF NotSaving, Elsewhere
  <2> QED
    BY <1>1, <2>1, IntroduceApplies DEF Store!Next
<1>2. CASE SnapshotWritten
  <2>1. OnDisk'.upto = persister.snap.upto /\ OnDisk.upto <= persister.snap.upto
    BY <1>0, <1>2, OnDiskMoves
  <2>2. persister.snap.upto \in 0 .. Batched
    BY DEF IInv, Contents, Reaches
  <2>3. OnDisk'.upto \in OnDisk.upto .. Len(history) - 1
    BY <1>0, <2>1, <2>2 DEF Batched
  <2>4. UNCHANGED <<history, acked>>
    BY <1>2 DEF SnapshotWritten, ghosts
  <2> QED
    BY <2>3, <2>4 DEF Store!Next, Store!Save
<1>3. CASE PersistSucceeds
  <2>1. OnDisk' = OnDisk /\ history' = history
    BY <1>0, <1>3, OnDiskKept DEF NotSaving, PersistSucceeds
  <2>2. acked' \in acked .. OnDisk.upto
    BY <1>0, <1>3, AckedIs
  <2> QED
    BY <2>1, <2>2 DEF Store!Next, Store!Ack
<1>4. CASE Crash
  <2>1. OnDisk' = OnDisk
    BY <1>0, <1>4, OnDiskKept DEF NotSaving
  <2>2. history' = SubSeq(history, 1, OnDisk.upto + 1) /\ acked' = acked
    BY <1>4 DEF Crash
  <2> QED
    BY <2>1, <2>2 DEF Store!Next, Store!Crash
<1>5. CASE \/ Elsewhere /\ ~\E w \in Writers : IntroduceSegment(w)
           \/ PersisterTake \/ PersisterMerge \/ PersisterMergeDone \/ PersistSegment
           \/ IntroducePersist \/ SnapshotCreate \/ PersistFails
           \/ CleanupSnapshots \/ CleanupSegments \/ OpenWriter
  <2>1. OnDisk' = OnDisk
    BY <1>0, <1>5, OnDiskKept DEF NotSaving
  <2>2. UNCHANGED <<history, acked>>
    <3>1. CASE Elsewhere /\ ~\E w \in Writers : IntroduceSegment(w)
      <4>1. CASE \E w \in Writers : Prepare(w) \/ IntroduceFails(w)
        BY <4>1 DEF Prepare, IntroduceFails, ghosts
      <4>2. CASE MergerMergeDone
        BY <4>2 DEF MergerMergeDone, ghosts
      <4>3. CASE Merger
        BY <4>3 DEF Merger, MergerPlan, MergerMerge, MergerRest, ghosts
      <4>4. CASE UNCHANGED vars
        BY <4>4 DEF vars, ghosts
      <4> QED
        BY <3>1, <4>1, <4>2, <4>3, <4>4 DEF Elsewhere
    <3>2. CASE PersisterTake \/ PersisterMerge \/ PersisterMergeDone \/ PersistSegment
      BY <3>2 DEF PersisterTake, PersisterMerge, PersisterMergeDone, PersistSegment, ghosts
    <3>3. CASE IntroducePersist \/ SnapshotCreate \/ PersistFails
      BY <3>3 DEF IntroducePersist, SnapshotCreate, PersistFails, ghosts
    <3>4. CASE CleanupSnapshots \/ CleanupSegments \/ OpenWriter
      BY <3>4 DEF CleanupSnapshots, CleanupSegments, OpenWriter, ghosts
    <3> QED
      BY <1>5, <3>1, <3>2, <3>3, <3>4
  <2> QED
    BY <2>1, <2>2
<1> QED
  BY <1>1, <1>2, <1>3, <1>4, <1>5, NextIs

\* The writer is a durable index: each of its steps applies one batch, saves a prefix,
\* acknowledges what is saved, goes back to what is saved, or changes nothing of these.
THEOREM WriterIsDurable == Spec => ImplementsDurableIndex
<1>1. Init => Store!Init
  <2> SUFFICES ASSUME Init PROVE Store!Init
    OBVIOUS
  <2>1. history = <<{}>> /\ acked = 0 /\ snapFiles = {}
    BY DEF Init
  <2>2. PICK d : d = OnDisk
    OBVIOUS
  <2>3. d.upto = 0
    BY <2>1, <2>2 DEF OnDisk
  <2> QED
    BY <2>1, <2>2, <2>3 DEF Store!Init
<1>2. (IInv /\ JInv) /\ (IInv /\ JInv)' /\ [Next]_vars => [Store!Next]_<<history, OnDisk.upto, acked>>
  BY StepImplements
<1> QED
  BY <1>1, <1>2, SpecJInv, PTL DEF Spec, ImplementsDurableIndex, Store!Spec, Store!vars

\* What DurableIndex promises, of the writer's own state: an acknowledged batch is in the
\* newest snapshot on disk, and that snapshot is of the history.
THEOREM AcknowledgedIsSaved == Spec => []Store!NothingAckedIsLost
<1>1. IInv /\ JInv => Store!NothingAckedIsLost
  <2> SUFFICES ASSUME IInv, JInv PROVE Store!NothingAckedIsLost
    OBVIOUS
  <2>1. OnDisk.upto \in 0 .. Batched /\ Len(history) \in Nat
    BY OnDiskIs DEF IInv, Typed
  <2>2. acked \in 0 .. OnDisk.upto
    BY DEF JInv, Told
  <2> QED
    BY <2>1, <2>2 DEF Store!NothingAckedIsLost, Batched
<1> QED
  BY <1>1, SpecJInv, PTL

=============================================================================
