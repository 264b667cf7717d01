---------------------------- MODULE EntryProofs ----------------------------
(***************************************************************************)
(* Proofs about who gets in to write: of the processes, the one that locks  *)
(* the directory (DirectoryLock), for any set of processes and any number   *)
(* of pid files; of the calls inside a process, those that are admitted     *)
(* (WriterFrontend), for any number of calls, limits and ids.  A call's     *)
(* slot and its place in the statistics are given back on every way out of  *)
(* it, and with one batch at a time the vectors follow the text.            *)
(*                                                                         *)
(* And about where the vectors go (VectorSidecar), for any ids, fields and  *)
(* batches: the sidecar has what it was given.  SidecarInv relates memory   *)
(* and directory key by key, up to the ids of batches that failed or were   *)
(* cut short (Doubted) and what those left behind (strays).                 *)
(*                                                                         *)
(* And about what the offline writer leaves (OfflineWriter), for any        *)
(* batches, sizes of merges and failures: every batch it built, in order.   *)
(* OfflineInv follows each place of a round of merges to the file that has  *)
(* its documents now (Home) and says they rise from place to place.         *)
(***************************************************************************)
EXTENDS DirectoryLock, WriterFrontend, VectorSidecar, OfflineWriter,
        FiniteSetTheorems, NaturalsInduction, WellFoundedInduction, TLAPS

(* The lock of the directory *)

HasOpen(p) == process[p].pc \in {"opened", "writing", "stuck"}
HasLock(p) == process[p].pc \in {"writing", "stuck"}

\* Two processes never lock one inode; and until an Unlock removed the name of
\* a file somebody had open, whatever is open is what the name leads to.
LockInv ==
  /\ TypeOK
  /\ path <= created
  /\ \A p \in Processes : HasOpen(p) => process[p].ino # 0
  /\ \A p \in Processes : ~HasOpen(p) => process[p].ino = 0
  /\ \A p, q \in Processes : HasLock(p) /\ HasLock(q) /\ process[p].ino = process[q].ino => p = q
  /\ \A p \in Processes : process[p].ino <= created
  /\ ~unlinked => \A p \in Processes : HasOpen(p) => process[p].ino = path

\* No process has the directory, and there is no pid file.
LEMMA LockInitially == Init => LockInv
<1> SUFFICES ASSUME Init PROVE LockInv
  OBVIOUS
<1>1. \A p \in Processes : process[p] = Nobody
  BY DEF Init
<1>2. TypeOK
  BY DEF Init, TypeOK, Nobody
<1>3. ASSUME NEW p \in Processes
      PROVE  ~HasOpen(p) /\ ~HasLock(p) /\ process[p].ino = 0
  <2>1. process[p].pc = "out" /\ process[p].ino = 0
    BY <1>1 DEF Nobody
  <2> QED
    BY <2>1 DEF HasOpen, HasLock
<1> QED
  BY <1>2, <1>3 DEF Init, LockInv

\* Every step of Lock, Unlock and dying keeps the invariant.
LEMMA LockInductive == LockInv /\ [Next]_vars => LockInv'
<1> SUFFICES ASSUME LockInv, [Next]_vars PROVE LockInv'
  OBVIOUS
<1> USE DEF LockInv, TypeOK, HasOpen, HasLock, Nobody
<1>1. ASSUME NEW p \in Processes, OpenPid(p) PROVE LockInv'
  BY <1>1 DEF OpenPid
<1>2. ASSUME NEW p \in Processes, LockPid(p) PROVE LockInv'
  BY <1>2 DEF LockPid, Locked
<1>3. ASSUME NEW p \in Processes, RefusePid(p) PROVE LockInv'
  BY <1>3 DEF RefusePid
<1>4. ASSUME NEW p \in Processes, ClosePid(p) PROVE LockInv'
  BY <1>4 DEF ClosePid
<1>5. ASSUME NEW p \in Processes, RemovePid(p) PROVE LockInv'
  BY <1>5 DEF RemovePid
<1>6. ASSUME NEW p \in Processes, Die(p) PROVE LockInv'
  BY <1>6 DEF Die
<1>7. CASE UNCHANGED vars
  BY <1>7 DEF vars
<1> QED
  BY <1>1, <1>2, <1>3, <1>4, <1>5, <1>6, <1>7 DEF Next

\* Every variable keeps its type in every behaviour.
THEOREM Typed == Spec => []TypeOK
<1>1. LockInv => TypeOK
  BY DEF LockInv
<1> QED
  BY <1>1, LockInitially, LockInductive, PTL DEF Spec

\* Two processes write in one directory only after an Unlock (directory_fs.go)
\* removed the name of a pid file that another process had opened.
THEOREM Exclusive == Spec => []ExclusiveUnlessUnlinked
<1>1. LockInv => ExclusiveUnlessUnlinked
  BY DEF LockInv, HasOpen, HasLock, ExclusiveUnlessUnlinked, MutualExclusion, Writing
<1> QED
  BY <1>1, LockInitially, LockInductive, PTL DEF Spec

\* A writer that was not displaced locks the file that the name leads to.
THEOREM Owner == Spec => []WriterOwnsTheName
<1>1. LockInv => WriterOwnsTheName
  BY DEF LockInv, HasOpen, WriterOwnsTheName, Writing
<1> QED
  BY <1>1, LockInitially, LockInductive, PTL DEF Spec

-----------------------------------------------------------------------------
(* The calls of one process *)

InsidePcs == {"building", "checked", "writing", "written", "done", "unwinding"}
Pcs       == Waits \cup InsidePcs \cup {"admitted", "releasing", "dropping"}

\* The calls between acquireBatch's end and releaseBatch's beginning.
Inside == {c \in Calls : call[c].pc \in InsidePcs}

CallsTyped == call \in [Calls -> [pc : Pcs, batch : Batches \cup {NoBatch}]]

\* What is counted is what is there: the tokens are the calls that have one, and the
\* statistics are the calls inside.
Accounted ==
  /\ CallsTyped
  /\ limit \in Nat
  /\ IsFiniteSet(HasSlot)
  /\ slots = IF limit = 0 THEN 0 ELSE Cardinality(HasSlot)
  /\ limit > 0 => slots <= limit
  /\ inFlight = Cardinality(Inside)
  /\ inBytes \subseteq Inside

\* When one call moves on, it alone enters or leaves the two sets.
LEMMA OneMoves ==
  ASSUME CallsTyped, CallsTyped', NEW c \in Calls,
         \A d \in Calls \ {c} : call'[d] = call[d]
  PROVE  /\ HasSlot' = IF call'[c].pc \in Waits THEN HasSlot \ {c} ELSE HasSlot \cup {c}
         /\ Inside'  = IF call'[c].pc \in InsidePcs THEN Inside \cup {c} ELSE Inside \ {c}
         /\ c \in HasSlot <=> call[c].pc \notin Waits
         /\ c \in Inside <=> call[c].pc \in InsidePcs
  BY DEF HasSlot, Inside

\* The calls stay typed when one of them moves on.
LEMMA Moved ==
  ASSUME CallsTyped, NEW c \in Calls, NEW pc \in Pcs, call' = [call EXCEPT ![c].pc = pc]
  PROVE  /\ CallsTyped'
         /\ call'[c].pc = pc
         /\ \A d \in Calls \ {c} : call'[d] = call[d]
  BY DEF CallsTyped

\* Whoever is inside has a slot, and what a set has more or less shows in its number.
LEMMA Counted ==
  ASSUME Accounted
  PROVE  /\ IsFiniteSet(Inside) /\ Inside \subseteq HasSlot
         /\ Cardinality(Inside) \in Nat /\ Cardinality(HasSlot) \in Nat
         /\ Cardinality(Inside) <= Cardinality(HasSlot)
<1>1. Inside \subseteq HasSlot
  BY DEF Inside, HasSlot, InsidePcs, Waits
<1>2. IsFiniteSet(Inside) /\ Cardinality(Inside) <= Cardinality(HasSlot)
  BY <1>1, FS_Subset DEF Accounted
<1> QED
  BY <1>1, <1>2, FS_CardinalityType DEF Accounted

\* A call that neither takes nor gives back a slot, and stays inside or outside.
LEMMA Stays ==
  ASSUME Accounted, CallsTyped', NEW c \in Calls,
         \A d \in Calls \ {c} : call'[d] = call[d],
         call[c].pc \in Waits <=> call'[c].pc \in Waits,
         call[c].pc \in InsidePcs <=> call'[c].pc \in InsidePcs,
         UNCHANGED <<limit, slots, inFlight>>,
         inBytes' \subseteq Inside
  PROVE  Accounted'
<1>1. /\ HasSlot' = IF call'[c].pc \in Waits THEN HasSlot \ {c} ELSE HasSlot \cup {c}
      /\ Inside'  = IF call'[c].pc \in InsidePcs THEN Inside \cup {c} ELSE Inside \ {c}
      /\ c \in HasSlot <=> call'[c].pc \notin Waits
      /\ c \in Inside <=> call'[c].pc \in InsidePcs
  BY OneMoves DEF Accounted
<1>2. HasSlot' = HasSlot /\ Inside' = Inside
  BY <1>1
<1> QED
  BY <1>2 DEF Accounted

\* At the start nobody holds a slot or bytes.
LEMMA Initially == FrontInit => Accounted
<1> SUFFICES ASSUME FrontInit PROVE Accounted
  OBVIOUS
<1>1. CallsTyped
  BY DEF FrontInit, CallsTyped, Pcs, Waits
<1>2. HasSlot = {} /\ Inside = {}
  BY DEF FrontInit, HasSlot, Inside, Waits, InsidePcs
<1>3. limit \in Nat
  BY WriterFrontendAssumption DEF FrontInit
<1> QED
  BY <1>1, <1>2, <1>3, FS_EmptySet DEF FrontInit, Accounted

\* acquireBatch takes a slot and counts it.
LEMMA Acquired ==
  ASSUME Accounted, NEW c \in Calls, AcquireBatch(c)
  PROVE  Accounted'
<1>1. call[c].pc = "waiting" /\ UNCHANGED <<limit, inFlight, inBytes>>
  BY DEF AcquireBatch
<1>2. c \notin HasSlot /\ c \notin Inside
  BY <1>1 DEF HasSlot, Inside, Waits, InsidePcs
<1>3. CASE Go(c, "failed") /\ UNCHANGED slots
  <2>1. CallsTyped' /\ call'[c].pc = "failed" /\ \A d \in Calls \ {c} : call'[d] = call[d]
    BY <1>3, Moved DEF Go, Pcs, Waits, Accounted
  <2> QED
    BY <1>1, <1>3, <2>1, Stays DEF Waits, InsidePcs, Accounted
<1>4. CASE Go(c, "admitted") /\ slots' = (IF limit = 0 THEN slots ELSE slots + 1)
           /\ (limit > 0 => slots < limit)
  <2>1. CallsTyped' /\ call'[c].pc = "admitted" /\ \A d \in Calls \ {c} : call'[d] = call[d]
    BY <1>4, Moved DEF Go, Pcs, Accounted
  <2>2. HasSlot' = HasSlot \cup {c} /\ Inside' = Inside
    BY <1>2, <2>1, OneMoves DEF Accounted, Waits, InsidePcs
  <2>3. IsFiniteSet(HasSlot') /\ Cardinality(HasSlot') = Cardinality(HasSlot) + 1
    BY <1>2, <2>2, FS_AddElement DEF Accounted
  <2> QED
    BY <1>1, <1>4, <2>1, <2>2, <2>3, Counted DEF Accounted
<1> QED
  BY <1>3, <1>4 DEF AcquireBatch, Accounted

\* A call gives back its slot, from where it is not counted as inside.
LEMMA Freed ==
  ASSUME Accounted, NEW c \in Calls, CallsTyped',
         \A d \in Calls \ {c} : call'[d] = call[d],
         call[c].pc \in Pcs \ (Waits \cup InsidePcs), call'[c].pc \in Waits,
         slots' = SlotGivenBack, UNCHANGED <<limit, inFlight, inBytes>>
  PROVE  Accounted'
<1>1. c \in HasSlot /\ c \notin Inside /\ call'[c].pc \notin InsidePcs
  BY DEF HasSlot, Inside, Waits, InsidePcs
<1>2. HasSlot' = HasSlot \ {c} /\ Inside' = Inside
  BY <1>1, OneMoves DEF Accounted
<1>3. IsFiniteSet(HasSlot') /\ Cardinality(HasSlot') = Cardinality(HasSlot) - 1
  BY <1>1, <1>2, FS_RemoveElement DEF Accounted
<1> QED
  BY <1>2, <1>3, Counted DEF Accounted, SlotGivenBack

\* A call refused after all gives its slot back; the others are counted.
LEMMA Admitted ==
  ASSUME Accounted, NEW c \in Calls, AdmitBatch(c)
  PROVE  Accounted'
<1>1. call[c].pc = "admitted" /\ UNCHANGED <<limit, inBytes>>
  BY DEF AdmitBatch
<1>2. CASE Go(c, "failed") /\ slots' = SlotGivenBack /\ UNCHANGED inFlight
  <2>1. CallsTyped' /\ call'[c].pc = "failed" /\ \A d \in Calls \ {c} : call'[d] = call[d]
    BY <1>2, Moved DEF Go, Pcs, Waits, Accounted
  <2> QED
    BY <1>1, <1>2, <2>1, Freed DEF Pcs, Waits, InsidePcs
<1>3. CASE Go(c, "building") /\ inFlight' = inFlight + 1 /\ UNCHANGED slots
  <2>1. CallsTyped' /\ call'[c].pc = "building" /\ \A d \in Calls \ {c} : call'[d] = call[d]
    BY <1>3, Moved DEF Go, Pcs, InsidePcs, Accounted
  <2>2. c \in HasSlot /\ c \notin Inside
    BY <1>1 DEF HasSlot, Inside, Waits, InsidePcs
  <2>3. HasSlot' = HasSlot /\ Inside' = Inside \cup {c}
    BY <2>1, <2>2, OneMoves DEF Accounted, Waits, InsidePcs
  <2>4. Cardinality(Inside') = Cardinality(Inside) + 1
    BY <2>2, <2>3, Counted, FS_AddElement
  <2> QED
    BY <1>1, <1>3, <2>1, <2>3, <2>4 DEF Accounted
<1> QED
  BY <1>2, <1>3 DEF AdmitBatch

\* A batch that cannot be built releases what it holds.
LEMMA Built ==
  ASSUME Accounted, NEW c \in Calls, NEW batch \in Batches, BuildBatch(c, batch)
  PROVE  Accounted'
<1>1. call[c].pc = "building" /\ UNCHANGED <<limit, slots, inFlight>>
  BY DEF BuildBatch
<1>2. c \in Inside
  BY <1>1 DEF Inside, InsidePcs
<1>3. CASE call' = [call EXCEPT ![c] = [pc |-> "checked", batch |-> batch]]
           /\ inBytes' = inBytes \cup {c}
  <2>1. CallsTyped' /\ call'[c].pc = "checked" /\ \A d \in Calls \ {c} : call'[d] = call[d]
    BY <1>3 DEF Pcs, InsidePcs, Accounted, CallsTyped
  <2>2. inBytes' \subseteq Inside
    BY <1>2, <1>3 DEF Accounted
  <2> QED
    BY <1>1, <2>1, <2>2, Stays DEF Waits, InsidePcs
<1>4. CASE Go(c, "unwinding") /\ UNCHANGED inBytes
  <2>1. CallsTyped' /\ call'[c].pc = "unwinding" /\ \A d \in Calls \ {c} : call'[d] = call[d]
    BY <1>4, Moved DEF Go, Pcs, InsidePcs, Accounted
  <2> QED
    BY <1>1, <1>4, <2>1, Stays DEF Waits, InsidePcs, Accounted
<1> QED
  BY <1>3, <1>4 DEF BuildBatch

\* Validation and both writes keep the call inside.
LEMMA AppliedInside ==
  ASSUME Accounted, NEW c \in Calls,
         \/ ValidateVectors(c) \/ WriteText(c) \/ ApplyVectors(c)
  PROVE  Accounted'
<1>1. /\ call[c].pc \in {"checked", "writing", "written"}
      /\ UNCHANGED <<limit, slots, inFlight, inBytes>>
      /\ \E pc \in {"writing", "written", "done", "unwinding"} : call' = [call EXCEPT ![c].pc = pc]
  BY DEF ValidateVectors, WriteText, RefuseText, ApplyVectors, Go
<1>2. PICK pc \in {"writing", "written", "done", "unwinding"} :
        call' = [call EXCEPT ![c].pc = pc]
  BY <1>1
<1>3. CallsTyped' /\ call'[c].pc = pc /\ \A d \in Calls \ {c} : call'[d] = call[d]
  BY <1>2, Moved DEF Pcs, InsidePcs, Accounted
<1> QED
  BY <1>1, <1>3, Stays DEF Waits, InsidePcs, Accounted

\* releaseBatch takes the bytes back and leaves the slot to the next step.
LEMMA Released ==
  ASSUME Accounted, NEW c \in Calls, ReleaseBatch(c)
  PROVE  Accounted'
<1>1. /\ call[c].pc \in {"done", "unwinding"} /\ c \notin inBytes
      /\ inFlight' = inFlight - 1 /\ UNCHANGED <<limit, slots, inBytes>>
  BY DEF ReleaseBatch
<1>2. PICK pc \in {"releasing", "dropping"} : call' = [call EXCEPT ![c].pc = pc]
  BY DEF ReleaseBatch, Accounted, CallsTyped
<1>3. CallsTyped' /\ call'[c].pc = pc /\ \A d \in Calls \ {c} : call'[d] = call[d]
  BY <1>2, Moved DEF Pcs, Accounted
<1>4. c \in HasSlot /\ c \in Inside
  BY <1>1 DEF HasSlot, Inside, Waits, InsidePcs
<1>5. HasSlot' = HasSlot /\ Inside' = Inside \ {c}
  BY <1>3, <1>4, OneMoves DEF Accounted, Waits, InsidePcs
<1>6. Cardinality(Inside') = Cardinality(Inside) - 1
  BY <1>4, <1>5, Counted, FS_RemoveElement
<1> QED
  BY <1>1, <1>3, <1>5, <1>6 DEF Accounted

\* The end of a call gives its slot back.
LEMMA SlotFreed ==
  ASSUME Accounted, NEW c \in Calls, FreeSlot(c)
  PROVE  Accounted'
<1>1. /\ call[c].pc \in {"releasing", "dropping"}
      /\ slots' = SlotGivenBack /\ UNCHANGED <<limit, inFlight, inBytes>>
  BY DEF FreeSlot
<1>2. PICK pc \in {"ok", "failed"} : call' = [call EXCEPT ![c].pc = pc]
  BY DEF FreeSlot, Accounted, CallsTyped
<1>3. CallsTyped' /\ call'[c].pc = pc /\ \A d \in Calls \ {c} : call'[d] = call[d]
  BY <1>2, Moved DEF Pcs, Waits, Accounted
<1> QED
  BY <1>1, <1>3, Freed DEF Pcs, Waits, InsidePcs

\* No step of a call or of Close breaks the accounts.
LEMMA Inductive == Accounted /\ [FrontNext]_frontVars => Accounted'
<1> SUFFICES ASSUME Accounted, [FrontNext]_frontVars PROVE Accounted'
  OBVIOUS
<1>1. ASSUME NEW c \in Calls, Enter(c) PROVE Accounted'
  <2>1. CallsTyped' /\ call'[c].pc = "waiting" /\ \A d \in Calls \ {c} : call'[d] = call[d]
    BY <1>1, Moved DEF Enter, Go, Pcs, Waits, Accounted
  <2> QED
    BY <1>1, <2>1, Stays DEF Enter, Waits, InsidePcs, Accounted
<1>2. ASSUME NEW c \in Calls, Cancel(c) PROVE Accounted'
  BY <1>2 DEF Cancel, Accounted, CallsTyped, HasSlot, Inside
<1>3. ASSUME NEW c \in Calls, AcquireBatch(c) PROVE Accounted'
  BY <1>3, Acquired
<1>4. ASSUME NEW c \in Calls, AdmitBatch(c) PROVE Accounted'
  BY <1>4, Admitted
<1>5. ASSUME NEW c \in Calls, NEW batch \in Batches, BuildBatch(c, batch) PROVE Accounted'
  BY <1>5, Built
<1>6. ASSUME NEW c \in Calls, ValidateVectors(c) \/ WriteText(c) \/ ApplyVectors(c)
      PROVE  Accounted'
  BY <1>6, AppliedInside
<1>7. ASSUME NEW c \in Calls, ReturnBytes(c) PROVE Accounted'
  BY <1>7 DEF ReturnBytes, Accounted, CallsTyped, HasSlot, Inside
<1>8. ASSUME NEW c \in Calls, ReleaseBatch(c) PROVE Accounted'
  BY <1>8, Released
<1>9. ASSUME NEW c \in Calls, FreeSlot(c) PROVE Accounted'
  BY <1>9, SlotFreed
<1>10. CASE CloseSignal \/ CloseText \/ CloseVectors
  BY <1>10 DEF CloseSignal, CloseText, CloseVectors, Accounted, CallsTyped, HasSlot, Inside
<1>11. CASE UNCHANGED frontVars
  BY <1>11 DEF frontVars, Accounted, CallsTyped, HasSlot, Inside
<1> QED
  BY <1>1, <1>2, <1>3, <1>4, <1>5, <1>6, <1>7, <1>8, <1>9, <1>10, <1>11 DEF FrontNext

\* Whatever way calls of Batch end, beside a Close or not (writer_limits.go): no more
\* are admitted than configured, and nothing is held or counted when nobody is inside.
THEOREM SlotsAreReturned == FrontSpec => []NothingIsHeld
<1>1. Accounted => NothingIsHeld
  <2> SUFFICES ASSUME Accounted PROVE NothingIsHeld
    OBVIOUS
  <2>1. limit > 0 => slots <= limit /\ inFlight <= slots
    BY Counted DEF Accounted
  <2>2. HasSlot = {} => slots = 0 /\ inFlight = 0 /\ inBytes = {}
    BY Counted, FS_EmptySet DEF Accounted
  <2> QED
    BY <2>1, <2>2 DEF NothingIsHeld
<1> QED
  BY <1>1, Initially, Inductive, PTL DEF FrontSpec

-----------------------------------------------------------------------------
(* The vector index follows the text index. *)

Texts == [by : Calls \cup {None}, shape : Shapes \cup {None}]

\* The vector of an id is that of its live text.
Follows(i) == vectors[i] = IF text[i].shape = None THEN None ELSE text[i].by

\* What writing a batch leaves of its document.
TextOf(c, b) == IF b.op = "delete" THEN [by |-> None, shape |-> None]
                                   ELSE [by |-> c, shape |-> b.shape]

\* With one batch at a time, only the document of the batch that has written its text and
\* not yet its vectors may be without its vector; and that batch still fits the field.
Followed ==
  /\ text \in [Ids -> Texts] /\ vectors \in [Ids -> Calls \cup {None}]
  /\ \A c \in Calls : call[c].pc \in {"checked", "writing", "written"} =>
       /\ call[c].batch \in Batches
       /\ call[c].batch.op = "delete" => call[c].batch.shape = None
  /\ limit = 1 =>
       /\ \A c \in Calls : call[c].pc \in {"writing", "written"} => Fits(call[c].batch)
       /\ \A c \in Calls : call[c].pc = "written" =>
            text[call[c].batch.id] = TextOf(c, call[c].batch)
       /\ \A i \in Ids \ torn :
            Follows(i) \/ \E c \in Calls : call[c].pc = "written" /\ call[c].batch.id = i

Followers == {"checked", "writing", "written"}

\* One batch at a time: no two calls have a slot.
LEMMA Alone ==
  ASSUME Accounted, limit = 1, NEW c \in HasSlot, NEW d \in HasSlot
  PROVE  c = d
<1> SUFFICES ASSUME c # d PROVE FALSE
  OBVIOUS
<1>1. IsFiniteSet(HasSlot) /\ Cardinality(HasSlot) <= 1
  BY Counted DEF Accounted
<1>2. IsFiniteSet({c}) /\ Cardinality({c}) = 1
  BY FS_Singleton
<1>3. Cardinality({c} \cup {d}) = 2
  BY <1>2, FS_AddElement
<1>4. Cardinality({c} \cup {d}) <= Cardinality(HasSlot)
  BY <1>1, FS_Subset
<1>5. Cardinality(HasSlot) \in Nat
  BY Counted
<1> QED
  BY <1>1, <1>3, <1>4, <1>5

\* A call that is not between its two writes, nor about to be, says nothing of them.
LEMMA Aside ==
  ASSUME Followed, NEW c \in Calls,
         \A d \in Calls \ {c} : call'[d] = call[d],
         call[c].pc # "written", call'[c].pc \notin Followers,
         UNCHANGED <<limit, text, vectors, shape, torn>>
  PROVE  Followed'
<1>1. \A d \in Calls : call'[d].pc \in Followers => d # c /\ call'[d] = call[d]
  OBVIOUS
<1>2. \A d \in Calls : call[d].pc = "written" => call'[d] = call[d]
  OBVIOUS
<1>3. /\ text' \in [Ids -> Texts] /\ vectors' \in [Ids -> Calls \cup {None}]
      /\ \A d \in Calls : call'[d].pc \in {"checked", "writing", "written"} =>
           /\ call'[d].batch \in Batches
           /\ call'[d].batch.op = "delete" => call'[d].batch.shape = None
  BY <1>1 DEF Followed, Followers
<1>4. ASSUME limit' = 1
      PROVE  /\ \A d \in Calls : call'[d].pc \in {"writing", "written"} => Fits(call[d].batch)
             /\ \A d \in Calls : call'[d].pc = "written" =>
                  text[call'[d].batch.id] = TextOf(d, call'[d].batch)
             /\ \A i \in Ids \ torn :
                  Follows(i) \/ \E d \in Calls : call'[d].pc = "written" /\ call'[d].batch.id = i
  BY <1>1, <1>2, <1>4 DEF Followed, Followers
<1> QED
  BY <1>1, <1>3, <1>4 DEF Followed, Fits, Follows, Followers

\* At the start no document has a text or a vector.
LEMMA EmptyFollowed == FrontInit => Followed
  BY DEF FrontInit, Followed, Follows, Texts

\* A batch is built, or the call unwinds.
LEMMA BuiltFollowed ==
  ASSUME Accounted, Followed, NEW c \in Calls, NEW batch \in Batches, BuildBatch(c, batch)
  PROVE  Followed'
<1>1. /\ call[c].pc = "building" /\ UNCHANGED <<limit, text, vectors, shape, torn>>
      /\ batch.op = "delete" => batch.shape = None
  BY DEF BuildBatch, stores
<1>2. CASE call' = [call EXCEPT ![c] = [pc |-> "checked", batch |-> batch]]
  <2>1. /\ call'[c] = [pc |-> "checked", batch |-> batch]
        /\ \A d \in Calls \ {c} : call'[d] = call[d]
    BY <1>2 DEF Accounted, CallsTyped
  <2>2. /\ text' \in [Ids -> Texts] /\ vectors' \in [Ids -> Calls \cup {None}]
        /\ \A d \in Calls : call'[d].pc \in {"checked", "writing", "written"} =>
             /\ call'[d].batch \in Batches
             /\ call'[d].batch.op = "delete" => call'[d].batch.shape = None
    BY <1>1, <2>1 DEF Followed
  <2>3. \A d \in Calls : \/ call'[d].pc \in {"writing", "written"}
                         \/ call[d].pc = "written" => call'[d] = call[d]
    BY <1>1, <2>1
  <2>4. ASSUME limit' = 1
        PROVE  /\ \A d \in Calls : call'[d].pc \in {"writing", "written"} => Fits(call'[d].batch)
               /\ \A d \in Calls : call'[d].pc = "written" =>
                    text[call'[d].batch.id] = TextOf(d, call'[d].batch)
               /\ \A i \in Ids \ torn :
                    Follows(i) \/ \E d \in Calls : call'[d].pc = "written" /\ call'[d].batch.id = i
    BY <1>1, <2>1, <2>4 DEF Followed
  <2> QED
    BY <1>1, <2>2, <2>4 DEF Followed, Fits, Follows
<1>3. CASE Go(c, "unwinding")
  <2>1. call'[c].pc = "unwinding" /\ \A d \in Calls \ {c} : call'[d] = call[d]
    BY <1>3, Moved DEF Go, Pcs, InsidePcs, Accounted
  <2> QED
    BY <1>1, <2>1, Aside DEF Followers
<1> QED
  BY <1>2, <1>3 DEF BuildBatch

\* Only a batch that fits goes on to the text index.
LEMMA ValidatedFollowed ==
  ASSUME Accounted, Followed, NEW c \in Calls, ValidateVectors(c)
  PROVE  Followed'
<1>1. call[c].pc = "checked" /\ UNCHANGED <<limit, text, vectors, shape, torn>>
  BY DEF ValidateVectors, stores
<1>2. CASE Fits(call[c].batch) /\ Go(c, "writing")
  <2>1. /\ call'[c].pc = "writing" /\ call'[c].batch = call[c].batch
        /\ \A d \in Calls \ {c} : call'[d] = call[d]
    BY <1>2 DEF Go, Accounted, CallsTyped
  <2>2. /\ text' \in [Ids -> Texts] /\ vectors' \in [Ids -> Calls \cup {None}]
        /\ \A d \in Calls : call'[d].pc \in {"checked", "writing", "written"} =>
             /\ call'[d].batch \in Batches
             /\ call'[d].batch.op = "delete" => call'[d].batch.shape = None
    BY <1>1, <2>1 DEF Followed
  <2>3. ASSUME limit' = 1
        PROVE  /\ \A d \in Calls : call'[d].pc \in {"writing", "written"} => Fits(call'[d].batch)
               /\ \A d \in Calls : call'[d].pc = "written" =>
                    text[call'[d].batch.id] = TextOf(d, call'[d].batch)
               /\ \A i \in Ids \ torn :
                    Follows(i) \/ \E d \in Calls : call'[d].pc = "written" /\ call'[d].batch.id = i
    BY <1>1, <1>2, <2>1, <2>3 DEF Followed
  <2> QED
    BY <1>1, <2>2, <2>3 DEF Followed, Fits, Follows
<1>3. CASE Go(c, "unwinding")
  <2>1. call'[c].pc = "unwinding" /\ \A d \in Calls \ {c} : call'[d] = call[d]
    BY <1>3, Moved DEF Go, Pcs, InsidePcs, Accounted
  <2> QED
    BY <1>1, <2>1, Aside DEF Followers
<1> QED
  BY <1>2, <1>3 DEF ValidateVectors

\* The text is written: its document waits for its vector, the others do not change.
LEMMA WrittenFollowed ==
  ASSUME Accounted, Followed, NEW c \in Calls, WriteText(c)
  PROVE  Followed'
<1> DEFINE b == call[c].batch
<1>1. /\ call[c].pc = "writing" /\ UNCHANGED <<limit, vectors, shape>>
      /\ b \in Batches
  BY DEF WriteText, RefuseText, Followed
<1>2. b.id \in Ids /\ TextOf(c, b) \in Texts
  BY <1>1 DEF Batches, Texts, TextOf
<1>3. \A d \in Calls : limit = 1 /\ call[d].pc = "written" => FALSE
  <2> SUFFICES ASSUME NEW d \in Calls, limit = 1, call[d].pc = "written" PROVE FALSE
    OBVIOUS
  <2>1. c \in HasSlot /\ d \in HasSlot
    BY <1>1 DEF HasSlot, Waits
  <2> QED
    BY <1>1, <2>1, Alone
<1>4. CASE text' = [text EXCEPT ![b.id] = TextOf(c, b)] /\ Go(c, "written") /\ UNCHANGED torn
  <2>1. /\ call'[c].pc = "written" /\ call'[c].batch = b
        /\ \A d \in Calls \ {c} : call'[d] = call[d]
    BY <1>4 DEF Go, Accounted, CallsTyped
  <2>2. /\ text' \in [Ids -> Texts] /\ vectors' \in [Ids -> Calls \cup {None}]
        /\ text'[b.id] = TextOf(c, b) /\ \A i \in Ids \ {b.id} : text'[i] = text[i]
    BY <1>1, <1>2, <1>4 DEF Followed
  <2>3. \A d \in Calls : call'[d].pc \in {"checked", "writing", "written"} =>
           /\ call'[d].batch \in Batches
           /\ call'[d].batch.op = "delete" => call'[d].batch.shape = None
    BY <1>1, <2>1 DEF Followed
  <2>4. ASSUME limit' = 1
        PROVE  /\ \A d \in Calls : call'[d].pc \in {"writing", "written"} => Fits(call'[d].batch)
               /\ \A d \in Calls : call'[d].pc = "written" =>
                    text'[call'[d].batch.id] = TextOf(d, call'[d].batch)
    BY <1>1, <1>3, <2>1, <2>2, <2>4 DEF Followed
  <2>5. ASSUME limit' = 1, NEW i \in Ids \ torn, i # b.id
        PROVE  vectors'[i] = IF text'[i].shape = None THEN None ELSE text'[i].by
    BY <1>1, <1>3, <2>2, <2>5 DEF Followed, Follows
  <2> QED
    BY <1>1, <1>4, <2>1, <2>2, <2>3, <2>4, <2>5 DEF Followed, Fits, Follows
<1>5. CASE text' = [text EXCEPT ![b.id] = TextOf(c, b)] /\ Go(c, "unwinding")
           /\ torn' = torn \cup {b.id}
  <2>1. /\ call'[c].pc = "unwinding" /\ \A d \in Calls \ {c} : call'[d] = call[d]
    BY <1>5 DEF Go, Accounted, CallsTyped
  <2>2. /\ text' \in [Ids -> Texts] /\ vectors' \in [Ids -> Calls \cup {None}]
        /\ \A i \in Ids \ {b.id} : text'[i] = text[i]
    BY <1>1, <1>2, <1>5 DEF Followed
  <2>3. \A d \in Calls : call'[d].pc \in {"checked", "writing", "written"} =>
           /\ call'[d].batch \in Batches
           /\ call'[d].batch.op = "delete" => call'[d].batch.shape = None
    BY <2>1 DEF Followed
  <2>4. ASSUME limit' = 1
        PROVE  /\ \A d \in Calls : call'[d].pc \in {"writing", "written"} => Fits(call'[d].batch)
               /\ \A d \in Calls : call'[d].pc = "written" =>
                    text'[call'[d].batch.id] = TextOf(d, call'[d].batch)
    BY <1>1, <1>3, <2>1, <2>4 DEF Followed
  <2>5. ASSUME limit' = 1, NEW i \in Ids \ torn'
        PROVE  vectors'[i] = IF text'[i].shape = None THEN None ELSE text'[i].by
    BY <1>1, <1>3, <1>5, <2>2, <2>5 DEF Followed, Follows
  <2> QED
    BY <1>1, <2>1, <2>2, <2>3, <2>4, <2>5 DEF Followed, Fits, Follows
<1>6. CASE Go(c, "unwinding") /\ UNCHANGED <<text, torn>>
  <2>1. call'[c].pc = "unwinding" /\ \A d \in Calls \ {c} : call'[d] = call[d]
    BY <1>6, Moved DEF Go, Pcs, InsidePcs, Accounted
  <2> QED
    BY <1>1, <1>6, <2>1, Aside DEF Followers
<1> QED
  BY <1>4, <1>5, <1>6 DEF WriteText, RefuseText, TextOf

\* The vector follows, or the document is known to be torn; a batch that was written
\* still fits.
LEMMA AppliedFollowed ==
  ASSUME Accounted, Followed, NEW c \in Calls, ApplyVectors(c)
  PROVE  Followed'
<1> DEFINE b == call[c].batch
<1>1. /\ call[c].pc = "written" /\ UNCHANGED <<limit, text>>
      /\ b \in Batches /\ (b.op = "delete" => b.shape = None)
      /\ b.id \in Ids
  BY DEF ApplyVectors, Followed, Batches
<1>2. \A d \in Calls \ {c} : limit = 1 => call[d].pc \notin {"writing", "written"}
  <2> SUFFICES ASSUME NEW d \in Calls \ {c}, limit = 1, call[d].pc \in {"writing", "written"}
               PROVE  FALSE
    OBVIOUS
  <2>1. c \in HasSlot /\ d \in HasSlot
    BY <1>1 DEF HasSlot, Waits
  <2> QED
    BY <2>1, Alone
<1>3. PICK pc \in {"done", "unwinding"} : call' = [call EXCEPT ![c].pc = pc]
  BY DEF ApplyVectors, Go
<1>4. /\ call'[c].pc = pc /\ \A d \in Calls \ {c} : call'[d] = call[d]
  BY <1>3, Moved DEF Pcs, InsidePcs, Accounted
<1>5. \A d \in Calls : call'[d].pc \in {"checked", "writing", "written"} =>
        /\ call'[d].batch \in Batches
        /\ call'[d].batch.op = "delete" => call'[d].batch.shape = None
  BY <1>4 DEF Followed
<1>6. \A d \in Calls : limit = 1 => call'[d].pc \notin {"writing", "written"}
  BY <1>2, <1>4
<1>7. limit = 1 => text[b.id] = TextOf(c, b) /\ Fits(b) /\ \A i \in Ids \ torn : i # b.id => Follows(i)
  BY <1>1, <1>2 DEF Followed
<1>8. /\ vectors' \in [Ids -> Calls \cup {None}]
      /\ \A i \in Ids \ {b.id} : vectors'[i] = vectors[i]
  BY <1>1 DEF ApplyVectors, Followed, Change
<1>9. torn' = torn \cup {b.id} \/ torn' = torn
  BY DEF ApplyVectors
<1>10. limit = 1 => torn' = torn \cup {b.id} \/ vectors'[b.id] = Change(c, b)
  BY <1>1, <1>7 DEF ApplyVectors, Followed
<1>11. ASSUME limit = 1, NEW i \in Ids \ torn'
       PROVE  vectors'[i] = IF text[i].shape = None THEN None ELSE text[i].by
  <2>1. CASE i # b.id
    BY <1>7, <1>8, <1>9, <1>11, <2>1 DEF Follows
  <2>2. CASE i = b.id
    <3>1. vectors'[i] = Change(c, b) /\ text[i] = TextOf(c, b)
      BY <1>7, <1>10, <1>11, <2>2
    <3>2. b.op \in {"update", "delete"}
      BY <1>1 DEF Batches
    <3> QED
      BY <1>1, <3>1, <3>2 DEF Change, TextOf
  <2> QED
    BY <2>1, <2>2
<1>12. text' \in [Ids -> Texts]
  BY <1>1 DEF Followed
<1> QED
  BY <1>1, <1>5, <1>6, <1>8, <1>11, <1>12 DEF Followed, Fits, Follows

\* Every other step leaves both indexes alone and happens outside the two writes.
LEMMA InductiveFollowed ==
  Accounted /\ Followed /\ [FrontNext]_frontVars => Followed'
<1> SUFFICES ASSUME Accounted, Followed, [FrontNext]_frontVars PROVE Followed'
  OBVIOUS
<1>1. ASSUME NEW c \in Calls, Enter(c) \/ AcquireBatch(c) \/ AdmitBatch(c) PROVE Followed'
  <2>1. /\ call[c].pc # "written" /\ UNCHANGED <<limit, text, vectors, shape, torn>>
        /\ \E pc \in {"waiting", "admitted", "failed", "building"} :
             call' = [call EXCEPT ![c].pc = pc]
    BY <1>1 DEF Enter, AcquireBatch, AdmitBatch, Go, stores
  <2>2. PICK pc \in {"waiting", "admitted", "failed", "building"} :
          call' = [call EXCEPT ![c].pc = pc]
    BY <2>1
  <2>3. call'[c].pc = pc /\ \A d \in Calls \ {c} : call'[d] = call[d]
    BY <2>2, Moved DEF Pcs, Waits, InsidePcs, Accounted
  <2> QED
    BY <2>1, <2>3, Aside DEF Followers
<1>2. ASSUME NEW c \in Calls, ReleaseBatch(c) \/ FreeSlot(c) PROVE Followed'
  <2>1. /\ call[c].pc # "written" /\ UNCHANGED <<limit, text, vectors, shape, torn>>
        /\ \E pc \in {"releasing", "dropping", "ok", "failed"} :
             call' = [call EXCEPT ![c].pc = pc]
    BY <1>2 DEF ReleaseBatch, FreeSlot, stores, Accounted, CallsTyped
  <2>2. PICK pc \in {"releasing", "dropping", "ok", "failed"} :
          call' = [call EXCEPT ![c].pc = pc]
    BY <2>1
  <2>3. call'[c].pc = pc /\ \A d \in Calls \ {c} : call'[d] = call[d]
    BY <2>2, Moved DEF Pcs, Waits, Accounted
  <2> QED
    BY <2>1, <2>3, Aside DEF Followers
<1>3. ASSUME NEW c \in Calls, Cancel(c) \/ ReturnBytes(c) PROVE Followed'
  BY <1>3 DEF Cancel, ReturnBytes, stores, Followed, Fits, Follows
<1>4. ASSUME NEW c \in Calls, NEW batch \in Batches, BuildBatch(c, batch) PROVE Followed'
  BY <1>4, BuiltFollowed
<1>5. ASSUME NEW c \in Calls, ValidateVectors(c) PROVE Followed'
  BY <1>5, ValidatedFollowed
<1>6. ASSUME NEW c \in Calls, WriteText(c) PROVE Followed'
  BY <1>6, WrittenFollowed
<1>7. ASSUME NEW c \in Calls, ApplyVectors(c) PROVE Followed'
  BY <1>7, AppliedFollowed
<1>8. CASE CloseSignal \/ CloseText \/ CloseVectors
  BY <1>8 DEF CloseSignal, CloseText, CloseVectors, stores, Followed, Fits, Follows
<1>9. CASE UNCHANGED frontVars
  BY <1>9 DEF frontVars, stores, Followed, Fits, Follows
<1> QED
  BY <1>1, <1>2, <1>3, <1>4, <1>5, <1>6, <1>7, <1>8, <1>9 DEF FrontNext

\* One batch at a time, writer.go's order (validateVectorChanges, the text's Batch,
\* applyVectorChanges) leaves every document with the vector of its live text, unless a
\* write failed under it or Close came between.
THEOREM VectorsAreFollowed == FrontSpec => []VectorsFollowText
<1>1. Followed => VectorsFollowText
  <2> SUFFICES ASSUME Followed, limit = 1, HasSlot = {}, NEW i \in Ids \ torn
               PROVE  vectors[i] = IF text[i].shape = None THEN None ELSE text[i].by
    BY DEF VectorsFollowText
  <2>1. \A c \in Calls : call[c].pc # "written"
    BY DEF HasSlot, Waits
  <2> QED
    BY <2>1 DEF Followed, Follows
<1>2. FrontInit => Accounted /\ Followed
  BY Initially, EmptyFollowed
<1>3. Accounted /\ Followed /\ [FrontNext]_frontVars => Accounted' /\ Followed'
  BY Inductive, InductiveFollowed
<1> QED
  BY <1>1, <1>2, <1>3, PTL DEF FrontSpec

-----------------------------------------------------------------------------
(* The vector sidecar: what a batch comes to, operation by operation *)

IndexStates == {NoIndex} \cup [Keys -> Nat]
AbsorbStates ==
  [next : Nat, ids : [VectorIds -> Nat], indices : [VectorFields -> IndexStates],
   removals : [VectorFields -> SUBSET Nat], additions : [VectorFields -> [Keys -> Nat]]]
TruthStates == [VectorFields -> [VectorIds -> Nat]]
Absorbable  == [id : VectorIds, fields : SUBSET VectorFields, vector : Nat]

\* A set of numbers has a least one.
LEMMA LeastOf ==
  ASSUME NEW S \in SUBSET Nat, S # {}
  PROVE  \E n \in S : \A i \in S : n <= i
<1> DEFINE R == {ss \in Nat \X Nat : ss[1] < ss[2]}
<1>1. IsWellFoundedOn(R, Nat)
  BY NatLessThanWellFounded DEF OpToRel
<1>2. \A i, n \in Nat : i < n => <<i, n>> \in R
  OBVIOUS
<1> HIDE DEF R
<1>3. PICK n \in S : \A i \in S : <<i, n>> \notin R
  BY <1>1, WFMin
<1>4. \A i \in S : i \in Nat /\ ~(i < n)
  BY <1>2, <1>3
<1>5. \A i \in S : n <= i
  BY <1>4
<1> QED
  BY <1>5

\* What holds at zero and is kept from each number to the next holds up to the last.
LEMMA OneByOne ==
  ASSUME NEW N \in Nat, NEW G, 0 \in G, \A k \in 1 .. N : k - 1 \in G => k \in G
  PROVE  \A k \in 0 .. N : k \in G
<1> DEFINE bad == {k \in 0 .. N : k \notin G}
<1> SUFFICES ASSUME bad # {} PROVE FALSE
  OBVIOUS
<1>1. bad \in SUBSET Nat
  OBVIOUS
<1>2. PICK k \in bad : \A i \in bad : k <= i
  BY <1>1, LeastOf
<1>3. k \in 1 .. N /\ k \notin G
  BY <1>2
<1>4. k - 1 \in 0 .. N /\ ~(k <= k - 1)
  BY <1>3
<1>5. k - 1 \in G
  BY <1>2, <1>4
<1> QED
  BY <1>3, <1>5

\* There is a function that is defined step by step.
Steps(g, n, base, step) == g[0] = base /\ \A k \in 1 .. n : g[k] = step[<<g[k - 1], k>>]

\* Any such steps define one.
LEMMA StepByStep ==
  ASSUME NEW N \in Nat, NEW P, NEW base \in P, NEW step \in [P \X (1 .. N) -> P]
  PROVE  \E g \in [0 .. N -> P] : Steps(g, N, base, step)
<1> DEFINE G == {n \in 0 .. N : \E g \in [0 .. n -> P] : Steps(g, n, base, step)}
<1>1. 0 \in G
  <2>1. PICK g : g = [k \in 0 .. 0 |-> base]
    OBVIOUS
  <2>2. g \in [0 .. 0 -> P] /\ Steps(g, 0, base, step)
    BY <2>1 DEF Steps
  <2> QED
    BY <2>2
<1>2. ASSUME NEW n \in 1 .. N, n - 1 \in G
      PROVE  n \in G
  <2>1. PICK g \in [0 .. n - 1 -> P] : Steps(g, n - 1, base, step)
    BY <1>2
  <2>2. PICK h : h = [k \in 0 .. n |-> IF k = n THEN step[<<g[n - 1], n>>] ELSE g[k]]
    OBVIOUS
  <2>3. step[<<g[n - 1], n>>] \in P
    OBVIOUS
  <2>4. \A k \in 0 .. n : k # n => k \in 0 .. n - 1
    OBVIOUS
  <2>5. h \in [0 .. n -> P]
    BY <2>2, <2>3, <2>4
  <2>6. \A k \in 1 .. n : k \in 0 .. n /\ k - 1 \in 0 .. n /\ k - 1 # n
    OBVIOUS
  <2>7. h[0] = base
    BY <2>1, <2>2 DEF Steps
  <2>8. ASSUME NEW k \in 1 .. n PROVE h[k] = step[<<h[k - 1], k>>]
    <3>1. h[k - 1] = g[k - 1]
      BY <2>2, <2>6
    <3>2. CASE k = n
      BY <2>2, <2>6, <3>1, <3>2
    <3>3. CASE k # n
      <4>1. k \in 1 .. n - 1 /\ k \in 0 .. n
        BY <3>3
      <4>2. g[k] = step[<<g[k - 1], k>>]
        BY <2>1, <4>1 DEF Steps
      <4> QED
        BY <2>2, <3>1, <3>3, <4>1, <4>2
    <3> QED
      BY <3>2, <3>3
  <2> QED
    BY <2>5, <2>7, <2>8 DEF Steps
<1> HIDE DEF G
<1>3. N \in G
  BY <1>1, <1>2, OneByOne
<1> QED
  BY <1>3 DEF G

\* The key that an operation uses, and the fields from which it takes the id's vectors.
KeyFor(so, op)   == IF so.ids[op.id] # 0 THEN so.ids[op.id] ELSE so.next
Emptied(so, op)  == {f \in VectorFields : so.ids[op.id] # 0 /\ so.indices[f] # NoIndex}
NoEffect(so, op) == so.ids[op.id] = 0 /\ op.fields = {}

\* One operation, field by field and key by key.
FieldByField(so, op, new) ==
  /\ new.next = IF so.ids[op.id] # 0 THEN so.next ELSE so.next + 1
  /\ \A id \in VectorIds : new.ids[id] = IF id = op.id THEN KeyFor(so, op) ELSE so.ids[id]
  /\ \A f \in VectorFields :
       /\ new.indices[f] = IF f \in op.fields /\ so.indices[f] = NoIndex THEN NewIndex ELSE so.indices[f]
       /\ new.removals[f] =
            so.removals[f] \cup IF f \in Emptied(so, op) \cup op.fields THEN {KeyFor(so, op)} ELSE {}
       /\ \A k \in Keys : new.additions[f][k] =
            IF k # KeyFor(so, op) THEN so.additions[f][k]
            ELSE IF f \in op.fields THEN op.vector
            ELSE IF f \in Emptied(so, op) THEN 0 ELSE so.additions[f][k]

\* An operation has no effect, or the one that FieldByField says.
LEMMA AbsorbedIs ==
  ASSUME NEW so \in AbsorbStates, NEW op \in Absorbable
  PROVE  /\ Absorbed(so, op) \in AbsorbStates
         /\ NoEffect(so, op) => Absorbed(so, op) = so
         /\ ~NoEffect(so, op) => FieldByField(so, op, Absorbed(so, op))
<1> DEFINE key == KeyFor(so, op)
           del == Emptied(so, op)
<1>1. /\ so.next \in Nat /\ so.ids \in [VectorIds -> Nat] /\ so.indices \in [VectorFields -> IndexStates]
      /\ so.removals \in [VectorFields -> SUBSET Nat] /\ so.additions \in [VectorFields -> [Keys -> Nat]]
  BY DEF AbsorbStates
<1>2. op.id \in VectorIds /\ op.fields \in SUBSET VectorFields /\ op.vector \in Nat
  BY DEF Absorbable
<1>3. key \in Nat
  BY <1>1, <1>2 DEF KeyFor
<1>4. CASE NoEffect(so, op)
  <2>1. Absorbed(so, op) = so
    BY <1>4 DEF NoEffect, Absorbed
  <2> QED
    BY <2>1, <1>4
<1>5. CASE ~NoEffect(so, op)
  <2> DEFINE nx  == IF so.ids[op.id] # 0 THEN so.next ELSE key + 1
             ids == [so.ids EXCEPT ![op.id] = key]
             ind == [f \in VectorFields |->
                       IF f \in op.fields /\ so.indices[f] = NoIndex THEN NewIndex ELSE so.indices[f]]
             rem == [f \in VectorFields |-> so.removals[f] \cup IF f \in del \cup op.fields THEN {key} ELSE {}]
             add == Added(so.additions, key, op, del)
             new == Absorbed(so, op)
  <2>1. new = [next |-> nx, ids |-> ids, indices |-> ind, removals |-> rem, additions |-> add]
    BY <1>5 DEF NoEffect, Absorbed, KeyFor, Emptied
  <2>2. nx = IF so.ids[op.id] # 0 THEN so.next ELSE so.next + 1
    BY DEF KeyFor
  <2>3. nx \in Nat
    BY <1>1, <2>2
  <2>4. ids \in [VectorIds -> Nat] /\ \A id \in VectorIds : ids[id] = IF id = op.id THEN key ELSE so.ids[id]
    BY <1>1, <1>2, <1>3
  <2>5. ind \in [VectorFields -> IndexStates]
    <3>1. NewIndex \in IndexStates
      BY DEF NewIndex, IndexStates
    <3> QED
      BY <1>1, <3>1
  <2>6. rem \in [VectorFields -> SUBSET Nat]
    BY <1>1, <1>3
  <2>7. \A f \in VectorFields :
          /\ add[f] \in [Keys -> Nat]
          /\ \A k \in Keys : add[f][k] =
                IF k # key THEN so.additions[f][k]
                ELSE IF f \in op.fields THEN op.vector
                ELSE IF f \in del THEN 0 ELSE so.additions[f][k]
    <3> TAKE f \in VectorFields
    <3>1. so.additions[f] \in [Keys -> Nat]
      BY <1>1
    <3>2. PICK v : v = IF f \in op.fields THEN op.vector ELSE IF f \in del THEN 0 ELSE so.additions[f][key]
      OBVIOUS
    <3>3. add[f] = [so.additions[f] EXCEPT ![key] = v]
      BY <3>2 DEF Added
    <3>4. key \in Keys => v \in Nat
      BY <1>2, <3>1, <3>2
    <3> HIDE DEF key, del, add
    <3>5. add[f] \in [Keys -> Nat]
      BY <3>1, <3>3, <3>4
    <3>6. \A k \in Keys : add[f][k] = IF k # key THEN so.additions[f][k] ELSE v
      BY <3>1, <3>3
    <3> QED
      BY <3>2, <3>5, <3>6
  <2>8. add \in [VectorFields -> [Keys -> Nat]]
    <3>1. add = [f \in VectorFields |-> add[f]]
      BY DEF Added
    <3> HIDE DEF add
    <3> QED
      BY <2>7, <3>1
  <2>9. \A f \in VectorFields :
          /\ ind[f] = IF f \in op.fields /\ so.indices[f] = NoIndex THEN NewIndex ELSE so.indices[f]
          /\ rem[f] = so.removals[f] \cup IF f \in del \cup op.fields THEN {key} ELSE {}
    OBVIOUS
  <2> HIDE DEF nx, ids, ind, rem, add, new
  <2>10. new \in AbsorbStates
    BY <2>1, <2>3, <2>4, <2>5, <2>6, <2>8 DEF AbsorbStates
  <2>11. /\ new.next = nx /\ new.ids = ids /\ new.indices = ind /\ new.removals = rem /\ new.additions = add
    BY <2>1
  <2>12. FieldByField(so, op, new)
    <3>1. new.next = IF so.ids[op.id] # 0 THEN so.next ELSE so.next + 1
      BY <2>2, <2>11
    <3>2. \A id \in VectorIds : new.ids[id] = IF id = op.id THEN KeyFor(so, op) ELSE so.ids[id]
      BY <2>4, <2>11
    <3> QED
      BY <3>1, <3>2, <2>7, <2>9, <2>11 DEF FieldByField
  <2> QED
    BY <1>5, <2>10, <2>12 DEF new
<1> QED
  BY <1>4, <1>5

\* The operations of a batch one after the other.
LEMMA AbsorbingIs ==
  ASSUME NEW ops \in Seq(Absorbable), Start \in AbsorbStates
  PROVE  /\ Absorbing(ops)[0] = Start
         /\ \A k \in 1 .. Len(ops) : Absorbing(ops)[k] = Absorbed(Absorbing(ops)[k - 1], ops[k])
         /\ \A k \in 0 .. Len(ops) : Absorbing(ops)[k] \in AbsorbStates
<1> DEFINE N       == Len(ops)
           next(t) == [k \in 0 .. Len(ops) |-> IF k = 0 THEN Start ELSE Absorbed(t[k - 1], ops[k])]
           step    == [x \in AbsorbStates \X (1 .. N) |-> Absorbed(x[1], ops[x[2]])]
           so      == CHOOSE t : t = next(t)
<1>1. Absorbing(ops) = so
  BY DEF Absorbing
<1>2. N \in Nat /\ \A k \in 1 .. N : ops[k] \in Absorbable
  OBVIOUS
<1>3. step \in [AbsorbStates \X (1 .. N) -> AbsorbStates]
  <2> SUFFICES ASSUME NEW s \in AbsorbStates, NEW k \in 1 .. N PROVE Absorbed(s, ops[k]) \in AbsorbStates
    OBVIOUS
  <2> QED
    BY <1>2, AbsorbedIs
<1>4. \A s \in AbsorbStates, k \in 1 .. N : step[<<s, k>>] = Absorbed(s, ops[k])
  OBVIOUS
<1>n. \A k \in 1 .. N : k \in 0 .. N /\ k - 1 \in 0 .. N /\ k # 0
  BY <1>2
<1>m. \A k \in 0 .. N : k # 0 => k \in 1 .. N
  BY <1>2
<1> HIDE DEF step
<1>5. PICK g \in [0 .. N -> AbsorbStates] : Steps(g, N, Start, step)
  <2> HIDE DEF N
  <2> QED
    BY <1>2, <1>3, StepByStep
<1>6. g[0] = Start /\ \A k \in 1 .. N : g[k] = Absorbed(g[k - 1], ops[k])
  <2>1. \A k \in 1 .. N : g[k - 1] \in AbsorbStates
    BY <1>5, <1>n
  <2> HIDE DEF N
  <2> QED
    BY <1>4, <1>5, <2>1 DEF Steps
<1>7. g = next(g)
  <2>1. \A k \in 0 .. N : g[k] = IF k = 0 THEN Start ELSE Absorbed(g[k - 1], ops[k])
    BY <1>6, <1>m
  <2>2. g = [k \in 0 .. N |-> g[k]]
    OBVIOUS
  <2> QED
    BY <2>1, <2>2
<1>8. so = next(so)
  BY <1>7
<1> HIDE DEF so
<1>9. /\ so[0] = Start
      /\ \A k \in 1 .. N : so[k] = Absorbed(so[k - 1], ops[k])
  <2>1. \A k \in 0 .. N : so[k] = IF k = 0 THEN Start ELSE Absorbed(so[k - 1], ops[k])
    BY <1>8
  <2> QED
    BY <2>1, <1>n, <1>2
<1>10. \A k \in 0 .. N : so[k] \in AbsorbStates
  <2> DEFINE G == {k \in 0 .. N : so[k] \in AbsorbStates}
  <2>1. 0 \in G
    BY <1>9, <1>2
  <2>2. ASSUME NEW k \in 1 .. N, k - 1 \in G PROVE k \in G
    <3>1. so[k] = Absorbed(so[k - 1], ops[k]) /\ so[k - 1] \in AbsorbStates
      BY <1>9, <2>2
    <3> QED
      BY <1>2, <1>n, <3>1, AbsorbedIs
  <2> HIDE DEF G, N
  <2>3. \A k \in 0 .. N : k \in G
    BY <1>2, <2>1, <2>2, OneByOne
  <2> QED
    BY <2>3 DEF G
<1> QED
  BY <1>1, <1>9, <1>10

\* An operation gives its id the vector in its fields and takes it in all others.
LEMMA ToldIs ==
  ASSUME NEW so \in TruthStates, NEW op \in Absorbable
  PROVE  /\ Told(so, op) \in TruthStates
         /\ \A f \in VectorFields, id \in VectorIds :
              Told(so, op)[f][id] = IF id # op.id THEN so[f][id] ELSE IF f \in op.fields THEN op.vector ELSE 0
<1>1. op.id \in VectorIds /\ op.fields \in SUBSET VectorFields /\ op.vector \in Nat
  BY DEF Absorbable
<1>2. \A f \in VectorFields :
        /\ Told(so, op)[f] \in [VectorIds -> Nat]
        /\ \A id \in VectorIds :
             Told(so, op)[f][id] = IF id # op.id THEN so[f][id] ELSE IF f \in op.fields THEN op.vector ELSE 0
  <2> TAKE f \in VectorFields
  <2>1. so[f] \in [VectorIds -> Nat]
    BY DEF TruthStates
  <2>2. Told(so, op)[f] = [so[f] EXCEPT ![op.id] = IF f \in op.fields THEN op.vector ELSE 0]
    BY DEF Told
  <2> QED
    BY <1>1, <2>1, <2>2
<1>3. Told(so, op) = [f \in VectorFields |-> Told(so, op)[f]]
  BY DEF Told
<1> QED
  BY <1>2, <1>3 DEF TruthStates

\* What the ids have after each of the operations.
LEMMA TellingIs ==
  ASSUME NEW ops \in Seq(Absorbable), truth \in TruthStates
  PROVE  /\ Telling(ops)[0] = truth
         /\ \A k \in 1 .. Len(ops) : Telling(ops)[k] = Told(Telling(ops)[k - 1], ops[k])
         /\ \A k \in 0 .. Len(ops) : Telling(ops)[k] \in TruthStates
<1> DEFINE N       == Len(ops)
           next(t) == [k \in 0 .. Len(ops) |-> IF k = 0 THEN truth ELSE Told(t[k - 1], ops[k])]
           step    == [x \in TruthStates \X (1 .. N) |-> Told(x[1], ops[x[2]])]
           so      == CHOOSE t : t = next(t)
<1>1. Telling(ops) = so
  BY DEF Telling
<1>2. N \in Nat /\ \A k \in 1 .. N : ops[k] \in Absorbable
  OBVIOUS
<1>3. step \in [TruthStates \X (1 .. N) -> TruthStates]
  <2> SUFFICES ASSUME NEW s \in TruthStates, NEW k \in 1 .. N PROVE Told(s, ops[k]) \in TruthStates
    OBVIOUS
  <2> QED
    BY <1>2, ToldIs
<1>4. \A s \in TruthStates, k \in 1 .. N : step[<<s, k>>] = Told(s, ops[k])
  OBVIOUS
<1>n. \A k \in 1 .. N : k \in 0 .. N /\ k - 1 \in 0 .. N /\ k # 0
  BY <1>2
<1>m. \A k \in 0 .. N : k # 0 => k \in 1 .. N
  BY <1>2
<1> HIDE DEF step
<1>5. PICK g \in [0 .. N -> TruthStates] : Steps(g, N, truth, step)
  <2> HIDE DEF N
  <2> QED
    BY <1>2, <1>3, StepByStep
<1>6. g[0] = truth /\ \A k \in 1 .. N : g[k] = Told(g[k - 1], ops[k])
  <2>1. \A k \in 1 .. N : g[k - 1] \in TruthStates
    BY <1>5, <1>n
  <2> HIDE DEF N
  <2> QED
    BY <1>4, <1>5, <2>1 DEF Steps
<1>7. g = next(g)
  <2>1. \A k \in 0 .. N : g[k] = IF k = 0 THEN truth ELSE Told(g[k - 1], ops[k])
    BY <1>6, <1>m
  <2>2. g = [k \in 0 .. N |-> g[k]]
    OBVIOUS
  <2> QED
    BY <2>1, <2>2
<1>8. so = next(so)
  BY <1>7
<1> HIDE DEF so
<1>9. /\ so[0] = truth
      /\ \A k \in 1 .. N : so[k] = Told(so[k - 1], ops[k])
  <2>1. \A k \in 0 .. N : so[k] = IF k = 0 THEN truth ELSE Told(so[k - 1], ops[k])
    BY <1>8
  <2> QED
    BY <2>1, <1>n, <1>2
<1>10. \A k \in 0 .. N : so[k] \in TruthStates
  <2> DEFINE G == {k \in 0 .. N : so[k] \in TruthStates}
  <2>1. 0 \in G
    BY <1>9, <1>2
  <2>2. ASSUME NEW k \in 1 .. N, k - 1 \in G PROVE k \in G
    <3>1. so[k] = Told(so[k - 1], ops[k]) /\ so[k - 1] \in TruthStates
      BY <1>9, <2>2
    <3> QED
      BY <1>2, <1>n, <3>1, ToldIs
  <2> HIDE DEF G, N
  <2>3. \A k \in 0 .. N : k \in G
    BY <1>2, <2>1, <2>2, OneByOne
  <2> QED
    BY <2>3 DEF G
<1> QED
  BY <1>1, <1>9, <1>10

-----------------------------------------------------------------------------
(* The vector sidecar: what the operations of a batch have done so far *)

Named(m) == {id \in VectorIds : m.ids[id] # 0}

\* The named ids have a key each, and the next key is the first that is free.
KeysDiffer(m) ==
  /\ \A id \in VectorIds : m.ids[id] < m.next
  /\ \A id1, id2 \in VectorIds : m.ids[id1] = m.ids[id2] /\ m.ids[id1] # 0 => id1 = id2
  /\ m.next = Cardinality(Named(m)) + 1

\* The key of a named id is one of the keys, and so is the next as long as an id has none.
LEMMA KeysAreKeys ==
  ASSUME NEW m, m.next \in Nat, m.ids \in [VectorIds -> Nat], KeysDiffer(m)
  PROVE  /\ \A id \in VectorIds : m.ids[id] # 0 => m.ids[id] \in Keys
         /\ \A id \in VectorIds : m.ids[id] = 0 => m.next \in Keys
<1> DEFINE N == Cardinality(VectorIds)
           C == Cardinality(Named(m))
<1>1. IsFiniteSet(VectorIds) /\ N \in Nat
  BY VectorSidecarAssumption, FS_CardinalityType
<1>2. Named(m) \subseteq VectorIds
  BY DEF Named
<1>3. IsFiniteSet(Named(m)) /\ C \in Nat /\ C <= N
  BY <1>1, <1>2, FS_Subset, FS_CardinalityType
<1>4. m.next = C + 1 /\ Keys = 1 .. N
  BY DEF KeysDiffer, Keys
<1>5. ASSUME NEW id \in VectorIds, m.ids[id] # 0 PROVE m.ids[id] \in Keys
  <2>1. m.ids[id] \in Nat /\ m.ids[id] < m.next
    BY DEF KeysDiffer
  <2> HIDE DEF N, C
  <2> QED
    BY <1>1, <1>3, <1>4, <1>5, <2>1
<1>6. ASSUME NEW id \in VectorIds, m.ids[id] = 0 PROVE m.next \in Keys
  <2>1. id \notin Named(m)
    BY <1>6 DEF Named
  <2>2. Cardinality(Named(m) \cup {id}) = C + 1
    BY <1>3, <2>1, FS_AddElement
  <2>3. Named(m) \cup {id} \subseteq VectorIds
    BY <1>2
  <2>4. Cardinality(Named(m) \cup {id}) <= N
    BY <1>1, <2>3, FS_Subset
  <2>5. C + 1 <= N
    BY <2>2, <2>4
  <2> HIDE DEF N, C
  <2> QED
    BY <1>1, <1>3, <1>4, <2>5
<1> QED
  BY <1>5, <1>6

\* An id gets the next key.
LEMMA NextKeyDiffers ==
  ASSUME NEW m, m.next \in Nat, m.ids \in [VectorIds -> Nat], KeysDiffer(m),
         NEW new \in VectorIds, m.ids[new] = 0,
         NEW n, n.next = m.next + 1,
         \A id \in VectorIds : n.ids[id] = IF id = new THEN m.next ELSE m.ids[id]
  PROVE  KeysDiffer(n)
<1>1. \A id \in VectorIds : m.ids[id] \in Nat /\ m.ids[id] < m.next
  BY DEF KeysDiffer
<1>2. m.next # 0
  BY <1>1
<1>3. Named(n) = Named(m) \cup {new} /\ new \notin Named(m)
  BY <1>2 DEF Named
<1>4. IsFiniteSet(Named(m))
  <2>1. Named(m) \subseteq VectorIds
    BY DEF Named
  <2> QED
    BY <2>1, VectorSidecarAssumption, FS_Subset
<1>5. Cardinality(Named(n)) = Cardinality(Named(m)) + 1
  BY <1>3, <1>4, FS_AddElement
<1>6. \A id \in VectorIds : n.ids[id] < n.next
  BY <1>1
<1>7. ASSUME NEW a \in VectorIds, NEW b \in VectorIds, n.ids[a] = n.ids[b], n.ids[a] # 0 PROVE a = b
  <2>1. CASE a = new \/ b = new
    BY <1>1, <1>7, <2>1
  <2>2. CASE a # new /\ b # new
    BY <1>7, <2>2 DEF KeysDiffer
  <2> QED
    BY <2>1, <2>2
<1>8. n.next = Cardinality(Named(n)) + 1
  BY <1>5 DEF KeysDiffer
<1> QED
  BY <1>6, <1>7, <1>8 DEF KeysDiffer

\* An index that a batch finds has a vector under a key of no one only as a stray.
NoneUnnamed ==
  \A f \in VectorFields, k \in Keys :
    indices[f] # NoIndex /\ indices[f][k] # 0 /\ (\A id \in VectorIds : manifest.ids[id] # k)
      => <<f, k>> \in strays

\* The vector of an id of the batch: it would be added, unless there is none; and what there
\* was is removed, unless it was nothing or a stray.
Taken(so, told, f, id) ==
  /\ so.ids[id] = 0 \/ so.indices[f] = NoIndex => told[f][id] = 0
  /\ so.ids[id] # 0 => so.additions[f][so.ids[id]] = told[f][id]
  /\ so.ids[id] # 0 /\ so.ids[id] \notin so.removals[f] =>
       /\ told[f][id] = 0
       /\ so.indices[f] = NoIndex \/ so.indices[f][so.ids[id]] = 0 \/ <<f, so.ids[id]>> \in strays
  /\ manifest.ids[id] # 0 /\ indices[f] # NoIndex => so.removals[f] # {}

\* What operations with these ids have made of what there was (Start) and of what was given.
SoFar(so, told, ids) ==
  /\ KeysDiffer(so)
  /\ \A id \in VectorIds : so.ids[id] = manifest.ids[id] \/ (manifest.ids[id] = 0 /\ id \in ids)
  /\ \A f \in VectorFields :
       /\ \/ so.indices[f] = indices[f]
          \/ indices[f] = NoIndex /\ so.indices[f] = NewIndex /\ so.removals[f] # {}
       /\ so.removals[f] # {} => so.indices[f] # NoIndex
  /\ \A f \in VectorFields, k \in Nat :
       k \in so.removals[f] => k \in Keys /\ \E id \in ids : so.ids[id] = k
  /\ \A f \in VectorFields, k \in Keys :
       so.additions[f][k] # 0 => \E id \in ids : so.ids[id] = k
  /\ \A f \in VectorFields, id \in VectorIds \ ids : told[f][id] = truth[f][id]
  /\ \A f \in VectorFields, id \in ids : Taken(so, told, f, id)

\* One more operation keeps what there is to say of those before it.
LEMMA OneMore ==
  ASSUME manifest.next \in Nat, manifest.ids \in [VectorIds -> Nat],
         indices \in [VectorFields -> IndexStates], NoneUnnamed,
         NEW so \in AbsorbStates, NEW told \in TruthStates, NEW ids \in SUBSET VectorIds,
         NEW op \in Absorbable, SoFar(so, told, ids)
  PROVE  SoFar(Absorbed(so, op), Told(told, op), ids \cup {op.id})
<1> DEFINE key == KeyFor(so, op)
<1>1. /\ so.next \in Nat /\ so.ids \in [VectorIds -> Nat] /\ so.indices \in [VectorFields -> IndexStates]
      /\ so.removals \in [VectorFields -> SUBSET Nat] /\ so.additions \in [VectorFields -> [Keys -> Nat]]
  BY DEF AbsorbStates
<1>2. op.id \in VectorIds /\ op.fields \in SUBSET VectorFields /\ op.vector \in Nat
  BY DEF Absorbable
<1>3. PICK new : new = Absorbed(so, op)
  OBVIOUS
<1>4. PICK now : now = Told(told, op)
  OBVIOUS
<1>5. \A f \in VectorFields, id \in VectorIds :
        now[f][id] = IF id # op.id THEN told[f][id] ELSE IF f \in op.fields THEN op.vector ELSE 0
  BY <1>4, ToldIs
<1>6. KeysDiffer(so)
  BY DEF SoFar
<1>7. \A id \in VectorIds : so.ids[id] = manifest.ids[id] \/ (manifest.ids[id] = 0 /\ id \in ids)
  BY DEF SoFar
<1>8. \A f \in VectorFields :
        /\ so.indices[f] = indices[f] \/ (indices[f] = NoIndex /\ so.indices[f] = NewIndex /\ so.removals[f] # {})
        /\ so.removals[f] # {} => so.indices[f] # NoIndex
  BY DEF SoFar
<1>9. \A f \in VectorFields, k \in Nat : k \in so.removals[f] => k \in Keys /\ \E id \in ids : so.ids[id] = k
  BY DEF SoFar
<1>10. \A f \in VectorFields, k \in Keys : so.additions[f][k] # 0 => \E id \in ids : so.ids[id] = k
  BY DEF SoFar
<1>11. \A f \in VectorFields, id \in VectorIds \ ids : told[f][id] = truth[f][id]
  BY DEF SoFar
<1>12. \A f \in VectorFields, id \in ids : Taken(so, told, f, id)
  BY DEF SoFar
<1>13. \A f \in VectorFields, id \in VectorIds \ (ids \cup {op.id}) : now[f][id] = truth[f][id]
  BY <1>5, <1>11
<1>14. CASE NoEffect(so, op)
  <2>1. new = so /\ so.ids[op.id] = 0 /\ op.fields = {}
    BY <1>3, <1>14, AbsorbedIs DEF NoEffect
  <2>2. \A id \in VectorIds : so.ids[id] = manifest.ids[id] \/ (manifest.ids[id] = 0 /\ id \in ids \cup {op.id})
    BY <1>7
  <2>3. \A f \in VectorFields, k \in Nat : k \in so.removals[f] => k \in Keys /\ \E id \in ids \cup {op.id} : so.ids[id] = k
    BY <1>9
  <2>4. \A f \in VectorFields, k \in Keys : so.additions[f][k] # 0 => \E id \in ids \cup {op.id} : so.ids[id] = k
    BY <1>10
  <2>5. ASSUME NEW f \in VectorFields, NEW id \in ids \cup {op.id} PROVE Taken(so, now, f, id)
    <3>1. CASE id = op.id
      <4>1. now[f][id] = 0 /\ so.ids[id] = 0 /\ manifest.ids[id] = 0
        BY <1>2, <1>5, <1>7, <2>1, <3>1
      <4> QED
        BY <4>1 DEF Taken
    <3>2. CASE id # op.id
      <4>1. id \in ids /\ id \in VectorIds
        BY <3>2
      <4>2. now[f][id] = told[f][id]
        BY <1>5, <3>2, <4>1
      <4>3. Taken(so, told, f, id)
        BY <1>12, <4>1
      <4> QED
        BY <4>2, <4>3 DEF Taken
    <3> QED
      BY <3>1, <3>2
  <2>6. SoFar(so, now, ids \cup {op.id})
    BY <1>6, <1>8, <1>13, <2>2, <2>3, <2>4, <2>5 DEF SoFar
  <2> QED
    BY <1>3, <1>4, <2>1, <2>6
<1>15. CASE ~NoEffect(so, op)
  <2>1. FieldByField(so, op, new)
    BY <1>3, <1>15, AbsorbedIs
  <2>2. key \in Nat /\ key \in Keys /\ key # 0
    <3>1. key \in Keys
      BY <1>1, <1>2, <1>6, KeysAreKeys DEF KeyFor
    <3>2. Keys \subseteq Nat \ {0}
      <4>1. Cardinality(VectorIds) \in Nat
        BY VectorSidecarAssumption, FS_CardinalityType
      <4> QED
        BY <4>1 DEF Keys
    <3> QED
      BY <3>1, <3>2
  <2>3. NewIndex # NoIndex /\ \A k \in Keys : NewIndex[k] = 0
    <3>1. DOMAIN NewIndex = Keys /\ \A k \in Keys : NewIndex[k] = 0
      BY DEF NewIndex
    <3>2. DOMAIN NoIndex = {}
      BY DEF NoIndex
    <3> QED
      BY <2>2, <3>1, <3>2
  <2>4. \A id \in VectorIds : new.ids[id] = IF id = op.id THEN key ELSE so.ids[id]
    BY <2>1 DEF FieldByField
  <2>5. new.next = IF so.ids[op.id] # 0 THEN so.next ELSE so.next + 1
    BY <2>1 DEF FieldByField
  <2>6. \A f \in VectorFields :
          new.indices[f] = IF f \in op.fields /\ so.indices[f] = NoIndex THEN NewIndex ELSE so.indices[f]
    BY <2>1 DEF FieldByField
  <2>7. \A f \in VectorFields :
          new.removals[f] = so.removals[f] \cup IF f \in Emptied(so, op) \cup op.fields THEN {key} ELSE {}
    BY <2>1 DEF FieldByField
  <2>8. \A f \in VectorFields, k \in Keys : new.additions[f][k] =
            IF k # key THEN so.additions[f][k]
            ELSE IF f \in op.fields THEN op.vector
            ELSE IF f \in Emptied(so, op) THEN 0 ELSE so.additions[f][k]
    BY <2>1 DEF FieldByField
  <2>9. \A f \in VectorFields : f \in Emptied(so, op) <=> so.ids[op.id] # 0 /\ so.indices[f] # NoIndex
    BY DEF Emptied
  <2>10. key = IF so.ids[op.id] # 0 THEN so.ids[op.id] ELSE so.next
    BY DEF KeyFor
  <2>11. \A id \in VectorIds : id # op.id /\ so.ids[id] # 0 => so.ids[id] # key
    <3>1. \A id \in VectorIds : so.ids[id] \in Nat /\ so.ids[id] < so.next
      BY <1>1, <1>6 DEF KeysDiffer
    <3> QED
      BY <1>1, <1>2, <1>6, <2>10, <3>1 DEF KeysDiffer
  <2>12. \A id \in VectorIds : so.ids[id] # 0 => new.ids[id] = so.ids[id]
    BY <2>4, <2>10
  <2>13. so.ids[op.id] = 0 => \A id \in VectorIds : so.ids[id] # key /\ manifest.ids[id] # key
    <3>1. \A id \in VectorIds : so.ids[id] \in Nat /\ so.ids[id] < so.next
      BY <1>1, <1>6 DEF KeysDiffer
    <3>2. so.ids[op.id] = 0 => \A id \in VectorIds : so.ids[id] # key
      BY <1>1, <2>10, <3>1
    <3> QED
      BY <1>7, <2>2, <3>2
  <2>14. ids \subseteq VectorIds
    OBVIOUS
  <2> HIDE DEF key
  <2>20. KeysDiffer(new)
    <3>1. CASE so.ids[op.id] = 0
      <4>1. new.next = so.next + 1 /\ \A id \in VectorIds : new.ids[id] = IF id = op.id THEN so.next ELSE so.ids[id]
        BY <2>4, <2>5, <2>10, <3>1
      <4> QED
        BY <1>1, <1>2, <1>6, <3>1, <4>1, NextKeyDiffers
    <3>2. CASE so.ids[op.id] # 0
      <4>1. new.next = so.next /\ \A id \in VectorIds : new.ids[id] = so.ids[id]
        BY <2>4, <2>5, <2>10, <3>2
      <4>2. Named(new) = Named(so)
        BY <4>1 DEF Named
      <4> QED
        BY <1>6, <4>1, <4>2 DEF KeysDiffer
    <3> QED
      BY <3>1, <3>2
  <2>21. \A id \in VectorIds : new.ids[id] = manifest.ids[id] \/ (manifest.ids[id] = 0 /\ id \in ids \cup {op.id})
    <3> TAKE id \in VectorIds
    <3>1. CASE so.ids[id] # 0
      BY <1>7, <2>12, <3>1
    <3>2. CASE so.ids[id] = 0
      BY <1>7, <2>4, <3>2
    <3> QED
      BY <3>1, <3>2
  <2>22. ASSUME NEW f \in VectorFields
         PROVE  /\ new.indices[f] = indices[f] \/ (indices[f] = NoIndex /\ new.indices[f] = NewIndex /\ new.removals[f] # {})
                /\ new.removals[f] # {} => new.indices[f] # NoIndex
    <3>1. CASE f \in op.fields /\ so.indices[f] = NoIndex
      <4>1. new.indices[f] = NewIndex /\ key \in new.removals[f] /\ so.removals[f] = {}
        BY <1>8, <2>6, <2>7, <3>1
      <4>2. indices[f] = NoIndex
        BY <1>8, <3>1, <4>1
      <4> QED
        BY <2>3, <4>1, <4>2
    <3>2. CASE ~(f \in op.fields /\ so.indices[f] = NoIndex)
      <4>1. new.indices[f] = so.indices[f]
        BY <2>6, <3>2
      <4>2. so.removals[f] # {} => new.removals[f] # {}
        BY <2>7
      <4>3. new.removals[f] # {} => so.removals[f] # {} \/ f \in Emptied(so, op) \/ f \in op.fields
        BY <2>7
      <4> QED
        BY <1>8, <2>9, <3>2, <4>1, <4>2, <4>3
    <3> QED
      BY <3>1, <3>2
  <2>23. \A f \in VectorFields, k \in Nat : k \in new.removals[f] => k \in Keys /\ \E id \in ids \cup {op.id} : new.ids[id] = k
    <3> SUFFICES ASSUME NEW f \in VectorFields, NEW k \in Nat, k \in new.removals[f]
                 PROVE  k \in Keys /\ \E id \in ids \cup {op.id} : new.ids[id] = k
      OBVIOUS
    <3>1. CASE k = key
      BY <1>2, <2>2, <2>4, <3>1
    <3>2. CASE k \in so.removals[f]
      <4>1. PICK id \in ids : so.ids[id] = k /\ k \in Keys
        BY <1>9, <3>2
      <4>2. so.ids[id] # 0
        <5>1. Cardinality(VectorIds) \in Nat
          BY VectorSidecarAssumption, FS_CardinalityType
        <5> QED
          BY <4>1, <5>1 DEF Keys
      <4> QED
        BY <2>12, <2>14, <4>1, <4>2
    <3> QED
      BY <2>7, <3>1, <3>2
  <2>24. \A f \in VectorFields, k \in Keys : new.additions[f][k] # 0 => \E id \in ids \cup {op.id} : new.ids[id] = k
    <3> SUFFICES ASSUME NEW f \in VectorFields, NEW k \in Keys, new.additions[f][k] # 0
                 PROVE  \E id \in ids \cup {op.id} : new.ids[id] = k
      OBVIOUS
    <3>1. CASE k = key
      BY <1>2, <2>4, <3>1
    <3>2. CASE k # key
      <4>1. PICK id \in ids : so.ids[id] = k
        BY <1>10, <2>8, <3>2
      <4>2. so.ids[id] # 0
        <5>1. Cardinality(VectorIds) \in Nat
          BY VectorSidecarAssumption, FS_CardinalityType
        <5> QED
          BY <4>1, <5>1 DEF Keys
      <4> QED
        BY <2>12, <2>14, <4>1, <4>2
    <3> QED
      BY <3>1, <3>2
  <2>25. ASSUME NEW f \in VectorFields PROVE Taken(new, now, f, op.id)
    <3>1. new.ids[op.id] = key
      BY <1>2, <2>4
    <3>2. now[f][op.id] = IF f \in op.fields THEN op.vector ELSE 0
      BY <1>2, <1>5
    <3>3. new.indices[f] = NoIndex => f \notin op.fields
      BY <2>3, <2>6
    <3>4. new.additions[f][key] = now[f][op.id]
      <4>1. CASE f \in op.fields \/ f \in Emptied(so, op)
        BY <2>2, <2>8, <3>2, <4>1
      <4>2. CASE f \notin op.fields /\ f \notin Emptied(so, op)
        <5>1. new.additions[f][key] = so.additions[f][key] /\ now[f][op.id] = 0
          BY <2>2, <2>8, <3>2, <4>2
        <5> SUFFICES ASSUME so.additions[f][key] # 0 PROVE FALSE
          BY <5>1
        <5>2. PICK id \in ids : so.ids[id] = key
          BY <1>10, <2>2
        <5>3. so.ids[op.id] # 0
          BY <2>13, <2>14, <5>2
        <5>4. id = op.id
          BY <2>2, <2>11, <2>14, <5>2
        <5>5. Taken(so, told, f, op.id) /\ so.ids[op.id] = key
          BY <1>12, <5>2, <5>4
        <5>6. so.indices[f] = NoIndex
          BY <2>9, <4>2, <5>3
        <5> QED
          BY <5>3, <5>5, <5>6 DEF Taken
      <4> QED
        BY <4>1, <4>2
    <3>5. ASSUME key \notin new.removals[f]
          PROVE  now[f][op.id] = 0 /\ (new.indices[f] = NoIndex \/ new.indices[f][key] = 0 \/ <<f, key>> \in strays)
      <4>1. f \notin op.fields /\ f \notin Emptied(so, op)
        BY <2>7, <3>5
      <4>2. now[f][op.id] = 0 /\ new.indices[f] = so.indices[f]
        BY <2>6, <3>2, <4>1
      <4>3. CASE so.ids[op.id] # 0
        BY <2>9, <4>1, <4>2, <4>3
      <4>4. CASE so.ids[op.id] = 0
        <5>1. CASE so.indices[f] = indices[f]
          BY <2>2, <2>13, <4>2, <4>4, <5>1 DEF NoneUnnamed
        <5>2. CASE so.indices[f] = NewIndex
          BY <2>2, <2>3, <4>2, <5>2
        <5> QED
          BY <1>8, <5>1, <5>2
      <4> QED
        BY <4>3, <4>4
    <3>6. ASSUME manifest.ids[op.id] # 0, indices[f] # NoIndex PROVE new.removals[f] # {}
      <4>1. so.ids[op.id] # 0 /\ so.indices[f] # NoIndex
        BY <1>2, <1>7, <1>8, <3>6
      <4> QED
        BY <2>7, <2>9, <4>1
    <3>7. new.ids[op.id] = 0 \/ new.indices[f] = NoIndex => now[f][op.id] = 0
      BY <2>2, <3>1, <3>2, <3>3
    <3> QED
      BY <3>1, <3>4, <3>5, <3>6, <3>7 DEF Taken
  <2>26. ASSUME NEW f \in VectorFields, NEW id \in ids, id # op.id PROVE Taken(new, now, f, id)
    <3>1. id \in VectorIds /\ new.ids[id] = so.ids[id] /\ now[f][id] = told[f][id]
      BY <1>5, <2>4, <2>14, <2>26
    <3>2. Taken(so, told, f, id)
      BY <1>12
    <3>3. new.indices[f] = so.indices[f] \/ (so.indices[f] = NoIndex /\ new.indices[f] = NewIndex)
      BY <2>6
    <3>4. so.removals[f] \subseteq new.removals[f]
      BY <2>7
    <3>5. so.ids[id] # 0 => so.ids[id] \in Keys /\ so.ids[id] # key
      BY <1>1, <1>6, <2>11, <2>26, <3>1, KeysAreKeys
    <3>6. so.ids[id] # 0 => new.additions[f][so.ids[id]] = so.additions[f][so.ids[id]]
      BY <2>8, <3>5
    <3>7. so.ids[id] = 0 \/ new.indices[f] = NoIndex => told[f][id] = 0
      BY <2>3, <3>2, <3>3 DEF Taken
    <3>8. so.ids[id] # 0 => new.additions[f][so.ids[id]] = told[f][id]
      BY <3>2, <3>6 DEF Taken
    <3>9. ASSUME so.ids[id] # 0, so.ids[id] \notin new.removals[f]
          PROVE  /\ told[f][id] = 0
                 /\ new.indices[f] = NoIndex \/ new.indices[f][so.ids[id]] = 0 \/ <<f, so.ids[id]>> \in strays
      <4>1. /\ told[f][id] = 0
            /\ so.indices[f] = NoIndex \/ so.indices[f][so.ids[id]] = 0 \/ <<f, so.ids[id]>> \in strays
        BY <3>2, <3>4, <3>9 DEF Taken
      <4> QED
        BY <2>3, <3>3, <3>5, <3>9, <4>1
    <3>10. manifest.ids[id] # 0 /\ indices[f] # NoIndex => new.removals[f] # {}
      BY <3>2, <3>4 DEF Taken
    <3> QED
      BY <3>1, <3>7, <3>8, <3>9, <3>10 DEF Taken
  <2>27. \A f \in VectorFields, id \in ids \cup {op.id} : Taken(new, now, f, id)
    BY <2>25, <2>26
  <2>28. SoFar(new, now, ids \cup {op.id})
    BY <1>13, <2>20, <2>21, <2>22, <2>23, <2>24, <2>27 DEF SoFar
  <2> QED
    BY <1>3, <1>4, <2>28
<1> QED
  BY <1>14, <1>15

IdsUntil(ops, k) == {ops[j].id : j \in 1 .. k}

\* After each of a batch's operations.
LEMMA BatchSoFar ==
  ASSUME manifest.next \in Nat, manifest.ids \in [VectorIds -> Nat], KeysDiffer(manifest),
         indices \in [VectorFields -> IndexStates], truth \in TruthStates, NoneUnnamed,
         NEW ops \in Seq(Absorbable)
  PROVE  \A k \in 0 .. Len(ops) :
           /\ Absorbing(ops)[k] \in AbsorbStates /\ Telling(ops)[k] \in TruthStates
           /\ SoFar(Absorbing(ops)[k], Telling(ops)[k], IdsUntil(ops, k))
<1>1. Start \in AbsorbStates
  BY DEF Start, AbsorbStates, NewIndex
<1>2. PICK so : so = Absorbing(ops)
  OBVIOUS
<1>3. PICK told : told = Telling(ops)
  OBVIOUS
<1>4. /\ so[0] = Start
      /\ \A k \in 1 .. Len(ops) : so[k] = Absorbed(so[k - 1], ops[k])
      /\ \A k \in 0 .. Len(ops) : so[k] \in AbsorbStates
  BY <1>1, <1>2, AbsorbingIs
<1>5. /\ told[0] = truth
      /\ \A k \in 1 .. Len(ops) : told[k] = Told(told[k - 1], ops[k])
      /\ \A k \in 0 .. Len(ops) : told[k] \in TruthStates
  BY <1>3, TellingIs
<1>6. Len(ops) \in Nat /\ \A k \in 1 .. Len(ops) : ops[k] \in Absorbable
  OBVIOUS
<1> DEFINE G == {k \in 0 .. Len(ops) : SoFar(so[k], told[k], IdsUntil(ops, k))}
<1>7. 0 \in G
  <2>1. IdsUntil(ops, 0) = {}
    BY DEF IdsUntil
  <2>2. /\ Start.next = manifest.next /\ Start.ids = manifest.ids /\ Start.indices = indices
        /\ \A f \in VectorFields : Start.removals[f] = {} /\ \A k \in Keys : Start.additions[f][k] = 0
    BY DEF Start, NewIndex
  <2>3. KeysDiffer(Start)
    BY <2>2 DEF KeysDiffer, Named
  <2>4. SoFar(Start, truth, {})
    BY <2>2, <2>3 DEF SoFar
  <2> QED
    <3>1. 0 \in 0 .. Len(ops)
      BY <1>6
    <3> QED
      BY <1>4, <1>5, <2>1, <2>4, <3>1
<1>8. ASSUME NEW k \in 1 .. Len(ops), k - 1 \in G PROVE k \in G
  <2>1. IdsUntil(ops, k) = IdsUntil(ops, k - 1) \cup {ops[k].id}
    <3>1. 1 .. k = (1 .. k - 1) \cup {k}
      OBVIOUS
    <3> QED
      BY <3>1 DEF IdsUntil
  <2>2. IdsUntil(ops, k - 1) \in SUBSET VectorIds
    <3>1. \A j \in 1 .. k - 1 : ops[j] \in Absorbable
      BY <1>6
    <3> QED
      BY <3>1 DEF IdsUntil, Absorbable
  <2>3. k - 1 \in 0 .. Len(ops) /\ k \in 0 .. Len(ops)
    OBVIOUS
  <2>4. SoFar(so[k - 1], told[k - 1], IdsUntil(ops, k - 1))
    BY <1>8
  <2>5. so[k - 1] \in AbsorbStates /\ told[k - 1] \in TruthStates /\ ops[k] \in Absorbable
    BY <1>4, <1>5, <1>6, <2>3
  <2>6. SoFar(Absorbed(so[k - 1], ops[k]), Told(told[k - 1], ops[k]), IdsUntil(ops, k - 1) \cup {ops[k].id})
    BY <2>2, <2>4, <2>5, OneMore
  <2> QED
    BY <1>4, <1>5, <2>1, <2>3, <2>6
<1> HIDE DEF G
<1>9. \A k \in 0 .. Len(ops) : k \in G
  BY <1>6, <1>7, <1>8, OneByOne
<1> QED
  BY <1>2, <1>3, <1>4, <1>5, <1>9 DEF G

-----------------------------------------------------------------------------
(* The vector sidecar: its invariant *)

Jobs == [ops : Seq(Absorbable), todo : SUBSET VectorFields, removals : [VectorFields -> SUBSET Nat],
         additions : [VectorFields -> [Keys -> Nat]]]

SidecarTypeOK ==
  /\ sidecar \in {"closed", "open", "applying", "broken"}
  /\ manifest \in [next : Nat, ids : [VectorIds -> Nat]]
  /\ indices \in [VectorFields -> IndexStates] /\ stored \in [VectorFields -> IndexStates]
  /\ saved \in [next : Nat, ids : [VectorIds -> Nat], fields : SUBSET VectorFields]
  /\ sidecar = "applying" => job \in Jobs
  /\ sidecar # "applying" => job = NoJob
  /\ operations \in Nat /\ callFaults \in Nat
  /\ truth \in TruthStates /\ unsure \in SUBSET (VectorFields \X VectorIds)
  /\ strays \in SUBSET (VectorFields \X Keys) /\ lost \in BOOLEAN

Up == sidecar \in {"open", "applying"}

\* The fields and ids whose last batch failed, was cut short or is not through.
Doubted == unsure \cup Touched(job.ops)

\* The vector that counts if the sidecar is opened as it is in the directory.
DiskVector(f, id) ==
  IF saved.ids[id] = 0 \/ f \notin saved.fields THEN 0 ELSE stored[f][saved.ids[id]]

\* The directory has what the last batch gave the id; what it has as a stray nobody gave.
OnDisk(f, id) ==
  /\ <<f, saved.ids[id]>> \in strays => truth[f][id] = 0
  /\ <<f, saved.ids[id]>> \notin strays /\ (f \in saved.fields => stored[f] # NoIndex)
       => DiskVector(f, id) = truth[f][id]

\* So has the process, under the same key.
InMemory(f, id) ==
  /\ manifest.ids[id] = saved.ids[id]
  /\ <<f, manifest.ids[id]>> \notin strays => VectorOf(f, id) = truth[f][id]

\* The index of a field has by a key what its file has, unless a batch that did something with
\* the key failed, or is not yet done with the field.
Alike(f, k) ==
  \/ indices[f] = NoIndex \/ stored[f] = NoIndex
  \/ indices[f][k] = stored[f][k]
  \/ <<f, k>> \in strays
  \/ \E id \in VectorIds : /\ manifest.ids[id] = k /\ <<f, id>> \in unsure
                           /\ <<f, id>> \in Touched(job.ops) => f \in job.todo

\* What a file has without an index, and what an index has without an id, are strays.
Unknown(f, k) ==
  /\ indices[f] = NoIndex /\ stored[f] # NoIndex /\ stored[f][k] # 0 => <<f, k>> \in strays
  /\ indices[f] # NoIndex /\ indices[f][k] # 0 /\ (\A id \in VectorIds : manifest.ids[id] # k)
       => <<f, k>> \in strays

\* What the ids will have when the manifest is written.
Final == Telling(job.ops)[Len(job.ops)]

\* The index of a field has it for an id of the batch, or will when the field is saved.
Given(f, id) ==
  LET k == manifest.ids[id]
  IN  /\ k = 0 \/ indices[f] = NoIndex => Final[f][id] = 0
      /\ k # 0 /\ indices[f] # NoIndex /\ f \in job.todo =>
           /\ job.additions[f][k] = Final[f][id]
           /\ k \notin job.removals[f] => /\ Final[f][id] = 0
                                          /\ indices[f][k] = 0 \/ <<f, k>> \in strays
      /\ k # 0 /\ indices[f] # NoIndex /\ f \notin job.todo =>
           /\ <<f, k>> \in strays => Final[f][id] = 0
           /\ <<f, k>> \notin strays => indices[f][k] = Final[f][id]

\* A batch has to do with the keys of its ids only.
JobOk ==
  /\ \A f \in job.todo : indices[f] # NoIndex /\ job.removals[f] # {}
  /\ \A f \in VectorFields, k \in Nat :
        k \in job.removals[f]
          => k \in Keys /\ \E id \in VectorIds : manifest.ids[id] = k /\ <<f, id>> \in Touched(job.ops)
  /\ \A f \in VectorFields, k \in Keys :
        job.additions[f][k] # 0 => \E id \in VectorIds : manifest.ids[id] = k /\ <<f, id>> \in Touched(job.ops)
  /\ \A f \in VectorFields, id \in VectorIds : <<f, id>> \in Touched(job.ops) => Given(f, id)

\* As long as no call has failed: whatever the manifest lists has its file.
Faultless ==
  /\ sidecar # "broken"
  /\ \A f \in saved.fields : stored[f] # NoIndex
  /\ Up => \A f \in VectorFields : indices[f] # NoIndex /\ f \notin job.todo => stored[f] # NoIndex

Settled == \A f \in VectorFields, id \in VectorIds :
             <<f, id>> \notin Doubted => OnDisk(f, id) /\ (Up => InMemory(f, id))

SidecarAccounts ==
  /\ KeysDiffer(manifest) /\ KeysDiffer(saved)
  /\ Up => \A f \in VectorFields, k \in Keys : Alike(f, k) /\ Unknown(f, k)
  /\ sidecar = "applying" => JobOk

SidecarInv ==
  /\ SidecarTypeOK
  /\ callFaults = 0 => ~lost /\ Faultless
  /\ SidecarAccounts
  /\ ~lost => Settled

\* The pairs of a batch.
LEMMA TouchedIs ==
  ASSUME NEW ops \in Seq(Absorbable)
  PROVE  /\ IdsUntil(ops, Len(ops)) \in SUBSET VectorIds
         /\ Touched(ops) = VectorFields \X IdsUntil(ops, Len(ops))
         /\ \A k \in 0 .. Len(ops) : IdsUntil(ops, k) \subseteq IdsUntil(ops, Len(ops))
<1>1. Len(ops) \in Nat /\ DOMAIN ops = 1 .. Len(ops) /\ \A k \in 1 .. Len(ops) : ops[k] \in Absorbable
  OBVIOUS
<1>2. \A k \in 1 .. Len(ops) : ops[k].id \in VectorIds
  BY <1>1 DEF Absorbable
<1>3. \A k \in 0 .. Len(ops) : 1 .. k \subseteq 1 .. Len(ops)
  BY <1>1
<1> QED
  BY <1>1, <1>2, <1>3 DEF IdsUntil, Touched

\* When no batch is applied, no pair is touched.
LEMMA NoneTouched == NoJob.ops = <<>> /\ Touched(NoJob.ops) = {} /\ NoJob.todo = {}
BY DEF NoJob, Touched

\* Keys are numbers from one on.
LEMMA KeysArePositive == Keys \subseteq Nat \ {0}
<1>1. Cardinality(VectorIds) \in Nat
  BY VectorSidecarAssumption, FS_CardinalityType
<1> QED
  BY <1>1 DEF Keys

\* Where there is a key there is an index that is not none.
LEMMA IndexIsSome ==
  ASSUME NEW k \in Keys, NEW e, DOMAIN e = Keys
  PROVE  e # NoIndex
<1>1. DOMAIN NoIndex = {}
  BY DEF NoIndex
<1> QED
  BY <1>1

\* The operations of a batch of this many.
LEMMA NumberedIs ==
  ASSUME operations \in Nat, NEW n \in Nat, NEW batch \in [1 .. n -> Operations]
  PROVE  Numbered(batch) \in Seq(Absorbable) /\ Len(batch) \in Nat
<1>1. \A k \in 1 .. n : batch[k].id \in VectorIds /\ batch[k].fields \in SUBSET VectorFields
  BY DEF Operations
<1>2. \A k \in 1 .. n :
        [id |-> batch[k].id, fields |-> batch[k].fields, vector |-> operations + k] \in Absorbable
  BY <1>1 DEF Absorbable
<1>3. Numbered(batch) \in [1 .. n -> Absorbable]
  BY <1>2 DEF Numbered
<1> QED
  BY <1>3

\* A new directory.
LEMMA SidecarInitially == SidecarInit => SidecarInv
<1> SUFFICES ASSUME SidecarInit PROVE SidecarInv
  OBVIOUS
<1> USE DEF SidecarInit
<1>1. NoKeys \in [VectorIds -> Nat] /\ \A id \in VectorIds : NoKeys[id] = 0
  BY DEF NoKeys
<1>2. SidecarTypeOK
  BY <1>1 DEF SidecarTypeOK, IndexStates, NoManifest, TruthStates
<1>3. Faultless
  BY DEF Faultless, NoManifest, Up
<1>4. ASSUME NEW m, m.next = 1, m.ids = NoKeys PROVE KeysDiffer(m)
  <2>1. Named(m) = {}
    BY <1>1, <1>4 DEF Named
  <2>2. Cardinality(Named(m)) = 0
    BY <2>1, FS_EmptySet
  <2> QED
    BY <1>1, <1>4, <2>2 DEF KeysDiffer
<1>5. KeysDiffer(manifest) /\ KeysDiffer(saved)
  <2>1. manifest.next = 1 /\ manifest.ids = NoKeys /\ saved.next = 1 /\ saved.ids = NoKeys
    BY DEF NoManifest
  <2> QED
    BY <1>4, <2>1
<1>6. Settled
  <2> SUFFICES ASSUME NEW f \in VectorFields, NEW id \in VectorIds PROVE OnDisk(f, id)
    BY DEF Settled, Up
  <2>1. saved.ids[id] = 0 /\ truth[f][id] = 0
    BY <1>1 DEF NoManifest
  <2> QED
    BY <2>1 DEF OnDisk, DiskVector
<1> QED
  BY <1>2, <1>3, <1>5, <1>6 DEF SidecarInv, SidecarAccounts, Up

\* Opening takes the manifest and the files as they are, and notes what is strange about them.
LEMMA OpenKeepsInv == SidecarInv /\ OpenSidecar => SidecarInv'
<1> SUFFICES ASSUME SidecarInv, OpenSidecar PROVE SidecarInv'
  OBVIOUS
<1>1. SidecarTypeOK
  BY DEF SidecarInv
<1>2. /\ sidecar = "closed" /\ job = NoJob
      /\ stored' = stored /\ saved' = saved /\ job' = job /\ operations' = operations
      /\ callFaults' = callFaults /\ truth' = truth /\ unsure' = unsure /\ lost' = lost
  BY <1>1 DEF OpenSidecar, SidecarTypeOK
<1>3. /\ saved.ids \in [VectorIds -> Nat] /\ saved.next \in Nat /\ saved.fields \in SUBSET VectorFields
      /\ stored \in [VectorFields -> IndexStates]
  BY <1>1 DEF SidecarTypeOK
<1>4. CASE \E f \in saved.fields : stored[f] = NoIndex
  <2>1. sidecar' = "broken" /\ manifest' = manifest /\ indices' = indices /\ strays' = strays
    BY <1>4 DEF OpenSidecar
  <2>2. callFaults # 0
    BY <1>4 DEF SidecarInv, Faultless
  <2>3. SidecarTypeOK'
    BY <1>1, <1>2, <2>1 DEF SidecarTypeOK
  <2>4. SidecarAccounts' /\ (~lost' => Settled')
    <3>1. SidecarAccounts /\ (~lost => Settled)
      BY DEF SidecarInv
    <3>2. ~lost' => Settled'
      BY <1>2, <2>1, <3>1 DEF Settled, Up, Doubted, OnDisk, DiskVector
    <3>3. KeysDiffer(manifest)' /\ KeysDiffer(saved)'
      BY <1>2, <2>1, <3>1 DEF SidecarAccounts
    <3> QED
      BY <2>1, <3>2, <3>3 DEF SidecarAccounts, Up
  <2> QED
    BY <1>2, <2>2, <2>3, <2>4 DEF SidecarInv
<1>5. CASE \A f \in saved.fields : stored[f] # NoIndex
  <2>1. /\ sidecar' = "open"
        /\ manifest' = [next |-> saved.next, ids |-> saved.ids]
        /\ indices' = [f \in VectorFields |-> IF f \in saved.fields THEN stored[f] ELSE NoIndex]
        /\ strays' = strays \cup {s \in VectorFields \X Keys : Strange(s[1], s[2])}
    BY <1>5 DEF OpenSidecar
  <2>2. manifest'.next = saved.next /\ manifest'.ids = saved.ids
    BY <2>1
  <2>3. \A f \in VectorFields : indices'[f] = IF f \in saved.fields THEN stored[f] ELSE NoIndex
    BY <2>1
  <2>4. \A f \in VectorFields, k \in Keys : <<f, k>> \in strays' <=> <<f, k>> \in strays \/ Strange(f, k)
    BY <2>1
  <2>5. SidecarTypeOK'
    <3>1. NoIndex \in IndexStates
      BY DEF IndexStates
    <3>2. indices' \in [VectorFields -> IndexStates]
      BY <1>3, <2>1, <3>1
    <3>3. manifest' \in [next : Nat, ids : [VectorIds -> Nat]]
      BY <1>3, <2>1
    <3>4. strays' \in SUBSET (VectorFields \X Keys)
      <4>1. strays \in SUBSET (VectorFields \X Keys)
        BY <1>1 DEF SidecarTypeOK
      <4> QED
        BY <2>1, <4>1
    <3> QED
      BY <1>1, <1>2, <2>1, <3>2, <3>3, <3>4 DEF SidecarTypeOK
  <2>6. callFaults' = 0 => ~lost' /\ Faultless'
    BY <1>2, <1>5, <2>1, <2>3 DEF SidecarInv, Faultless
  <2>7. SidecarAccounts' /\ (~lost' => Settled')
    <3>1. SidecarAccounts /\ (~lost => Settled)
      BY DEF SidecarInv
    <3>2. KeysDiffer(saved) /\ KeysDiffer(saved)'
      BY <1>2, <3>1 DEF SidecarAccounts
    <3>3. KeysDiffer(manifest)'
      <4>1. Named(manifest)' = Named(saved)
        BY <2>2 DEF Named
      <4> QED
        BY <2>2, <3>2, <4>1 DEF KeysDiffer
    <3>4. \A id \in VectorIds : saved.ids[id] # 0 => saved.ids[id] \in Keys
      BY <1>3, <3>2, KeysAreKeys
    <3>5. 0 \notin Keys
      BY KeysArePositive
    <3>6. ASSUME NEW f \in VectorFields, NEW id \in VectorIds, ~lost, <<f, id>> \notin Doubted'
          PROVE  OnDisk(f, id)' /\ InMemory(f, id)'
      <4>1. <<f, id>> \notin Doubted
        BY <1>2, <3>6 DEF Doubted
      <4>2. OnDisk(f, id)
        BY <3>1, <3>6, <4>1 DEF Settled
      <4>3. DiskVector(f, id)' = DiskVector(f, id)
        BY <1>2 DEF DiskVector
      <4>4. <<f, saved.ids[id]>> \in strays => <<f, saved.ids[id]>> \in strays'
        BY <2>1
      <4>5. <<f, saved.ids[id]>> \in strays' /\ <<f, saved.ids[id]>> \notin strays => truth[f][id] = 0
        <5> SUFFICES ASSUME <<f, saved.ids[id]>> \in strays', <<f, saved.ids[id]>> \notin strays
                     PROVE  truth[f][id] = 0
          OBVIOUS
        <5>1. Strange(f, saved.ids[id])
          BY <2>1
        <5>2. f \notin saved.fields
          BY <5>1 DEF Strange
        <5> QED
          BY <4>2, <5>2 DEF OnDisk, DiskVector
      <4>6. OnDisk(f, id)'
        BY <1>2, <4>2, <4>3, <4>4, <4>5 DEF OnDisk
      <4>7. VectorOf(f, id)' = DiskVector(f, id)
        BY <1>5, <2>2, <2>3 DEF VectorOf, DiskVector
      <4>8. InMemory(f, id)'
        BY <1>2, <1>5, <2>2, <4>2, <4>4, <4>7 DEF InMemory, OnDisk
      <4> QED
        BY <4>6, <4>8
    <3>7. ASSUME NEW f \in VectorFields, NEW k \in Keys PROVE Alike(f, k)' /\ Unknown(f, k)'
      <4>1. Alike(f, k)'
        BY <1>2, <2>3 DEF Alike
      <4>2. Unknown(f, k)'
        BY <1>2, <1>5, <2>2, <2>3, <2>4 DEF Unknown, Strange
      <4> QED
        BY <4>1, <4>2
    <3>8. ~lost' => Settled'
      BY <1>2, <3>6 DEF Settled
    <3> QED
      BY <2>1, <3>2, <3>3, <3>7, <3>8 DEF SidecarAccounts
  <2> QED
    BY <2>5, <2>6, <2>7 DEF SidecarInv
<1> QED
  BY <1>4, <1>5

\* What is in memory is gone; a batch that was being applied leaves its ids in doubt.
LEMMA StopKeepsInv == SidecarInv /\ StopSidecar => SidecarInv'
<1> SUFFICES ASSUME SidecarInv, StopSidecar PROVE SidecarInv'
  OBVIOUS
<1>1. SidecarTypeOK
  BY DEF SidecarInv
<1>2. /\ sidecar' = "closed" /\ job' = NoJob /\ unsure' = unsure \cup Touched(job.ops)
      /\ manifest' = [next |-> 1, ids |-> NoKeys] /\ indices' = [f \in VectorFields |-> NoIndex]
      /\ stored' = stored /\ saved' = saved /\ operations' = operations
      /\ callFaults' = callFaults /\ truth' = truth /\ strays' = strays /\ lost' = lost
  BY DEF StopSidecar
<1>3. Doubted' = Doubted
  BY <1>2, NoneTouched DEF Doubted
<1>4. NoKeys \in [VectorIds -> Nat] /\ \A id \in VectorIds : NoKeys[id] = 0
  BY DEF NoKeys
<1>5. Touched(job.ops) \in SUBSET (VectorFields \X VectorIds)
  <2>1. CASE sidecar = "applying"
    <3>1. job.ops \in Seq(Absorbable)
      BY <1>1, <2>1 DEF SidecarTypeOK, Jobs
    <3> QED
      BY <3>1, TouchedIs
  <2>2. CASE sidecar # "applying"
    BY <1>1, <2>2, NoneTouched DEF SidecarTypeOK
  <2> QED
    BY <2>1, <2>2
<1>6. SidecarTypeOK'
  <2>1. indices' \in [VectorFields -> IndexStates]
    BY <1>2 DEF IndexStates
  <2>2. manifest' \in [next : Nat, ids : [VectorIds -> Nat]]
    BY <1>2, <1>4
  <2>3. unsure' \in SUBSET (VectorFields \X VectorIds)
    BY <1>1, <1>2, <1>5 DEF SidecarTypeOK
  <2> QED
    BY <1>1, <1>2, <2>1, <2>2, <2>3 DEF SidecarTypeOK
<1>7. callFaults' = 0 => ~lost' /\ Faultless'
  BY <1>2 DEF SidecarInv, Faultless, Up
<1>8. SidecarAccounts' /\ (~lost' => Settled')
  <2>1. SidecarAccounts /\ (~lost => Settled)
    BY DEF SidecarInv
  <2>2. KeysDiffer(manifest)' /\ KeysDiffer(saved)'
    <3>1. manifest'.next = 1 /\ manifest'.ids = NoKeys
      BY <1>2
    <3>2. Named(manifest)' = {}
      BY <1>4, <3>1 DEF Named
    <3>3. Cardinality(Named(manifest)') = 0
      BY <3>2, FS_EmptySet
    <3>4. KeysDiffer(manifest)'
      BY <1>4, <3>1, <3>3 DEF KeysDiffer
    <3> QED
      BY <1>2, <2>1, <3>4 DEF SidecarAccounts
  <2>3. ~lost' => Settled'
    BY <1>2, <1>3, <2>1 DEF Settled, Up, OnDisk, DiskVector
  <2> QED
    BY <1>2, <2>2, <2>3 DEF SidecarAccounts, Up
<1> QED
  BY <1>6, <1>7, <1>8 DEF SidecarInv

\* What the operations of a batch up to one of them have done, when the sidecar is open.
LEMMA OpenSoFar ==
  ASSUME SidecarInv, sidecar = "open", NEW ops \in Seq(Absorbable), NEW k \in 0 .. Len(ops)
  PROVE  /\ SoFar(Absorbing(ops)[k], Telling(ops)[k], IdsUntil(ops, k))
         /\ Absorbing(ops)[k] \in AbsorbStates /\ Telling(ops)[k] \in TruthStates
<1>1. SidecarTypeOK /\ SidecarAccounts
  BY DEF SidecarInv
<1>2. NoneUnnamed /\ KeysDiffer(manifest)
  BY <1>1 DEF SidecarAccounts, Unknown, NoneUnnamed, Up
<1>3. /\ manifest.next \in Nat /\ manifest.ids \in [VectorIds -> Nat]
      /\ indices \in [VectorFields -> IndexStates] /\ truth \in TruthStates
  BY <1>1 DEF SidecarTypeOK
<1> QED
  BY <1>2, <1>3, BatchSoFar

\* It is of the right form, whatever was lost.
LEMMA OpenAbsorbing ==
  ASSUME SidecarInv, NEW ops \in Seq(Absorbable), NEW k \in 0 .. Len(ops)
  PROVE  /\ Absorbing(ops)[k] \in AbsorbStates
         /\ Absorbing(ops)[k].next \in Nat /\ Absorbing(ops)[k].ids \in [VectorIds -> Nat]
         /\ Absorbing(ops)[k].indices \in [VectorFields -> IndexStates]
         /\ Absorbing(ops)[k].removals \in [VectorFields -> SUBSET Nat]
         /\ Absorbing(ops)[k].additions \in [VectorFields -> [Keys -> Nat]]
<1>1. SidecarTypeOK
  BY DEF SidecarInv
<1>2. Start \in AbsorbStates
  BY <1>1 DEF Start, AbsorbStates, NewIndex, SidecarTypeOK
<1>3. Absorbing(ops)[k] \in AbsorbStates
  BY <1>2, AbsorbingIs
<1> QED
  BY <1>3 DEF AbsorbStates

\* A batch changes names and indices in memory; nothing of the others' is touched.
LEMMA ApplyKeepsInv ==
  ASSUME SidecarInv, NEW n \in Nat, NEW batch \in [1 .. n -> Operations], Apply(batch)
  PROVE  SidecarInv'
<1>1. SidecarTypeOK
  BY DEF SidecarInv
<1>2. PICK ops : ops = Numbered(batch)
  OBVIOUS
<1>3. ops \in Seq(Absorbable) /\ Len(batch) \in Nat
  BY <1>1, <1>2, NumberedIs DEF SidecarTypeOK
<1>4. PICK all : all = Absorbing(ops)[Len(ops)]
  OBVIOUS
<1>5. /\ sidecar = "open" /\ sidecar' = "applying" /\ operations' = operations + Len(batch)
      /\ manifest' = [next |-> all.next, ids |-> all.ids] /\ indices' = all.indices
      /\ job' = [ops |-> ops, todo |-> {f \in VectorFields : all.removals[f] # {}},
                 removals |-> all.removals, additions |-> all.additions]
      /\ stored' = stored /\ saved' = saved /\ callFaults' = callFaults /\ truth' = truth
      /\ unsure' = unsure /\ strays' = strays /\ lost' = lost
  BY <1>2, <1>4 DEF Apply
<1>6. Len(ops) \in 0 .. Len(ops)
  BY <1>3
<1>7. /\ all.next \in Nat /\ all.ids \in [VectorIds -> Nat] /\ all.indices \in [VectorFields -> IndexStates]
      /\ all.removals \in [VectorFields -> SUBSET Nat] /\ all.additions \in [VectorFields -> [Keys -> Nat]]
  BY <1>3, <1>4, <1>6, OpenAbsorbing
<1>8. /\ manifest'.next = all.next /\ manifest'.ids = all.ids
      /\ job'.ops = ops /\ job'.removals = all.removals /\ job'.additions = all.additions
      /\ \A f \in VectorFields : f \in job'.todo <=> all.removals[f] # {}
      /\ job'.todo \in SUBSET VectorFields
  BY <1>5
<1>9. SidecarTypeOK'
  <2>1. manifest' \in [next : Nat, ids : [VectorIds -> Nat]]
    BY <1>5, <1>7
  <2>2. job' \in Jobs
    BY <1>3, <1>5, <1>7 DEF Jobs
  <2> QED
    BY <1>1, <1>3, <1>5, <1>7, <2>1, <2>2 DEF SidecarTypeOK
<1>10. job = NoJob
  BY <1>1, <1>5 DEF SidecarTypeOK
<1>11. SidecarAccounts' /\ (~lost' => Settled') /\ (callFaults' = 0 => Faultless')
  <2>1. SidecarAccounts /\ (~lost => Settled)
    BY DEF SidecarInv
  <2>2. PICK told : told = Telling(ops)[Len(ops)]
    OBVIOUS
  <2>3. PICK ids : ids = IdsUntil(ops, Len(ops))
    OBVIOUS
  <2>4. SoFar(all, told, ids)
    BY <1>3, <1>4, <1>5, <1>6, <2>2, <2>3, OpenSoFar
  <2>5. ids \in SUBSET VectorIds /\ Touched(ops) = VectorFields \X ids
    BY <1>3, <2>3, TouchedIs
  <2>6. Final' = told
    <3>1. Telling(ops)' = Telling(ops)
      BY <1>5 DEF Telling
    <3> QED
      BY <1>8, <2>2, <3>1 DEF Final
  <2>7. KeysDiffer(all)
    BY <2>4 DEF SoFar
  <2>8. \A id \in VectorIds : all.ids[id] = manifest.ids[id] \/ (manifest.ids[id] = 0 /\ id \in ids)
    BY <2>4 DEF SoFar
  <2>9. \A f \in VectorFields :
          /\ all.indices[f] = indices[f] \/ (indices[f] = NoIndex /\ all.indices[f] = NewIndex /\ all.removals[f] # {})
          /\ all.removals[f] # {} => all.indices[f] # NoIndex
    BY <2>4 DEF SoFar
  <2>10. \A f \in VectorFields, k \in Nat : k \in all.removals[f] => k \in Keys /\ \E id \in ids : all.ids[id] = k
    BY <2>4 DEF SoFar
  <2>11. \A f \in VectorFields, k \in Keys : all.additions[f][k] # 0 => \E id \in ids : all.ids[id] = k
    BY <2>4 DEF SoFar
  <2>12. \A f \in VectorFields, id \in ids : Taken(all, told, f, id)
    BY <2>4 DEF SoFar
  <2>13. KeysDiffer(manifest) /\ KeysDiffer(saved)
    BY <2>1 DEF SidecarAccounts
  <2>14. Doubted = unsure /\ Doubted' = unsure \cup (VectorFields \X ids)
    BY <1>5, <1>8, <1>10, <2>5, NoneTouched DEF Doubted
  <2>15. 0 \notin Keys /\ \A k \in Keys : NewIndex[k] = 0
    BY KeysArePositive DEF NewIndex
  <2>16. \A id \in VectorIds : manifest.ids[id] # 0 => manifest.ids[id] \in Keys
    <3>1. manifest.ids \in [VectorIds -> Nat] /\ manifest.next \in Nat
      BY <1>1 DEF SidecarTypeOK
    <3> QED
      BY <2>13, <3>1, KeysAreKeys
  <2>17. \A id \in VectorIds : all.ids[id] # 0 => all.ids[id] \in Keys
    BY <1>7, <2>7, KeysAreKeys
  <2>18. KeysDiffer(manifest)' /\ KeysDiffer(saved)'
    <3>1. Named(manifest)' = Named(all)
      BY <1>8 DEF Named
    <3>2. KeysDiffer(manifest)'
      BY <1>8, <2>7, <3>1 DEF KeysDiffer
    <3>3. KeysDiffer(saved)'
      BY <1>5, <2>13
    <3> QED
      BY <3>2, <3>3
  <2>19. ASSUME NEW f \in VectorFields, NEW id \in VectorIds, ~lost, <<f, id>> \notin Doubted'
         PROVE  OnDisk(f, id)' /\ InMemory(f, id)'
    <3>1. <<f, id>> \notin Doubted /\ id \notin ids
      BY <2>14, <2>19
    <3>2. OnDisk(f, id) /\ InMemory(f, id)
      BY <1>5, <2>1, <2>19, <3>1 DEF Settled, Up
    <3>3. OnDisk(f, id)'
      BY <1>5, <3>2 DEF OnDisk, DiskVector
    <3>4. all.ids[id] = manifest.ids[id]
      BY <2>8, <3>1
    <3>5. VectorOf(f, id)' = VectorOf(f, id)
      BY <1>5, <1>8, <2>9, <2>15, <2>16, <3>4 DEF VectorOf
    <3>6. InMemory(f, id)'
      BY <1>5, <1>8, <3>2, <3>4, <3>5 DEF InMemory
    <3> QED
      BY <3>3, <3>6
  <2>20. ASSUME NEW f \in VectorFields, NEW k \in Keys PROVE Alike(f, k)' /\ Unknown(f, k)'
    <3>1. Alike(f, k) /\ Unknown(f, k)
      BY <1>5, <2>1 DEF SidecarAccounts, Up
    <3>2. \A id \in VectorIds : manifest.ids[id] = k => all.ids[id] = k
      BY <2>8, <2>15
    <3>3. Unknown(f, k)'
      BY <1>5, <1>8, <2>9, <2>15, <3>1, <3>2 DEF Unknown
    <3>4. Alike(f, k)'
      <4>1. CASE all.indices[f] = indices[f]
        <5>1. CASE \E id \in VectorIds : manifest.ids[id] = k /\ <<f, id>> \in unsure
          <6>1. PICK id \in VectorIds : manifest.ids[id] = k /\ <<f, id>> \in unsure
            BY <5>1
          <6>2. id \in ids /\ indices[f] # NoIndex => f \in job'.todo
            BY <1>8, <2>12, <2>15, <6>1 DEF Taken
          <6>3. <<f, id>> \in Touched(job'.ops) /\ indices[f] # NoIndex => f \in job'.todo
            BY <1>8, <2>5, <6>2
          <6>4. all.ids[id] = k
            BY <3>2, <6>1
          <6> QED
            BY <1>5, <1>8, <4>1, <6>1, <6>3, <6>4 DEF Alike
        <5>2. CASE ~\E id \in VectorIds : manifest.ids[id] = k /\ <<f, id>> \in unsure
          BY <1>5, <3>1, <4>1, <5>2 DEF Alike
        <5> QED
          BY <5>1, <5>2
      <4>2. CASE indices[f] = NoIndex /\ all.indices[f] = NewIndex
        <5>1. stored[f] = NoIndex \/ stored[f][k] = 0 \/ <<f, k>> \in strays
          BY <3>1, <4>2 DEF Unknown
        <5> QED
          BY <1>5, <2>15, <4>2, <5>1 DEF Alike
      <4> QED
        BY <2>9, <4>1, <4>2
    <3> QED
      BY <3>3, <3>4
  <2>21. JobOk'
    <3>1. \A f \in job'.todo : indices'[f] # NoIndex /\ job'.removals[f] # {}
      BY <1>5, <1>8, <2>9
    <3>2. \A f \in VectorFields, k \in Nat :
            k \in job'.removals[f] =>
              k \in Keys /\ \E id \in VectorIds : manifest'.ids[id] = k /\ <<f, id>> \in Touched(job'.ops)
      BY <1>8, <2>5, <2>10
    <3>3. \A f \in VectorFields, k \in Keys :
            job'.additions[f][k] # 0 => \E id \in VectorIds : manifest'.ids[id] = k /\ <<f, id>> \in Touched(job'.ops)
      BY <1>8, <2>5, <2>11
    <3>4. ASSUME NEW f \in VectorFields, NEW id \in VectorIds, <<f, id>> \in Touched(job'.ops)
          PROVE  Given(f, id)'
      <4>1. id \in ids
        BY <1>8, <2>5, <3>4
      <4>2. Taken(all, told, f, id)
        BY <2>12, <4>1
      <4>3. all.ids[id] = 0 \/ all.indices[f] = NoIndex => told[f][id] = 0
        BY <4>2 DEF Taken
      <4>4. all.ids[id] # 0 => all.additions[f][all.ids[id]] = told[f][id]
        BY <4>2 DEF Taken
      <4>5. all.ids[id] # 0 /\ all.ids[id] \notin all.removals[f] =>
             /\ told[f][id] = 0
             /\ all.indices[f] = NoIndex \/ all.indices[f][all.ids[id]] = 0 \/ <<f, all.ids[id]>> \in strays
        BY <4>2 DEF Taken
      <4>6. f \notin job'.todo => all.removals[f] = {}
        BY <1>8
      <4> QED
        BY <1>5, <1>8, <2>6, <4>3, <4>4, <4>5, <4>6 DEF Given
    <3> QED
      BY <3>1, <3>2, <3>3, <3>4 DEF JobOk
  <2>22. callFaults' = 0 => Faultless'
    <3> SUFFICES ASSUME callFaults = 0 PROVE Faultless'
      BY <1>5
    <3>1. Faultless
      BY DEF SidecarInv
    <3>2. \A f \in VectorFields : indices'[f] # NoIndex /\ f \notin job'.todo => stored[f] # NoIndex
      <4>1. \A f \in VectorFields : indices[f] # NoIndex => stored[f] # NoIndex
        BY <1>5, <1>10, <3>1, NoneTouched DEF Faultless, Up
      <4> QED
        BY <1>5, <1>8, <2>9, <4>1
    <3> QED
      BY <1>5, <3>1, <3>2 DEF Faultless
  <2>23. ~lost' => Settled'
    BY <1>5, <2>19 DEF Settled
  <2> QED
    BY <1>5, <2>18, <2>20, <2>21, <2>22, <2>23 DEF SidecarAccounts
<1>12. callFaults' = 0 => ~lost' /\ Faultless'
  <2>1. callFaults = 0 => ~lost
    BY DEF SidecarInv
  <2> QED
    BY <1>5, <1>11, <2>1
<1> QED
  BY <1>5, <1>9, <1>11, <1>12 DEF SidecarInv

\* A batch that ends halfway in memory leaves its ids in doubt, and the others as they are.
LEMMA CreateFailsKeepsInv ==
  ASSUME SidecarInv, NEW n \in Nat, NEW batch \in [1 .. n -> Operations], CreateFails(batch)
  PROVE  SidecarInv'
<1>1. SidecarTypeOK
  BY DEF SidecarInv
<1>2. PICK ops : ops = Numbered(batch)
  OBVIOUS
<1>3. ops \in Seq(Absorbable) /\ Len(batch) \in Nat
  BY <1>1, <1>2, NumberedIs DEF SidecarTypeOK
<1>4. PICK so : so = Absorbing(ops)
  OBVIOUS
<1>5. /\ sidecar = "open" /\ operations' = operations + Len(batch) /\ callFaults' = callFaults + 1
      /\ unsure' = unsure \cup Touched(ops)
      /\ sidecar' = sidecar /\ stored' = stored /\ saved' = saved /\ job' = job /\ truth' = truth
      /\ strays' = strays /\ lost' = lost
  BY <1>2 DEF CreateFails
<1>6. PICK k \in DOMAIN ops :
        /\ manifest' = [next |-> so[k].next, ids |-> so[k].ids]
        /\ \E failing \in (SUBSET {f \in ops[k].fields : so[k - 1].indices[f] = NoIndex}) \ {{}} :
             indices' = [f \in VectorFields |-> IF f \in failing THEN NoIndex ELSE so[k].indices[f]]
  BY <1>2, <1>4 DEF CreateFails
<1>7. PICK failing \in SUBSET {f \in ops[k].fields : so[k - 1].indices[f] = NoIndex} :
        indices' = [f \in VectorFields |-> IF f \in failing THEN NoIndex ELSE so[k].indices[f]]
  BY <1>6
<1>8. k \in 0 .. Len(ops) /\ k - 1 \in 0 .. Len(ops)
  BY <1>3
<1>9. PICK all : all = so[k]
  OBVIOUS
<1>10. all.next \in Nat /\ all.ids \in [VectorIds -> Nat] /\ all.indices \in [VectorFields -> IndexStates]
  BY <1>3, <1>4, <1>8, <1>9, OpenAbsorbing
<1>11. manifest'.next = all.next /\ manifest'.ids = all.ids
  BY <1>6, <1>9
<1>12. \A f \in VectorFields : indices'[f] = IF f \in failing THEN NoIndex ELSE all.indices[f]
  BY <1>7, <1>9
<1>13. Touched(ops) \in SUBSET (VectorFields \X VectorIds)
  BY <1>3, TouchedIs
<1>14. SidecarTypeOK'
  <2>1. manifest' \in [next : Nat, ids : [VectorIds -> Nat]]
    BY <1>6, <1>9, <1>10
  <2>2. indices' \in [VectorFields -> IndexStates]
    BY <1>7, <1>9, <1>10 DEF IndexStates
  <2>3. unsure' \in SUBSET (VectorFields \X VectorIds)
    BY <1>1, <1>5, <1>13 DEF SidecarTypeOK
  <2> QED
    BY <1>1, <1>3, <1>5, <2>1, <2>2, <2>3 DEF SidecarTypeOK
<1>15. job = NoJob
  BY <1>1, <1>5 DEF SidecarTypeOK
<1>16. callFaults' # 0
  BY <1>1, <1>5 DEF SidecarTypeOK
<1>17. SidecarAccounts' /\ (~lost' => Settled')
  <2>1. SidecarAccounts /\ (~lost => Settled)
    BY DEF SidecarInv
  <2>2. PICK ids : ids = IdsUntil(ops, k)
    OBVIOUS
  <2>3. PICK told : told = Telling(ops)[k]
    OBVIOUS
  <2>4. SoFar(all, told, ids)
    BY <1>3, <1>4, <1>5, <1>8, <1>9, <2>2, <2>3, OpenSoFar
  <2>5. SoFar(so[k - 1], Telling(ops)[k - 1], IdsUntil(ops, k - 1))
    BY <1>3, <1>4, <1>5, <1>8, OpenSoFar
  <2>6. ids \in SUBSET VectorIds /\ VectorFields \X ids \subseteq Touched(ops)
    <3>1. ids \subseteq IdsUntil(ops, Len(ops)) /\ IdsUntil(ops, Len(ops)) \in SUBSET VectorIds
          /\ Touched(ops) = VectorFields \X IdsUntil(ops, Len(ops))
      BY <1>3, <1>8, <2>2, TouchedIs
    <3> QED
      BY <3>1
  <2>7. KeysDiffer(all)
    BY <2>4 DEF SoFar
  <2>8. \A id \in VectorIds : all.ids[id] = manifest.ids[id] \/ (manifest.ids[id] = 0 /\ id \in ids)
    BY <2>4 DEF SoFar
  <2>9. \A f \in VectorFields :
          /\ all.indices[f] = indices[f] \/ (indices[f] = NoIndex /\ all.indices[f] = NewIndex /\ all.removals[f] # {})
          /\ all.removals[f] # {} => all.indices[f] # NoIndex
    BY <2>4 DEF SoFar
  <2>10. \A f \in failing : f \in VectorFields => indices[f] = NoIndex
    <3> SUFFICES ASSUME NEW f \in failing, f \in VectorFields PROVE indices[f] = NoIndex
      OBVIOUS
    <3>1. so[k - 1].indices[f] = NoIndex
      BY <1>7
    <3>2. /\ so[k - 1].indices[f] = indices[f] \/ (indices[f] = NoIndex /\ so[k - 1].indices[f] = NewIndex /\ so[k - 1].removals[f] # {})
          /\ so[k - 1].removals[f] # {} => so[k - 1].indices[f] # NoIndex
      BY <2>5 DEF SoFar
    <3> QED
      BY <3>1, <3>2
  <2>11. \A f \in VectorFields :
           /\ indices'[f] = indices[f] \/ (indices[f] = NoIndex /\ indices'[f] = NewIndex)
           /\ indices'[f] = NoIndex => indices[f] = NoIndex
    BY <1>12, <2>9, <2>10
  <2>12. KeysDiffer(manifest) /\ KeysDiffer(saved)
    BY <2>1 DEF SidecarAccounts
  <2>13. 0 \notin Keys /\ \A j \in Keys : NewIndex[j] = 0
    BY KeysArePositive DEF NewIndex
  <2>14. \A id \in VectorIds : manifest.ids[id] # 0 => manifest.ids[id] \in Keys
    <3>1. manifest.ids \in [VectorIds -> Nat] /\ manifest.next \in Nat
      BY <1>1 DEF SidecarTypeOK
    <3> QED
      BY <2>12, <3>1, KeysAreKeys
  <2>15. KeysDiffer(manifest)' /\ KeysDiffer(saved)'
    <3>1. Named(manifest)' = Named(all)
      BY <1>11 DEF Named
    <3>2. KeysDiffer(manifest)'
      BY <1>11, <2>7, <3>1 DEF KeysDiffer
    <3>3. KeysDiffer(saved)'
      BY <1>5, <2>12
    <3> QED
      BY <3>2, <3>3
  <2>16. ASSUME NEW f \in VectorFields, NEW id \in VectorIds, ~lost, <<f, id>> \notin Doubted'
         PROVE  OnDisk(f, id)' /\ InMemory(f, id)'
    <3>1. <<f, id>> \notin Doubted /\ <<f, id>> \notin Touched(ops)
      BY <1>5, <2>16 DEF Doubted
    <3>2. OnDisk(f, id) /\ InMemory(f, id)
      BY <1>5, <2>1, <2>16, <3>1 DEF Settled, Up
    <3>3. OnDisk(f, id)'
      BY <1>5, <3>2 DEF OnDisk, DiskVector
    <3>4. all.ids[id] = manifest.ids[id]
      BY <2>6, <2>8, <3>1
    <3>5. VectorOf(f, id)' = VectorOf(f, id)
      BY <1>11, <2>11, <2>13, <2>14, <3>4 DEF VectorOf
    <3>6. InMemory(f, id)'
      BY <1>5, <1>11, <3>2, <3>4, <3>5 DEF InMemory
    <3> QED
      BY <3>3, <3>6
  <2>17. ASSUME NEW f \in VectorFields, NEW j \in Keys PROVE Alike(f, j)' /\ Unknown(f, j)'
    <3>1. Alike(f, j) /\ Unknown(f, j)
      BY <1>5, <2>1 DEF SidecarAccounts, Up
    <3>2. \A id \in VectorIds : manifest.ids[id] = j => all.ids[id] = j
      BY <2>8, <2>13
    <3>3. Unknown(f, j)'
      BY <1>5, <1>11, <2>11, <2>13, <3>1, <3>2 DEF Unknown
    <3>4. Alike(f, j)'
      <4>1. CASE indices'[f] = indices[f]
        BY <1>5, <1>11, <1>15, <3>1, <3>2, <4>1 DEF Alike
      <4>2. CASE indices[f] = NoIndex /\ indices'[f] = NewIndex
        <5>1. stored[f] = NoIndex \/ stored[f][j] = 0 \/ <<f, j>> \in strays
          BY <3>1, <4>2 DEF Unknown
        <5> QED
          BY <1>5, <2>13, <4>2, <5>1 DEF Alike
      <4> QED
        BY <2>11, <4>1, <4>2
    <3> QED
      BY <3>3, <3>4
  <2>18. ~lost' => Settled'
    BY <1>5, <2>16 DEF Settled
  <2> QED
    BY <1>5, <2>15, <2>17, <2>18 DEF SidecarAccounts
<1> QED
  BY <1>5, <1>14, <1>16, <1>17 DEF SidecarInv

\* What a batch makes of the index of a field, key by key.
LEMMA AppliedIs ==
  ASSUME SidecarInv, sidecar = "applying", NEW f \in job.todo
  PROVE  /\ f \in VectorFields /\ indices[f] # NoIndex
         /\ Applied(f) \in IndexStates /\ Applied(f) # NoIndex
         /\ Removed(f) \in IndexStates /\ Removed(f) # NoIndex
         /\ \A k \in Keys : Removed(f)[k] = IF k \in job.removals[f] THEN 0 ELSE indices[f][k]
         /\ \A k \in Keys :
              Applied(f)[k] = IF job.additions[f][k] # 0 THEN job.additions[f][k]
                              ELSE IF k \in job.removals[f] THEN 0 ELSE indices[f][k]
<1>1. SidecarTypeOK /\ JobOk
  BY DEF SidecarInv, SidecarAccounts
<1>2. job \in Jobs
  BY <1>1 DEF SidecarTypeOK
<1>3. f \in VectorFields /\ job.additions[f] \in [Keys -> Nat] /\ job.removals[f] \in SUBSET Nat
  BY <1>2 DEF Jobs
<1>4. \A k \in Keys : Removed(f)[k] = IF k \in job.removals[f] THEN 0 ELSE indices[f][k]
  BY DEF Removed
<1>5. \A k \in Keys :
        Applied(f)[k] = IF job.additions[f][k] # 0 THEN job.additions[f][k]
                        ELSE IF k \in job.removals[f] THEN 0 ELSE indices[f][k]
  BY <1>4 DEF Applied
<1>6. indices[f] # NoIndex /\ job.removals[f] # {}
  BY <1>1 DEF JobOk
<1>7. indices[f] \in [Keys -> Nat]
  BY <1>1, <1>3, <1>6 DEF SidecarTypeOK, IndexStates
<1>8. PICK k \in Keys : TRUE
  BY <1>1, <1>3, <1>6 DEF JobOk
<1>9. Removed(f) \in [Keys -> Nat]
  BY <1>7 DEF Removed
<1>10. Applied(f) \in [Keys -> Nat]
  BY <1>3, <1>9 DEF Applied
<1>11. Applied(f) # NoIndex /\ Removed(f) # NoIndex
  BY <1>8, <1>9, <1>10, IndexIsSome
<1> QED
  BY <1>3, <1>4, <1>5, <1>6, <1>9, <1>10, <1>11 DEF IndexStates

\* An id that the batch does not have: its key is not the batch's, in any field.
LEMMA OthersKeys ==
  ASSUME SidecarInv, sidecar = "applying", NEW f \in job.todo, NEW id \in VectorIds,
         <<f, id>> \notin Touched(job.ops), manifest.ids[id] # 0
  PROVE  /\ manifest.ids[id] \in Keys /\ manifest.ids[id] \notin job.removals[f]
         /\ Applied(f)[manifest.ids[id]] = indices[f][manifest.ids[id]]
         /\ Removed(f)[manifest.ids[id]] = indices[f][manifest.ids[id]]
<1>1. SidecarTypeOK /\ JobOk /\ KeysDiffer(manifest)
  BY DEF SidecarInv, SidecarAccounts
<1>2. manifest.ids \in [VectorIds -> Nat] /\ manifest.next \in Nat
  BY <1>1 DEF SidecarTypeOK
<1>3. manifest.ids[id] \in Keys /\ manifest.ids[id] \in Nat
  BY <1>1, <1>2, KeysAreKeys
<1>4. f \in VectorFields
  BY AppliedIs
<1>5. \A other \in VectorIds : manifest.ids[other] = manifest.ids[id] => other = id
  BY <1>1 DEF KeysDiffer
<1>6. manifest.ids[id] \notin job.removals[f]
  BY <1>1, <1>3, <1>4, <1>5 DEF JobOk
<1>7. job.additions[f][manifest.ids[id]] = 0
  BY <1>1, <1>3, <1>4, <1>5 DEF JobOk
<1> QED
  BY <1>3, <1>6, <1>7, AppliedIs

\* A field of the batch is saved: index and file are one, and strays that it took are gone.
LEMMA SaveKeepsInv ==
  ASSUME SidecarInv, NEW f \in VectorFields, SaveField(f)
  PROVE  SidecarInv'
<1>1. SidecarTypeOK /\ SidecarAccounts /\ (~lost => Settled)
  BY DEF SidecarInv
<1>2. sidecar = "applying" /\ f \in job.todo /\ job \in Jobs
  BY <1>1 DEF SaveField, SidecarTypeOK
<1>3. JobOk /\ KeysDiffer(manifest) /\ KeysDiffer(saved)
  BY <1>1, <1>2 DEF SidecarAccounts
<1>4. PICK new : new = Applied(f)
  OBVIOUS
<1>5. /\ indices' = [indices EXCEPT ![f] = new] /\ stored' = [stored EXCEPT ![f] = new]
      /\ job' = [job EXCEPT !.todo = @ \ {f}]
      /\ strays' = {s \in strays : s[1] = f => s[2] \notin job.removals[f] /\ new[s[2]] # 0}
      /\ sidecar' = sidecar /\ manifest' = manifest /\ saved' = saved /\ operations' = operations
      /\ callFaults' = callFaults /\ truth' = truth /\ unsure' = unsure /\ lost' = lost
  BY <1>4 DEF SaveField
<1>6. new \in IndexStates /\ new # NoIndex /\ indices[f] # NoIndex
  BY <1>2, <1>4, AppliedIs
<1>7. \A k \in Keys : new[k] = IF job.additions[f][k] # 0 THEN job.additions[f][k]
                               ELSE IF k \in job.removals[f] THEN 0 ELSE indices[f][k]
  BY <1>2, <1>4, AppliedIs
<1>8. /\ job' \in Jobs /\ job'.ops = job.ops /\ job'.removals = job.removals
      /\ job'.additions = job.additions /\ job'.todo = job.todo \ {f}
  <2>1. /\ job.ops \in Seq(Absorbable) /\ job.todo \in SUBSET VectorFields
        /\ job.removals \in [VectorFields -> SUBSET Nat] /\ job.additions \in [VectorFields -> [Keys -> Nat]]
        /\ job = [ops |-> job.ops, todo |-> job.todo, removals |-> job.removals, additions |-> job.additions]
    BY <1>2 DEF Jobs
  <2>2. job' = [ops |-> job.ops, todo |-> job.todo \ {f}, removals |-> job.removals, additions |-> job.additions]
    BY <1>5, <2>1
  <2> QED
    BY <2>1, <2>2 DEF Jobs
<1>9. /\ indices \in [VectorFields -> IndexStates] /\ stored \in [VectorFields -> IndexStates]
      /\ strays \in SUBSET (VectorFields \X Keys)
  BY <1>1 DEF SidecarTypeOK
<1>10. /\ indices'[f] = new /\ stored'[f] = new
       /\ \A g \in VectorFields : g # f => indices'[g] = indices[g] /\ stored'[g] = stored[g]
  BY <1>5, <1>9
<1>11. SidecarTypeOK'
  <2>1. indices' \in [VectorFields -> IndexStates] /\ stored' \in [VectorFields -> IndexStates]
    BY <1>5, <1>6, <1>9
  <2>2. strays' \in SUBSET (VectorFields \X Keys)
    BY <1>5, <1>9
  <2> QED
    BY <1>1, <1>2, <1>5, <1>8, <2>1, <2>2 DEF SidecarTypeOK
<1>12. \A g \in VectorFields : \A k : g # f => (<<g, k>> \in strays' <=> <<g, k>> \in strays)
  BY <1>5
<1>13. \A k : <<f, k>> \in strays' <=> <<f, k>> \in strays /\ k \notin job.removals[f] /\ new[k] # 0
  BY <1>5
<1>14. 0 \notin Keys /\ \A g \in VectorFields : <<g, 0>> \notin strays
  BY <1>9, KeysArePositive
<1>15. Final' = Final
  <2>1. PICK ops : ops = job.ops
    OBVIOUS
  <2>2. Telling(ops)' = Telling(ops)
    BY <1>5 DEF Telling
  <2> QED
    BY <1>8, <2>1, <2>2 DEF Final
<1>16. Doubted' = Doubted
  BY <1>5, <1>8 DEF Doubted
<1>17. \A id \in VectorIds : manifest.ids[id] # 0 => manifest.ids[id] \in Keys
  <2>1. manifest.ids \in [VectorIds -> Nat] /\ manifest.next \in Nat
    BY <1>1 DEF SidecarTypeOK
  <2> QED
    BY <1>3, <2>1, KeysAreKeys
<1>18. ASSUME NEW g \in VectorFields, NEW id \in VectorIds, ~lost, <<g, id>> \notin Doubted'
       PROVE  OnDisk(g, id)' /\ InMemory(g, id)'
  <2>1. OnDisk(g, id) /\ InMemory(g, id)
    BY <1>1, <1>2, <1>16, <1>18 DEF Settled, Up
  <2>2. CASE g # f
    <3>1. VectorOf(g, id)' = VectorOf(g, id) /\ DiskVector(g, id)' = DiskVector(g, id)
      BY <1>5, <1>10, <2>2 DEF VectorOf, DiskVector
    <3>2. stored'[g] = stored[g] /\ \A k : <<g, k>> \in strays' <=> <<g, k>> \in strays
      BY <1>10, <1>12, <2>2
    <3>3. OnDisk(g, id)'
      BY <1>5, <2>1, <3>1, <3>2 DEF OnDisk
    <3>4. InMemory(g, id)'
      BY <1>5, <2>1, <3>1, <3>2 DEF InMemory
    <3> QED
      BY <3>3, <3>4
  <2>3. CASE g = f
    <3>1. PICK k : k = manifest.ids[id]
      OBVIOUS
    <3>2. saved.ids[id] = k
      BY <2>1, <3>1 DEF InMemory
    <3>3. <<f, id>> \notin Touched(job.ops)
      BY <1>16, <1>18, <2>3 DEF Doubted
    <3>4. k # 0 => k \in Keys /\ k \notin job.removals[f] /\ new[k] = indices[f][k]
      BY <1>2, <1>4, <3>1, <3>3, OthersKeys
    <3>5. VectorOf(f, id) = IF k = 0 THEN 0 ELSE indices[f][k]
      BY <1>6, <3>1 DEF VectorOf
    <3>6. VectorOf(f, id)' = IF k = 0 THEN 0 ELSE new[k]
      BY <1>5, <1>6, <1>10, <3>1 DEF VectorOf
    <3>7. <<f, k>> \in strays => truth[f][id] = 0
      BY <2>1, <2>3, <3>2 DEF OnDisk
    <3>8. <<f, k>> \notin strays => VectorOf(f, id) = truth[f][id]
      BY <2>1, <2>3, <3>1 DEF InMemory
    <3>9. <<f, k>> \in strays => k # 0
      BY <1>14
    <3>10. <<f, k>> \notin strays' => VectorOf(f, id)' = truth[f][id]
      <4>1. CASE <<f, k>> \in strays
        BY <1>13, <3>4, <3>6, <3>7, <3>9, <4>1
      <4>2. CASE <<f, k>> \notin strays
        BY <3>4, <3>5, <3>6, <3>8, <4>2
      <4> QED
        BY <4>1, <4>2
    <3>11. DiskVector(f, id)' = IF k = 0 \/ f \notin saved.fields THEN 0 ELSE new[k]
      BY <1>5, <1>10, <3>2 DEF DiskVector
    <3>12. f \notin saved.fields => truth[f][id] = 0
      BY <2>1, <2>3 DEF OnDisk, DiskVector
    <3>13. <<f, k>> \notin strays' => DiskVector(f, id)' = truth[f][id]
      BY <3>6, <3>10, <3>11, <3>12
    <3>14. OnDisk(f, id)'
      BY <1>5, <1>13, <3>2, <3>7, <3>13 DEF OnDisk
    <3>15. InMemory(f, id)'
      BY <1>5, <3>1, <3>2, <3>10 DEF InMemory
    <3> QED
      BY <2>3, <3>14, <3>15
  <2> QED
    BY <2>2, <2>3
<1>19. ASSUME NEW g \in VectorFields, NEW k \in Keys PROVE Alike(g, k)' /\ Unknown(g, k)'
  <2>1. Alike(g, k) /\ Unknown(g, k)
    BY <1>1, <1>2 DEF SidecarAccounts, Up
  <2>2. CASE g # f
    <3>1. /\ indices'[g] = indices[g] /\ stored'[g] = stored[g]
          /\ <<g, k>> \in strays' <=> <<g, k>> \in strays
          /\ g \in job.todo => g \in job'.todo
      BY <1>8, <1>10, <1>12, <2>2
    <3>2. Alike(g, k)'
      BY <1>5, <1>8, <2>1, <3>1 DEF Alike
    <3>3. Unknown(g, k)'
      BY <1>5, <2>1, <3>1 DEF Unknown
    <3> QED
      BY <3>2, <3>3
  <2>3. CASE g = f
    <3>1. Alike(f, k)'
      BY <1>10 DEF Alike
    <3>2. ASSUME new[k] # 0, \A id \in VectorIds : manifest.ids[id] # k PROVE <<f, k>> \in strays'
      <4>1. k \notin job.removals[f] /\ job.additions[f][k] = 0
        BY <1>3, <3>2, KeysArePositive DEF JobOk
      <4>2. new[k] = indices[f][k]
        BY <1>7, <4>1
      <4>3. <<f, k>> \in strays
        BY <1>6, <2>1, <2>3, <3>2, <4>2 DEF Unknown
      <4> QED
        BY <1>13, <3>2, <4>1, <4>3
    <3>3. Unknown(f, k)'
      BY <1>5, <1>6, <1>10, <3>2 DEF Unknown
    <3> QED
      BY <2>3, <3>1, <3>3
  <2> QED
    BY <2>2, <2>3
<1>20. ASSUME NEW g \in VectorFields, NEW id \in VectorIds, <<g, id>> \in Touched(job.ops)
       PROVE  Given(g, id)'
  <2>1. Given(g, id)
    BY <1>3, <1>20 DEF JobOk
  <2>2. CASE g # f
    <3>1. /\ indices'[g] = indices[g] /\ (g \in job.todo <=> g \in job'.todo)
          /\ \A k : <<g, k>> \in strays' <=> <<g, k>> \in strays
      BY <1>8, <1>10, <1>12, <2>2
    <3> QED
      BY <1>5, <1>8, <1>15, <2>1, <3>1 DEF Given
  <2>3. CASE g = f
    <3>1. PICK k : k = manifest.ids[id]
      OBVIOUS
    <3>2. PICK v : v = Final[f][id]
      OBVIOUS
    <3>3. k = 0 => v = 0
      BY <2>1, <2>3, <3>1, <3>2 DEF Given
    <3>4. k # 0 => /\ job.additions[f][k] = v
                   /\ k \notin job.removals[f] => v = 0 /\ (indices[f][k] = 0 \/ <<f, k>> \in strays)
      BY <1>2, <1>6, <2>1, <2>3, <3>1, <3>2 DEF Given
    <3>5. k # 0 /\ <<f, k>> \in strays' => v = 0
      BY <1>13, <3>4
    <3>6. k # 0 /\ <<f, k>> \notin strays' => new[k] = v
      BY <1>7, <1>13, <1>17, <3>1, <3>4
    <3>7. f \notin job'.todo /\ indices'[f] # NoIndex
      BY <1>6, <1>8, <1>10
    <3> QED
      BY <1>5, <1>10, <1>15, <2>3, <3>1, <3>2, <3>3, <3>5, <3>6, <3>7 DEF Given
  <2> QED
    BY <2>2, <2>3
<1>21. JobOk'
  <2>1. \A g \in job'.todo : indices'[g] # NoIndex /\ job'.removals[g] # {}
    <3>1. \A g \in job'.todo : g \in job.todo /\ g # f /\ g \in VectorFields
      BY <1>2, <1>8 DEF Jobs
    <3> QED
      BY <1>3, <1>8, <1>10, <3>1 DEF JobOk
  <2> QED
    BY <1>3, <1>5, <1>8, <1>20, <2>1 DEF JobOk
<1>22. callFaults' = 0 => ~lost' /\ Faultless'
  <2> SUFFICES ASSUME callFaults = 0 PROVE ~lost /\ Faultless'
    BY <1>5
  <2>1. ~lost /\ Faultless
    BY DEF SidecarInv
  <2>2. \A g \in saved.fields : stored'[g] # NoIndex
    <3>1. saved.fields \in SUBSET VectorFields
      BY <1>1 DEF SidecarTypeOK
    <3> QED
      BY <1>6, <1>10, <2>1, <3>1 DEF Faultless
  <2>3. \A g \in VectorFields : indices'[g] # NoIndex /\ g \notin job'.todo => stored'[g] # NoIndex
    BY <1>2, <1>6, <1>8, <1>10, <2>1 DEF Faultless, Up
  <2> QED
    BY <1>2, <1>5, <2>1, <2>2, <2>3 DEF Faultless
<1>23. ~lost' => Settled'
  BY <1>5, <1>18 DEF Settled
<1>24. KeysDiffer(manifest)' /\ KeysDiffer(saved)'
  BY <1>3, <1>5
<1> QED
  BY <1>11, <1>19, <1>21, <1>22, <1>23, <1>24 DEF SidecarInv, SidecarAccounts

\* Who is not in a batch has afterwards what it had.
LEMMA UntoldIs ==
  ASSUME NEW ops \in Seq(Absorbable), truth \in TruthStates
  PROVE  \A f \in VectorFields, id \in VectorIds :
           <<f, id>> \notin Touched(ops) => Telling(ops)[Len(ops)][f][id] = truth[f][id]
<1>1. PICK told : told = Telling(ops)
  OBVIOUS
<1>2. /\ told[0] = truth
      /\ \A k \in 1 .. Len(ops) : told[k] = Told(told[k - 1], ops[k])
      /\ \A k \in 0 .. Len(ops) : told[k] \in TruthStates
  BY <1>1, TellingIs
<1>3. Len(ops) \in Nat /\ \A k \in 1 .. Len(ops) : ops[k] \in Absorbable
  OBVIOUS
<1>4. Touched(ops) = VectorFields \X IdsUntil(ops, Len(ops))
  BY TouchedIs
<1> DEFINE G == {k \in 0 .. Len(ops) : \A f \in VectorFields, id \in VectorIds :
                   id \notin IdsUntil(ops, Len(ops)) => told[k][f][id] = truth[f][id]}
<1>5. 0 \in G
  BY <1>2, <1>3
<1>6. ASSUME NEW k \in 1 .. Len(ops), k - 1 \in G PROVE k \in G
  <2>1. k - 1 \in 0 .. Len(ops) /\ k \in 0 .. Len(ops)
    OBVIOUS
  <2>2. told[k] = Told(told[k - 1], ops[k]) /\ told[k - 1] \in TruthStates /\ ops[k] \in Absorbable
    BY <1>2, <1>3, <2>1
  <2>3. ops[k].id \in IdsUntil(ops, Len(ops))
    BY DEF IdsUntil
  <2>4. \A f \in VectorFields, id \in VectorIds :
          id \notin IdsUntil(ops, Len(ops)) => told[k][f][id] = told[k - 1][f][id]
    <3>1. PICK so \in TruthStates, op \in Absorbable : so = told[k - 1] /\ op = ops[k]
      BY <2>2
    <3>2. \A f \in VectorFields, id \in VectorIds : id # op.id => Told(so, op)[f][id] = so[f][id]
      BY ToldIs
    <3> QED
      BY <2>2, <2>3, <3>1, <3>2
  <2> QED
    BY <1>6, <2>1, <2>4
<1> HIDE DEF G
<1>7. \A k \in 0 .. Len(ops) : k \in G
  BY <1>3, <1>5, <1>6, OneByOne
<1>8. Len(ops) \in 0 .. Len(ops)
  BY <1>3
<1>9. Len(ops) \in G
  BY <1>7, <1>8
<1> QED
  BY <1>1, <1>4, <1>9 DEF G

\* One call that fails: the field may be halfway, and its file gone, but only for the batch's ids.
LEMMA FieldFailsKeepsInv ==
  ASSUME SidecarInv, NEW f \in VectorFields, FieldFails(f)
  PROVE  SidecarInv'
<1>1. SidecarTypeOK /\ SidecarAccounts /\ (~lost => Settled)
  BY DEF SidecarInv
<1>2. sidecar = "applying" /\ f \in job.todo /\ job \in Jobs
  BY <1>1 DEF FieldFails, SidecarTypeOK
<1>3. JobOk /\ KeysDiffer(manifest) /\ KeysDiffer(saved)
  BY <1>1, <1>2 DEF SidecarAccounts
<1>4. /\ callFaults' = callFaults + 1 /\ sidecar' = "open" /\ job' = NoJob
      /\ unsure' = unsure \cup Touched(job.ops)
      /\ manifest' = manifest /\ operations' = operations /\ truth' = truth /\ strays' = strays
      /\ saved' = saved /\ lost' = lost
  BY DEF FieldFails, GiveUp
<1>5. \E now \in {indices[f], Removed(f), Applied(f)} :
        /\ indices' = [indices EXCEPT ![f] = now]
        /\ stored' = stored \/ stored' = [stored EXCEPT ![f] = NoIndex]
  BY DEF FieldFails
<1>6. PICK now \in {indices[f], Removed(f), Applied(f)} :
        /\ indices' = [indices EXCEPT ![f] = now]
        /\ stored' = stored \/ stored' = [stored EXCEPT ![f] = NoIndex]
  BY <1>5
<1>7. /\ indices \in [VectorFields -> IndexStates] /\ stored \in [VectorFields -> IndexStates]
      /\ strays \in SUBSET (VectorFields \X Keys)
  BY <1>1 DEF SidecarTypeOK
<1>8. now \in IndexStates /\ now # NoIndex /\ indices[f] # NoIndex
  BY <1>2, <1>7, AppliedIs
<1>9. \A k \in Keys : k \notin job.removals[f] /\ job.additions[f][k] = 0 => now[k] = indices[f][k]
  BY <1>2, AppliedIs
<1>10. /\ indices'[f] = now
       /\ \A g \in VectorFields : g # f => indices'[g] = indices[g] /\ stored'[g] = stored[g]
       /\ stored'[f] = stored[f] \/ stored'[f] = NoIndex
  BY <1>6, <1>7
<1>11. job.ops \in Seq(Absorbable) /\ Touched(job.ops) \in SUBSET (VectorFields \X VectorIds)
  <2>1. job.ops \in Seq(Absorbable)
    BY <1>2 DEF Jobs
  <2> QED
    BY <2>1, TouchedIs
<1>12. SidecarTypeOK'
  <2>1. indices' \in [VectorFields -> IndexStates]
    BY <1>6, <1>7, <1>8
  <2>2. stored' \in [VectorFields -> IndexStates]
    BY <1>6, <1>7 DEF IndexStates
  <2>3. unsure' \in SUBSET (VectorFields \X VectorIds)
    BY <1>1, <1>4, <1>11 DEF SidecarTypeOK
  <2> QED
    BY <1>1, <1>4, <2>1, <2>2, <2>3 DEF SidecarTypeOK
<1>13. Doubted' = Doubted /\ Touched(job'.ops) = {}
  BY <1>4, NoneTouched DEF Doubted
<1>14. ASSUME NEW g \in VectorFields, NEW id \in VectorIds, ~lost, <<g, id>> \notin Doubted'
       PROVE  OnDisk(g, id)' /\ InMemory(g, id)'
  <2>1. OnDisk(g, id) /\ InMemory(g, id) /\ <<g, id>> \notin Touched(job.ops)
    BY <1>1, <1>2, <1>13, <1>14 DEF Settled, Up, Doubted
  <2>2. OnDisk(g, id)'
    <3>1. stored'[g] = stored[g] \/ stored'[g] = NoIndex
      BY <1>10
    <3> QED
      BY <1>4, <2>1, <3>1 DEF OnDisk, DiskVector
  <2>3. VectorOf(g, id)' = VectorOf(g, id)
    <3>1. CASE g # f
      BY <1>4, <1>10, <3>1 DEF VectorOf
    <3>2. CASE g = f /\ manifest.ids[id] = 0
      BY <1>4, <3>2 DEF VectorOf
    <3>3. CASE g = f /\ manifest.ids[id] # 0
      <4>1. now[manifest.ids[id]] = indices[f][manifest.ids[id]]
        BY <1>2, <2>1, <3>3, OthersKeys
      <4> QED
        BY <1>4, <1>8, <1>10, <3>3, <4>1 DEF VectorOf
    <3> QED
      BY <3>1, <3>2, <3>3
  <2>4. InMemory(g, id)'
    BY <1>4, <2>1, <2>3 DEF InMemory
  <2> QED
    BY <2>2, <2>4
<1>15. ASSUME NEW g \in VectorFields, NEW k \in Keys PROVE Alike(g, k)' /\ Unknown(g, k)'
  <2>1. Alike(g, k) /\ Unknown(g, k)
    BY <1>1, <1>2 DEF SidecarAccounts, Up
  <2>2. CASE g # f
    <3>1. indices'[g] = indices[g] /\ stored'[g] = stored[g]
      BY <1>10, <2>2
    <3>2. Alike(g, k)'
      BY <1>4, <1>13, <2>1, <3>1 DEF Alike
    <3>3. Unknown(g, k)'
      BY <1>4, <2>1, <3>1 DEF Unknown
    <3> QED
      BY <3>2, <3>3
  <2>3. CASE g = f
    <3>1. CASE k \in job.removals[f] \/ job.additions[f][k] # 0
      <4>1. PICK id \in VectorIds : manifest.ids[id] = k /\ <<f, id>> \in Touched(job.ops)
        BY <1>3, <3>1, KeysArePositive DEF JobOk
      <4>2. Alike(f, k)'
        BY <1>4, <1>13, <4>1 DEF Alike
      <4>3. Unknown(f, k)'
        BY <1>4, <1>8, <1>10, <4>1 DEF Unknown
      <4> QED
        BY <2>3, <4>2, <4>3
    <3>2. CASE k \notin job.removals[f] /\ job.additions[f][k] = 0
      <4>1. now[k] = indices[f][k]
        BY <1>9, <3>2
      <4>2. Alike(f, k)'
        BY <1>4, <1>8, <1>10, <1>13, <2>1, <2>3, <4>1 DEF Alike
      <4>3. Unknown(f, k)'
        BY <1>4, <1>8, <1>10, <2>1, <2>3, <4>1 DEF Unknown
      <4> QED
        BY <2>3, <4>2, <4>3
    <3> QED
      BY <3>1, <3>2
  <2> QED
    BY <2>2, <2>3
<1>16. callFaults' # 0
  BY <1>1, <1>4 DEF SidecarTypeOK
<1>17. ~lost' => Settled'
  BY <1>4, <1>14 DEF Settled
<1>18. KeysDiffer(manifest)' /\ KeysDiffer(saved)'
  BY <1>3, <1>4
<1> QED
  BY <1>4, <1>12, <1>15, <1>16, <1>17, <1>18 DEF SidecarInv, SidecarAccounts

\* The manifest is not written: the old one stays, or there is none.
LEMMA ManifestFailsKeepsInv == SidecarInv /\ ManifestFails => SidecarInv'
<1> SUFFICES ASSUME SidecarInv, ManifestFails PROVE SidecarInv'
  OBVIOUS
<1>1. SidecarTypeOK /\ SidecarAccounts /\ (~lost => Settled)
  BY DEF SidecarInv
<1>2. sidecar = "applying" /\ job \in Jobs
  BY <1>1 DEF ManifestFails, SidecarTypeOK
<1>3. /\ callFaults' = callFaults + 1 /\ sidecar' = "open" /\ job' = NoJob
      /\ unsure' = unsure \cup Touched(job.ops)
      /\ manifest' = manifest /\ operations' = operations /\ truth' = truth /\ strays' = strays
      /\ indices' = indices /\ stored' = stored
      /\ (saved' = saved /\ lost' = lost) \/ (saved' = NoManifest /\ lost' = TRUE)
  BY DEF ManifestFails, GiveUp
<1>4. job.ops \in Seq(Absorbable) /\ Touched(job.ops) \in SUBSET (VectorFields \X VectorIds)
  <2>1. job.ops \in Seq(Absorbable)
    BY <1>2 DEF Jobs
  <2> QED
    BY <2>1, TouchedIs
<1>5. NoKeys \in [VectorIds -> Nat] /\ \A id \in VectorIds : NoKeys[id] = 0
  BY DEF NoKeys
<1>6. SidecarTypeOK'
  <2>1. unsure' \in SUBSET (VectorFields \X VectorIds)
    BY <1>1, <1>3, <1>4 DEF SidecarTypeOK
  <2>2. saved' \in [next : Nat, ids : [VectorIds -> Nat], fields : SUBSET VectorFields]
    BY <1>1, <1>3, <1>5 DEF SidecarTypeOK, NoManifest
  <2>3. lost' \in BOOLEAN
    <3>1. lost \in BOOLEAN
      BY <1>1 DEF SidecarTypeOK
    <3>2. lost' = lost \/ lost' = TRUE
      BY <1>3
    <3> QED
      BY <3>1, <3>2, Zenon
  <2> QED
    BY <1>1, <1>3, <2>1, <2>2, <2>3 DEF SidecarTypeOK
<1>7. Doubted' = Doubted /\ Touched(job'.ops) = {}
  BY <1>3, NoneTouched DEF Doubted
<1>8. KeysDiffer(manifest)' /\ KeysDiffer(saved)'
  <2>1. KeysDiffer(manifest) /\ KeysDiffer(saved)
    BY <1>1 DEF SidecarAccounts
  <2>2. KeysDiffer(NoManifest)
    <3>1. NoManifest.next = 1 /\ NoManifest.ids = NoKeys
      BY DEF NoManifest
    <3>2. Named(NoManifest) = {}
      BY <1>5, <3>1 DEF Named
    <3>3. Cardinality(Named(NoManifest)) = 0
      BY <3>2, FS_EmptySet
    <3> QED
      BY <1>5, <3>1, <3>3 DEF KeysDiffer
  <2> QED
    BY <1>3, <2>1, <2>2
<1>9. ~lost' => Settled'
  <2> SUFFICES ASSUME ~lost', NEW g \in VectorFields, NEW id \in VectorIds, <<g, id>> \notin Doubted'
               PROVE  OnDisk(g, id)' /\ InMemory(g, id)'
    BY DEF Settled
  <2>1. saved' = saved /\ ~lost
    BY <1>3
  <2>2. OnDisk(g, id) /\ InMemory(g, id)
    BY <1>1, <1>2, <1>7, <2>1 DEF Settled, Up
  <2>3. OnDisk(g, id)'
    BY <1>3, <2>1, <2>2 DEF OnDisk, DiskVector
  <2>4. InMemory(g, id)'
    BY <1>3, <2>1, <2>2 DEF InMemory, VectorOf
  <2> QED
    BY <2>3, <2>4
<1>10. ASSUME NEW g \in VectorFields, NEW k \in Keys PROVE Alike(g, k)' /\ Unknown(g, k)'
  <2>1. Alike(g, k) /\ Unknown(g, k)
    BY <1>1, <1>2 DEF SidecarAccounts, Up
  <2>2. Alike(g, k)'
    BY <1>3, <1>7, <2>1 DEF Alike
  <2>3. Unknown(g, k)'
    BY <1>3, <2>1 DEF Unknown
  <2> QED
    BY <2>2, <2>3
<1>11. callFaults' # 0
  BY <1>1, <1>3 DEF SidecarTypeOK
<1> QED
  BY <1>3, <1>6, <1>8, <1>9, <1>10, <1>11 DEF SidecarInv, SidecarAccounts

\* The manifest ends a batch: what it gave its ids is in memory and in the directory.
LEMMA WriteKeepsInv == SidecarInv /\ WriteManifest => SidecarInv'
<1> SUFFICES ASSUME SidecarInv, WriteManifest PROVE SidecarInv'
  OBVIOUS
<1>1. SidecarTypeOK /\ SidecarAccounts /\ (~lost => Settled)
  BY DEF SidecarInv
<1>2. sidecar = "applying" /\ job \in Jobs /\ job.todo = {}
  BY <1>1 DEF WriteManifest, SidecarTypeOK
<1>3. JobOk /\ KeysDiffer(manifest) /\ KeysDiffer(saved)
  BY <1>1, <1>2 DEF SidecarAccounts
<1>4. /\ saved' = [next |-> manifest.next, ids |-> manifest.ids,
                   fields |-> {f \in VectorFields : indices[f] # NoIndex}]
      /\ sidecar' = "open" /\ job' = NoJob /\ truth' = Final /\ unsure' = unsure \ Touched(job.ops)
      /\ manifest' = manifest /\ indices' = indices /\ stored' = stored /\ operations' = operations
      /\ callFaults' = callFaults /\ strays' = strays /\ lost' = lost
  BY DEF WriteManifest, Final
<1>5. /\ saved'.next = manifest.next /\ saved'.ids = manifest.ids
      /\ \A f \in VectorFields : f \in saved'.fields <=> indices[f] # NoIndex
      /\ saved'.fields \in SUBSET VectorFields
  BY <1>4
<1>6. job.ops \in Seq(Absorbable) /\ truth \in TruthStates
  BY <1>1, <1>2 DEF Jobs, SidecarTypeOK
<1>7. Final \in TruthStates
  <2>1. Len(job.ops) \in 0 .. Len(job.ops)
    BY <1>6
  <2> QED
    BY <1>6, <2>1, TellingIs DEF Final
<1>8. \A f \in VectorFields, id \in VectorIds :
        <<f, id>> \notin Touched(job.ops) => Final[f][id] = truth[f][id]
  BY <1>6, UntoldIs DEF Final
<1>9. Doubted = unsure \cup Touched(job.ops) /\ Doubted' = unsure \ Touched(job.ops) /\ Touched(job'.ops) = {}
  BY <1>4, NoneTouched DEF Doubted
<1>10. SidecarTypeOK'
  <2>1. saved' \in [next : Nat, ids : [VectorIds -> Nat], fields : SUBSET VectorFields]
    BY <1>1, <1>4 DEF SidecarTypeOK
  <2>2. unsure' \in SUBSET (VectorFields \X VectorIds)
    BY <1>1, <1>4 DEF SidecarTypeOK
  <2> QED
    BY <1>1, <1>4, <1>7, <2>1, <2>2 DEF SidecarTypeOK
<1>11. \A id \in VectorIds : manifest.ids[id] # 0 => manifest.ids[id] \in Keys
  <2>1. manifest.ids \in [VectorIds -> Nat] /\ manifest.next \in Nat
    BY <1>1 DEF SidecarTypeOK
  <2> QED
    BY <1>3, <2>1, KeysAreKeys
<1>12. \A f \in VectorFields : <<f, 0>> \notin strays
  <2>1. strays \in SUBSET (VectorFields \X Keys) /\ 0 \notin Keys
    BY <1>1, KeysArePositive DEF SidecarTypeOK
  <2> QED
    BY <2>1
<1>13. ASSUME NEW f \in VectorFields, NEW id \in VectorIds, ~lost, <<f, id>> \notin Doubted'
       PROVE  OnDisk(f, id)' /\ InMemory(f, id)'
  <2>1. PICK k : k = manifest.ids[id]
    OBVIOUS
  <2>2. PICK v : v = Final[f][id]
    OBVIOUS
  <2>3. VectorOf(f, id) = IF k = 0 \/ indices[f] = NoIndex THEN 0 ELSE indices[f][k]
    BY <2>1 DEF VectorOf
  <2>4. (<<f, k>> \in strays => v = 0) /\ (<<f, k>> \notin strays => VectorOf(f, id) = v)
    <3>1. CASE <<f, id>> \in Touched(job.ops)
      <4>1. Given(f, id)
        BY <1>3, <3>1 DEF JobOk
      <4>2. k = 0 \/ indices[f] = NoIndex => v = 0
        BY <2>1, <2>2, <4>1 DEF Given
      <4>3. k # 0 /\ indices[f] # NoIndex =>
              (<<f, k>> \in strays => v = 0) /\ (<<f, k>> \notin strays => indices[f][k] = v)
        BY <1>2, <2>1, <2>2, <4>1 DEF Given
      <4> QED
        BY <2>3, <4>2, <4>3
    <3>2. CASE <<f, id>> \notin Touched(job.ops)
      <4>1. OnDisk(f, id) /\ InMemory(f, id)
        BY <1>1, <1>2, <1>9, <1>13, <3>2 DEF Settled, Up
      <4>2. v = truth[f][id] /\ saved.ids[id] = k
        BY <1>8, <2>1, <2>2, <3>2, <4>1 DEF InMemory
      <4> QED
        BY <2>1, <4>1, <4>2 DEF OnDisk, InMemory
    <3> QED
      BY <3>1, <3>2
  <2>5. InMemory(f, id)'
    BY <1>4, <1>5, <2>1, <2>2, <2>4 DEF InMemory, VectorOf
  <2>6. DiskVector(f, id)' = IF k = 0 \/ indices[f] = NoIndex THEN 0 ELSE stored[f][k]
    BY <1>4, <1>5, <2>1 DEF DiskVector
  <2>7. k # 0 /\ indices[f] # NoIndex /\ stored[f] # NoIndex /\ <<f, k>> \notin strays => stored[f][k] = indices[f][k]
    <3> SUFFICES ASSUME k # 0, indices[f] # NoIndex, stored[f] # NoIndex, <<f, k>> \notin strays
                 PROVE  stored[f][k] = indices[f][k]
      OBVIOUS
    <3>1. k \in Keys
      BY <1>11, <2>1
    <3>2. Alike(f, k)
      BY <1>1, <1>2, <3>1 DEF SidecarAccounts, Up
    <3>3. ASSUME NEW other \in VectorIds, manifest.ids[other] = k, <<f, other>> \in unsure,
                 <<f, other>> \notin Touched(job.ops)
          PROVE  FALSE
      <4>1. other = id
        BY <1>3, <2>1, <3>3 DEF KeysDiffer
      <4> QED
        BY <1>9, <1>13, <3>3, <4>1
    <3> QED
      BY <1>2, <3>2, <3>3 DEF Alike
  <2>8. <<f, k>> \notin strays /\ (f \in saved'.fields => stored[f] # NoIndex) => DiskVector(f, id)' = v
    BY <1>5, <2>3, <2>4, <2>6, <2>7
  <2>9. OnDisk(f, id)'
    BY <1>4, <1>5, <2>1, <2>2, <2>4, <2>8 DEF OnDisk
  <2> QED
    BY <2>5, <2>9
<1>14. ASSUME NEW g \in VectorFields, NEW k \in Keys PROVE Alike(g, k)' /\ Unknown(g, k)'
  <2>1. Alike(g, k) /\ Unknown(g, k)
    BY <1>1, <1>2 DEF SidecarAccounts, Up
  <2>2. Alike(g, k)'
    BY <1>2, <1>4, <1>9, <2>1 DEF Alike
  <2>3. Unknown(g, k)'
    BY <1>4, <2>1 DEF Unknown
  <2> QED
    BY <2>2, <2>3
<1>15. callFaults' = 0 => ~lost' /\ Faultless'
  <2> SUFFICES ASSUME callFaults = 0 PROVE ~lost /\ Faultless'
    BY <1>4
  <2>1. ~lost /\ Faultless
    BY DEF SidecarInv
  <2>2. \A f \in VectorFields : indices[f] # NoIndex => stored[f] # NoIndex
    BY <1>2, <2>1 DEF Faultless, Up
  <2> QED
    BY <1>4, <1>5, <2>1, <2>2 DEF Faultless
<1>16. ~lost' => Settled'
  BY <1>4, <1>13 DEF Settled
<1>17. KeysDiffer(manifest)' /\ KeysDiffer(saved)'
  <2>1. Named(saved)' = Named(manifest)
    BY <1>5 DEF Named
  <2>2. KeysDiffer(saved)'
    BY <1>3, <1>5, <2>1 DEF KeysDiffer
  <2> QED
    BY <1>3, <1>4, <2>2
<1> QED
  BY <1>4, <1>10, <1>14, <1>15, <1>16, <1>17 DEF SidecarInv, SidecarAccounts

\* Every step keeps the invariant.
LEMMA SidecarInductive == SidecarInv /\ [SidecarNext]_sidecarVars => SidecarInv'
<1> SUFFICES ASSUME SidecarInv, [SidecarNext]_sidecarVars PROVE SidecarInv'
  OBVIOUS
<1>1. ASSUME NEW n \in Nat, NEW batch \in [1 .. n -> Operations], Apply(batch) \/ CreateFails(batch)
      PROVE  SidecarInv'
  BY <1>1, ApplyKeepsInv, CreateFailsKeepsInv
<1>2. ASSUME NEW f \in VectorFields, SaveField(f) \/ FieldFails(f) PROVE SidecarInv'
  BY <1>2, SaveKeepsInv, FieldFailsKeepsInv
<1>3. CASE UNCHANGED sidecarVars
  <2>1. /\ sidecar' = sidecar /\ manifest' = manifest /\ indices' = indices /\ stored' = stored
        /\ saved' = saved /\ job' = job /\ operations' = operations /\ callFaults' = callFaults
        /\ truth' = truth /\ unsure' = unsure /\ strays' = strays /\ lost' = lost
    BY <1>3 DEF sidecarVars
  <2>2. SidecarTypeOK /\ SidecarTypeOK'
    BY <2>1 DEF SidecarInv, SidecarTypeOK
  <2>3. Faultless' <=> Faultless
    BY <2>1 DEF Faultless, Up
  <2>4. Settled' <=> Settled
    BY <2>1 DEF Settled, Doubted, Up, OnDisk, DiskVector, InMemory, VectorOf
  <2>5. Final' = Final
    <3>1. PICK ops : ops = job.ops
      OBVIOUS
    <3>2. Telling(ops)' = Telling(ops)
      BY <2>1 DEF Telling
    <3> QED
      BY <2>1, <3>1, <3>2 DEF Final
  <2>6. JobOk' <=> JobOk
    BY <2>1, <2>5 DEF JobOk, Given
  <2>7. KeysDiffer(manifest)' /\ KeysDiffer(saved)'
    BY <2>1 DEF SidecarInv, SidecarAccounts
  <2>8. \A f \in VectorFields, k \in Keys : (Alike(f, k)' <=> Alike(f, k)) /\ (Unknown(f, k)' <=> Unknown(f, k))
    BY <2>1 DEF Alike, Unknown
  <2> QED
    BY <2>1, <2>2, <2>3, <2>4, <2>6, <2>7, <2>8 DEF SidecarInv, SidecarAccounts, Up
<1>4. CASE SidecarNext
  <2>1. CASE OpenSidecar \/ StopSidecar \/ WriteManifest \/ ManifestFails
    BY <2>1, OpenKeepsInv, StopKeepsInv, WriteKeepsInv, ManifestFailsKeepsInv
  <2>2. CASE \E f \in VectorFields : SaveField(f) \/ FieldFails(f)
    BY <1>2, <2>2
  <2>3. CASE \E n \in 1 .. Min({MaxInBatch, MaxOperations - operations}) :
               \E batch \in [1 .. n -> Operations] : Apply(batch) \/ CreateFails(batch)
    <3>1. PICK n \in 1 .. Min({MaxInBatch, MaxOperations - operations}) :
            \E batch \in [1 .. n -> Operations] : Apply(batch) \/ CreateFails(batch)
      BY <2>3
    <3>2. n \in Nat
      OBVIOUS
    <3> QED
      BY <1>1, <3>1, <3>2
  <2> QED
    BY <1>4, <2>1, <2>2, <2>3 DEF SidecarNext
<1> QED
  BY <1>3, <1>4

\* The invariant says that an open sidecar has what it was given.
LEMMA SidecarInvIsTrue == SidecarInv => SidecarIsTrue
<1> SUFFICES ASSUME SidecarInv PROVE SidecarIsTrue
  OBVIOUS
<1>1. SidecarTypeOK /\ (~lost => Settled)
  BY DEF SidecarInv
<1>2. sidecar = "broken" => callFaults > 0
  <2>1. callFaults \in Nat
    BY <1>1 DEF SidecarTypeOK
  <2>2. sidecar = "broken" => callFaults # 0
    BY DEF SidecarInv, Faultless
  <2> QED
    BY <2>1, <2>2
<1>3. ASSUME sidecar = "open", ~lost, NEW f \in VectorFields, NEW id \in VectorIds,
             <<f, id>> \notin unsure, <<f, manifest.ids[id]>> \notin strays
      PROVE  VectorOf(f, id) = truth[f][id]
  <2>1. job = NoJob
    BY <1>1, <1>3 DEF SidecarTypeOK
  <2>2. <<f, id>> \notin Doubted
    BY <1>3, <2>1, NoneTouched DEF Doubted
  <2>3. InMemory(f, id)
    BY <1>1, <1>3, <2>2 DEF Settled, Up
  <2> QED
    BY <1>3, <2>3 DEF InMemory
<1> QED
  BY <1>2, <1>3 DEF SidecarIsTrue

\* For any ids, fields and batches: an open sidecar has for every id the vectors that the last
\* batch with it gave it, over any stops of the process and any failed calls, save where
\* such a batch failed, left a stray, or the manifest was lost; and it can be opened unless a
\* call failed (ApplyVectorChanges, openUSearchVectorIndex).
THEOREM VectorsAreTheirOwn == SidecarSpec => []SidecarIsTrue
<1>1. SidecarSpec => []SidecarInv
  BY SidecarInitially, SidecarInductive, PTL DEF SidecarSpec
<1> QED
  BY <1>1, SidecarInvIsTrue, PTL

-----------------------------------------------------------------------------
(* The offline writer: its invariant *)

\* What a round of merges has for each of its tasks.
Tasks == [ids : Seq(Nat), newID : Nat, pc : {"todo", "merging", "removing", "done", "failed"},
          left : Seq(Nat)]

OfflineTypeOK ==
  /\ concurrent \in BOOLEAN /\ segCount \in Nat /\ segIDs \in Seq(Nat)
  /\ accepted \in SUBSET (0 .. segCount - 1) /\ DOMAIN builds \in SUBSET accepted /\ buildErr \in SUBSET accepted
  /\ closing \in {"open", "waiting", "merging", "closed", "failed"}
  /\ tasks \in Seq(Tasks)
  /\ \A i \in DOMAIN segments : i \in Nat /\ segments[i] \in Seq(Nat)

Distinct(ids) == \A j, k \in DOMAIN ids : ids[j] = ids[k] => j = k

\* All of one come before all of the other.
Before(docs, more) == \A j \in DOMAIN docs, k \in DOMAIN more : docs[j] < more[k]

\* The batches that have been built.
BuiltBatches == accepted \ (DOMAIN builds \cup buildErr)

\* Every segment file is that of a batch.
Building ==
  /\ tasks = <<>> /\ DOMAIN builds \cap buildErr = {}
  /\ Distinct(segIDs) /\ ToSet(segIDs) = BuiltBatches /\ DOMAIN segments = BuiltBatches
  /\ \A b \in BuiltBatches : segments[b] = <<b>>

\* The task of a round that has the segment at a place, and the file that has its documents now.
GroupOf(p) == (p + MergeMax - 1) \div MergeMax
Written(n) == n \in DOMAIN tasks /\ tasks[n].newID \in DOMAIN segments
Home(p)    == IF Written(GroupOf(p)) THEN tasks[GroupOf(p)].newID ELSE segIDs[p]
Homes      == {Home(p) : p \in DOMAIN segIDs}

\* The first of the ids of a round.
Base == segCount - Len(tasks)

\* How far each task of a round is.
Rounds ==
  /\ Base \in Nat /\ Distinct(segIDs) /\ \A p \in DOMAIN segIDs : segIDs[p] < Base
  /\ tasks # <<>> => Len(tasks) = IF LeftAlone THEN Groups - 1 ELSE Groups
  /\ \A n \in DOMAIN tasks :
       /\ tasks[n].ids = Group(n) /\ tasks[n].newID = Base + n - 1
       /\ Distinct(tasks[n].left) /\ ToSet(tasks[n].left) \subseteq ToSet(Group(n))
       /\ tasks[n].pc \in {"todo", "merging"} => ~Written(n) /\ tasks[n].left = Group(n)
       /\ tasks[n].pc = "removing" => Written(n) /\ tasks[n].left # <<>>
       /\ tasks[n].pc = "done" => Written(n) /\ tasks[n].left = <<>>

\* The files are those that have the documents now and those that are still to be removed.
Whole ==
  /\ DOMAIN segments = Homes \cup UNION {ToSet(tasks[n].left) : n \in {n \in DOMAIN tasks : Written(n)}}
  /\ \A p \in DOMAIN segIDs : Rising(segments[Home(p)])
  /\ \A p, q \in DOMAIN segIDs : p < q /\ Home(p) # Home(q) => Before(segments[Home(p)], segments[Home(q)])
  /\ UNION {ToSet(segments[i]) : i \in Homes} = accepted

OfflineInv ==
  /\ OfflineTypeOK
  /\ closing \in {"open", "waiting"} => Building
  /\ closing \notin {"open", "waiting"} => DOMAIN builds = {}
  /\ closing = "merging" => buildErr = {} /\ segIDs # <<>> /\ Rounds /\ Whole
  /\ closing \in {"closed", "failed"} => tasks = <<>> /\ NothingBuiltIsLost


-----------------------------------------------------------------------------
(* Groups of a round *)

\* The group of a place is the one between whose ends it is.
LEMMA GroupIs ==
  ASSUME NEW p \in Nat \ {0}
  PROVE  /\ GroupOf(p) \in Nat \ {0}
         /\ (GroupOf(p) - 1) * MergeMax < p /\ p <= GroupOf(p) * MergeMax
BY OfflineWriterAssumption DEF GroupOf

\* Multiples of the size of a group follow its number.
LEMMA EndsInOrder ==
  ASSUME NEW m \in Nat, NEW n \in Nat, m <= n
  PROVE  m * MergeMax <= n * MergeMax /\ m * MergeMax \in Nat /\ n * MergeMax \in Nat
BY OfflineWriterAssumption

\* No place is between the ends of two groups.
LEMMA GroupOnly ==
  ASSUME NEW p \in Nat \ {0}, NEW n \in Nat \ {0}, (n - 1) * MergeMax < p, p <= n * MergeMax
  PROVE  GroupOf(p) = n
<1> DEFINE g == GroupOf(p)
<1>1. g \in Nat \ {0} /\ (g - 1) * MergeMax < p /\ p <= g * MergeMax
  BY GroupIs
<1> HIDE DEF g
<1>2. ~(g < n)
  <2> SUFFICES ASSUME g < n PROVE FALSE
    OBVIOUS
  <2>1. g * MergeMax <= (n - 1) * MergeMax /\ g * MergeMax \in Nat /\ (n - 1) * MergeMax \in Nat
    <3>1. g \in Nat /\ n - 1 \in Nat /\ g <= n - 1
      BY <1>1
    <3> QED
      BY <3>1, EndsInOrder
  <2> QED
    BY <1>1, <2>1
<1>3. ~(n < g)
  <2> SUFFICES ASSUME n < g PROVE FALSE
    OBVIOUS
  <2>1. n * MergeMax <= (g - 1) * MergeMax /\ n * MergeMax \in Nat /\ (g - 1) * MergeMax \in Nat
    <3>1. n \in Nat /\ g - 1 \in Nat /\ n <= g - 1
      BY <1>1
    <3> QED
      BY <3>1, EndsInOrder
  <2> QED
    BY <1>1, <2>1
<1> QED
  BY <1>1, <1>2, <1>3 DEF g

\* Later places are not in earlier groups.
LEMMA GroupsInOrder ==
  ASSUME NEW p \in Nat \ {0}, NEW q \in Nat \ {0}, p <= q
  PROVE  GroupOf(p) <= GroupOf(q)
<1> DEFINE g == GroupOf(p)
           h == GroupOf(q)
<1>1. /\ g \in Nat \ {0} /\ (g - 1) * MergeMax < p /\ p <= g * MergeMax
      /\ h \in Nat \ {0} /\ (h - 1) * MergeMax < q /\ q <= h * MergeMax
  BY GroupIs
<1> HIDE DEF g, h
<1> SUFFICES ASSUME h < g PROVE FALSE
  BY <1>1 DEF g, h
<1>2. h * MergeMax <= (g - 1) * MergeMax /\ h * MergeMax \in Nat /\ (g - 1) * MergeMax \in Nat
  <2>1. h \in Nat /\ g - 1 \in Nat /\ h <= g - 1
    BY <1>1
  <2> QED
    BY <2>1, EndsInOrder
<1> QED
  BY <1>1, <1>2

\* There are as many groups as the last place says, and none is empty.
LEMMA GroupsAre ==
  ASSUME segIDs \in Seq(Nat), segIDs # <<>>
  PROVE  /\ Len(segIDs) \in Nat \ {0} /\ DOMAIN segIDs = 1 .. Len(segIDs)
         /\ Groups \in Nat \ {0}
         /\ \A p \in DOMAIN segIDs : p \in Nat \ {0} /\ GroupOf(p) \in 1 .. Groups
         /\ \A n \in 1 .. Groups : \E p \in DOMAIN segIDs : GroupOf(p) = n
         /\ GroupOf(Len(segIDs)) = Groups
<1>1. Len(segIDs) \in Nat \ {0} /\ DOMAIN segIDs = 1 .. Len(segIDs)
  OBVIOUS
<1>2. Groups = GroupOf(Len(segIDs))
  BY DEF Groups, GroupOf
<1>3. Groups \in Nat \ {0} /\ (Groups - 1) * MergeMax < Len(segIDs)
  BY <1>1, <1>2, GroupIs
<1>4. ASSUME NEW p \in DOMAIN segIDs
      PROVE  p \in Nat \ {0} /\ GroupOf(p) \in 1 .. Groups
  <2>1. p \in Nat \ {0} /\ p <= Len(segIDs)
    BY <1>1
  <2> QED
    BY <1>1, <1>2, <1>3, <2>1, GroupIs, GroupsInOrder
<1>5. ASSUME NEW n \in 1 .. Groups
      PROVE  \E p \in DOMAIN segIDs : GroupOf(p) = n
  <2> DEFINE o == (n - 1) * MergeMax
  <2>1. n - 1 \in Nat /\ Groups - 1 \in Nat /\ n - 1 <= Groups - 1 /\ n \in Nat \ {0} /\ n - 1 <= n
    BY <1>3
  <2>2. o <= (Groups - 1) * MergeMax /\ o \in Nat /\ (Groups - 1) * MergeMax \in Nat
    BY <2>1, EndsInOrder
  <2>3. n * MergeMax = o + MergeMax
    BY <2>1, OfflineWriterAssumption
  <2> HIDE DEF o
  <2>4. o + 1 \in Nat \ {0} /\ o < o + 1 /\ o + 1 <= n * MergeMax /\ o + 1 \in 1 .. Len(segIDs)
    BY <1>1, <1>3, <2>2, <2>3, OfflineWriterAssumption
  <2>5. GroupOf(o + 1) = n
    BY <2>1, <2>4, GroupOnly DEF o
  <2> QED
    BY <1>1, <2>4, <2>5
<1> QED
  BY <1>1, <1>2, <1>3, <1>4, <1>5

\* A group has the ids of its places, one after another.
LEMMA GroupHas ==
  ASSUME segIDs \in Seq(Nat), segIDs # <<>>, NEW n \in 1 .. Groups
  PROVE  /\ Group(n) \in Seq(Nat) /\ Group(n) # <<>>
         /\ \E o \in Nat :
              /\ \A k \in DOMAIN Group(n) :
                    o + k \in DOMAIN segIDs /\ GroupOf(o + k) = n /\ Group(n)[k] = segIDs[o + k]
              /\ \A p \in DOMAIN segIDs :
                    GroupOf(p) = n => p - o \in DOMAIN Group(n) /\ Group(n)[p - o] = segIDs[p]
<1> DEFINE o == (n - 1) * MergeMax
           e == IF n * MergeMax > Len(segIDs) THEN Len(segIDs) ELSE n * MergeMax
           L == Len(segIDs)
<1>1. L \in Nat \ {0} /\ DOMAIN segIDs = 1 .. L /\ Groups \in Nat \ {0}
  BY GroupsAre
<1>2. n - 1 \in Nat /\ n \in Nat \ {0}
  BY <1>1
<1>3. o \in Nat /\ n * MergeMax = o + MergeMax
  BY <1>2, OfflineWriterAssumption
<1>4. PICK p \in DOMAIN segIDs : GroupOf(p) = n
  BY GroupsAre
<1>5. p \in Nat \ {0} /\ o < p /\ p <= n * MergeMax
  BY <1>1, <1>4, GroupIs
<1>6. Group(n) = SubSeq(segIDs, o + 1, e)
  BY DEF Group
<1> HIDE DEF o
<1>7. e \in Nat /\ e <= L /\ e <= n * MergeMax /\ o + 1 <= e /\ e >= p
  BY <1>1, <1>3, <1>5, OfflineWriterAssumption
<1>8. \A q \in 1 .. L : q <= n * MergeMax => q <= e
  OBVIOUS
<1> HIDE DEF e
<1>9. Group(n) \in Seq(Nat) /\ Len(Group(n)) = e - o
  BY <1>1, <1>3, <1>6, <1>7
<1>10. DOMAIN Group(n) = 1 .. e - o /\ \A k \in 1 .. e - o : Group(n)[k] = segIDs[o + k]
  BY <1>1, <1>3, <1>6, <1>7
<1>11. ASSUME NEW k \in 1 .. e - o
       PROVE  o + k \in 1 .. L /\ GroupOf(o + k) = n
  <2>1. o + k \in Nat \ {0} /\ o < o + k /\ o + k <= n * MergeMax /\ o + k \in 1 .. L
    BY <1>1, <1>3, <1>7, OfflineWriterAssumption
  <2> QED
    BY <1>2, <2>1, GroupOnly DEF o
<1>12. ASSUME NEW q \in 1 .. L, GroupOf(q) = n
       PROVE  q - o \in 1 .. e - o /\ o + (q - o) = q
  <2>1. q \in Nat \ {0} /\ o < q /\ q <= n * MergeMax
    BY <1>1, <1>12, GroupIs DEF o
  <2> QED
    BY <1>1, <1>3, <1>7, <1>8, <2>1
<1>13. Group(n) # <<>>
  BY <1>3, <1>7, <1>9
<1> QED
  BY <1>1, <1>3, <1>9, <1>10, <1>11, <1>12, <1>13
-----------------------------------------------------------------------------
(* What a merge writes *)

\* FlattenSeq puts the sequences together one after the other.
LEMMA FlattenSteps ==
  ASSUME NEW seqs \in Seq(Seq(Nat)), seqs # <<>>
  PROVE  \E h \in [1 .. Len(seqs) -> Seq(Nat)] :
           /\ h[1] = seqs[1] /\ \A k \in 2 .. Len(seqs) : h[k] = h[k - 1] \o seqs[k]
           /\ FlattenSeq(seqs) = h[Len(seqs)]
<1> DEFINE N       == Len(seqs)
           next(t) == [i \in 1 .. Len(seqs) |-> IF i = 1 THEN seqs[i] ELSE t[i - 1] \o seqs[i]]
           step    == [x \in Seq(Nat) \X (1 .. N - 1) |-> x[1] \o seqs[x[2] + 1]]
           so      == CHOOSE t : t = next(t)
<1>1. N \in Nat /\ N # 0 /\ N - 1 \in Nat /\ \A k \in 1 .. N : seqs[k] \in Seq(Nat)
  OBVIOUS
<1>2. FlattenSeq(seqs) = so[N]
  BY <1>1 DEF FlattenSeq
<1>3. \A k \in 1 .. N - 1 : k + 1 \in 1 .. N
  BY <1>1
<1>4. step \in [Seq(Nat) \X (1 .. N - 1) -> Seq(Nat)]
  <2> SUFFICES ASSUME NEW s \in Seq(Nat), NEW k \in 1 .. N - 1 PROVE s \o seqs[k + 1] \in Seq(Nat)
    OBVIOUS
  <2>1. seqs[k + 1] \in Seq(Nat)
    BY <1>1, <1>3
  <2> QED
    BY <2>1
<1>5. \A s \in Seq(Nat), k \in 1 .. N - 1 : step[<<s, k>>] = s \o seqs[k + 1]
  OBVIOUS
<1>6. seqs[1] \in Seq(Nat)
  BY <1>1
<1> HIDE DEF step, N
<1>7. PICK g \in [0 .. N - 1 -> Seq(Nat)] : Steps(g, N - 1, seqs[1], step)
  BY <1>1, <1>4, <1>6, StepByStep
<1>8. g[0] = seqs[1] /\ \A k \in 1 .. N - 1 : g[k] = g[k - 1] \o seqs[k + 1]
  <2>1. \A k \in 1 .. N - 1 : g[k - 1] \in Seq(Nat)
    <3>1. \A k \in 1 .. N - 1 : k - 1 \in 0 .. N - 1
      BY <1>1
    <3> QED
      BY <1>7, <3>1
  <2> QED
    BY <1>5, <1>7, <2>1 DEF Steps
<1>9. PICK h : h = [i \in 1 .. N |-> g[i - 1]]
  OBVIOUS
<1>10. \A i \in 1 .. N : i - 1 \in 0 .. N - 1 /\ (i # 1 => i - 1 \in 1 .. N - 1 /\ i - 1 \in 1 .. N)
  BY <1>1
<1>11. h \in [1 .. N -> Seq(Nat)]
  BY <1>7, <1>9, <1>10
<1>12. h[1] = seqs[1]
  BY <1>1, <1>8, <1>9
<1>13. ASSUME NEW k \in 1 .. N, k # 1 PROVE h[k] = h[k - 1] \o seqs[k]
  <2>1. k - 1 \in 1 .. N - 1 /\ k - 1 \in 1 .. N /\ (k - 1) + 1 = k
    BY <1>1, <1>13
  <2>2. g[k - 1] = g[(k - 1) - 1] \o seqs[(k - 1) + 1]
    BY <1>8, <2>1
  <2> QED
    BY <1>9, <2>1, <2>2
<1>14. h = next(h)
  <2>1. \A i \in 1 .. N : h[i] = IF i = 1 THEN seqs[i] ELSE h[i - 1] \o seqs[i]
    BY <1>12, <1>13
  <2>2. h = [i \in 1 .. N |-> h[i]]
    BY <1>9
  <2> QED
    BY <2>1, <2>2 DEF N
<1>15. so = next(so)
  BY <1>14
<1> HIDE DEF so
<1>16. \A i \in 1 .. N : so[i] = IF i = 1 THEN seqs[i] ELSE so[i - 1] \o seqs[i]
  BY <1>15 DEF N
<1>17. so \in [1 .. N -> Seq(Nat)] /\ so[1] = seqs[1] /\ \A k \in 2 .. N : so[k] = so[k - 1] \o seqs[k]
  <2>1. \A k \in 2 .. N : k \in 1 .. N /\ k # 1
    BY <1>1
  <2>a. so[1] = seqs[1]
    <3>1. 1 \in 1 .. N
      BY <1>1
    <3> QED
      BY <1>16, <3>1
  <2>b. ASSUME NEW k \in 2 .. N PROVE so[k] = so[k - 1] \o seqs[k]
    BY <1>16, <2>1
  <2>2. so[1] = seqs[1] /\ \A k \in 2 .. N : so[k] = so[k - 1] \o seqs[k]
    BY <2>a, <2>b
  <2> DEFINE G == {k \in 0 .. N - 1 : so[k + 1] \in Seq(Nat)}
  <2>3. 0 \in G
    BY <1>1, <1>6, <2>2
  <2>4. ASSUME NEW k \in 1 .. N - 1, k - 1 \in G PROVE k \in G
    <3>1. k + 1 \in 2 .. N /\ k + 1 \in 1 .. N /\ (k + 1) - 1 = k /\ (k - 1) + 1 = k /\ k \in 0 .. N - 1
      BY <1>1
    <3>2. so[k + 1] = so[k] \o seqs[k + 1] /\ so[k] \in Seq(Nat) /\ seqs[k + 1] \in Seq(Nat)
      BY <1>1, <2>2, <2>4, <3>1
    <3>3. so[k + 1] \in Seq(Nat)
      <4> DEFINE s == so[k]
                 t == seqs[k + 1]
      <4>1. s \in Seq(Nat) /\ t \in Seq(Nat) /\ so[k + 1] = s \o t
        BY <3>2
      <4> HIDE DEF s, t
      <4>2. s \o t \in Seq(Nat)
        BY <4>1
      <4> QED
        BY <4>1, <4>2
    <3> QED
      BY <3>1, <3>3
  <2> HIDE DEF G
  <2>5. \A k \in 0 .. N - 1 : k \in G
    BY <1>1, <2>3, <2>4, OneByOne
  <2>6. \A k \in 1 .. N : so[k] \in Seq(Nat)
    <3> TAKE k \in 1 .. N
    <3>1. k - 1 \in 0 .. N - 1 /\ (k - 1) + 1 = k
      BY <1>1
    <3> QED
      BY <2>5, <3>1 DEF G
  <2>7. so = [i \in 1 .. N |-> so[i]]
    BY <1>15 DEF N
  <2> QED
    BY <2>2, <2>6, <2>7
<1> QED
  BY <1>2, <1>17 DEF N

\* Two rising sequences, one after the other.
LEMMA JoinedRises ==
  ASSUME NEW s \in Seq(Nat), NEW t \in Seq(Nat), Rising(s), Rising(t), Before(s, t)
  PROVE  s \o t \in Seq(Nat) /\ Rising(s \o t) /\ ToSet(s \o t) = ToSet(s) \cup ToSet(t)
<1>1. /\ s \o t \in Seq(Nat) /\ Len(s) \in Nat /\ Len(t) \in Nat
      /\ DOMAIN (s \o t) = 1 .. Len(s) + Len(t) /\ DOMAIN s = 1 .. Len(s) /\ DOMAIN t = 1 .. Len(t)
      /\ \A k \in 1 .. Len(s) + Len(t) : (s \o t)[k] = IF k <= Len(s) THEN s[k] ELSE t[k - Len(s)]
  OBVIOUS
<1>2. \A k \in 1 .. Len(s) + Len(t) : IF k <= Len(s) THEN k \in DOMAIN s ELSE k - Len(s) \in DOMAIN t
  BY <1>1
<1>3. Rising(s \o t)
  <2> SUFFICES ASSUME NEW j \in 1 .. Len(s) + Len(t), NEW k \in 1 .. Len(s) + Len(t), j < k
               PROVE  (s \o t)[j] < (s \o t)[k]
    BY <1>1 DEF Rising
  <2>1. CASE k <= Len(s)
    <3>1. j \in DOMAIN s /\ k \in DOMAIN s /\ j <= Len(s)
      BY <1>1, <2>1
    <3> QED
      BY <1>1, <2>1, <3>1 DEF Rising
  <2>2. CASE j <= Len(s) /\ ~(k <= Len(s))
    <3>1. j \in DOMAIN s /\ k - Len(s) \in DOMAIN t
      BY <1>2, <2>2
    <3> QED
      BY <1>1, <2>2, <3>1 DEF Before
  <2>3. CASE ~(j <= Len(s)) /\ ~(k <= Len(s))
    <3>1. j - Len(s) \in DOMAIN t /\ k - Len(s) \in DOMAIN t /\ j - Len(s) < k - Len(s)
      BY <1>1, <1>2, <2>3
    <3>2. t[j - Len(s)] < t[k - Len(s)]
      BY <3>1 DEF Rising
    <3> QED
      BY <1>1, <2>3, <3>2
  <2>4. (k <= Len(s)) \/ (j <= Len(s) /\ ~(k <= Len(s))) \/ (~(j <= Len(s)) /\ ~(k <= Len(s)))
    OBVIOUS
  <2> QED
    BY <2>1, <2>2, <2>3, <2>4
<1>4. ToSet(s \o t) \subseteq ToSet(s) \cup ToSet(t)
  BY <1>1, <1>2 DEF ToSet
<1>5. ToSet(s) \subseteq ToSet(s \o t)
  <2>1. \A k \in DOMAIN s : k \in 1 .. Len(s) + Len(t) /\ (s \o t)[k] = s[k]
    BY <1>1
  <2> QED
    BY <1>1, <2>1 DEF ToSet
<1>6. ToSet(t) \subseteq ToSet(s \o t)
  <2>1. \A k \in DOMAIN t : Len(s) + k \in 1 .. Len(s) + Len(t) /\ (s \o t)[Len(s) + k] = t[k]
    <3> TAKE k \in DOMAIN t
    <3>1. Len(s) + k \in 1 .. Len(s) + Len(t) /\ ~(Len(s) + k <= Len(s)) /\ Len(s) + k - Len(s) = k
      BY <1>1
    <3> QED
      BY <1>1, <3>1
  <2> QED
    BY <1>1, <2>1 DEF ToSet
<1> QED
  BY <1>1, <1>3, <1>4, <1>5, <1>6

\* So are more of them.
LEMMA FlattenRises ==
  ASSUME NEW seqs \in Seq(Seq(Nat)), seqs # <<>>, \A k \in DOMAIN seqs : Rising(seqs[k]),
         \A j, k \in DOMAIN seqs : j < k => Before(seqs[j], seqs[k])
  PROVE  /\ FlattenSeq(seqs) \in Seq(Nat) /\ Rising(FlattenSeq(seqs))
         /\ ToSet(FlattenSeq(seqs)) = UNION {ToSet(seqs[k]) : k \in DOMAIN seqs}
<1> DEFINE N == Len(seqs)
<1>1. N \in Nat /\ N # 0 /\ N - 1 \in Nat /\ DOMAIN seqs = 1 .. N /\ \A k \in 1 .. N : seqs[k] \in Seq(Nat)
  OBVIOUS
<1>2. PICK h \in [1 .. N -> Seq(Nat)] :
        /\ h[1] = seqs[1] /\ \A k \in 2 .. N : h[k] = h[k - 1] \o seqs[k]
        /\ FlattenSeq(seqs) = h[N]
  BY FlattenSteps
<1> HIDE DEF N
<1> DEFINE part(k) == UNION {ToSet(seqs[j]) : j \in 1 .. k}
           G == {k \in 0 .. N - 1 : Rising(h[k + 1]) /\ ToSet(h[k + 1]) = part(k + 1)}
<1>3. 0 \in G
  <2>1. 1 .. 0 + 1 = {1} /\ 0 \in 0 .. N - 1 /\ 0 + 1 = 1 /\ 1 \in DOMAIN seqs
    BY <1>1
  <2> QED
    BY <1>2, <2>1
<1>4. ASSUME NEW k \in 1 .. N - 1, k - 1 \in G PROVE k \in G
  <2>1. /\ k + 1 \in 2 .. N /\ k + 1 \in 1 .. N /\ k \in 1 .. N /\ (k + 1) - 1 = k /\ (k - 1) + 1 = k
        /\ k \in 0 .. N - 1 /\ 1 .. k + 1 = (1 .. k) \cup {k + 1} /\ \A j \in 1 .. k : j \in 1 .. N /\ j < k + 1
    BY <1>1
  <2>2. h[k + 1] = h[k] \o seqs[k + 1] /\ h[k] \in Seq(Nat) /\ seqs[k + 1] \in Seq(Nat)
    BY <1>1, <1>2, <2>1
  <2>3. Rising(h[k]) /\ ToSet(h[k]) = part(k)
    BY <1>4, <2>1
  <2>4. Before(h[k], seqs[k + 1])
    <3> SUFFICES ASSUME NEW i \in DOMAIN h[k], NEW m \in DOMAIN seqs[k + 1] PROVE h[k][i] < seqs[k + 1][m]
      BY DEF Before
    <3>1. PICK j \in 1 .. k : h[k][i] \in ToSet(seqs[j])
      BY <2>3 DEF ToSet
    <3>2. PICK l \in DOMAIN seqs[j] : h[k][i] = seqs[j][l]
      BY <3>1 DEF ToSet
    <3>3. Before(seqs[j], seqs[k + 1])
      BY <1>1, <2>1
    <3> QED
      BY <3>2, <3>3 DEF Before
  <2>5. Rising(seqs[k + 1])
    BY <1>1, <2>1
  <2>6. Rising(h[k + 1]) /\ ToSet(h[k + 1]) = ToSet(h[k]) \cup ToSet(seqs[k + 1])
    BY <2>2, <2>3, <2>4, <2>5, JoinedRises
  <2>7. part(k + 1) = part(k) \cup ToSet(seqs[k + 1])
    BY <2>1
  <2> QED
    BY <2>1, <2>3, <2>6, <2>7
<1> HIDE DEF G
<1>5. \A k \in 0 .. N - 1 : k \in G
  BY <1>1, <1>3, <1>4, OneByOne
<1>6. N - 1 \in G /\ (N - 1) + 1 = N
  BY <1>1, <1>5
<1>7. Rising(h[N]) /\ ToSet(h[N]) = part(N) /\ h[N] \in Seq(Nat)
  BY <1>1, <1>2, <1>6 DEF G
<1> QED
  BY <1>1, <1>2, <1>7

-----------------------------------------------------------------------------
(* What Close puts in order *)

\* Ordered has the same ids, and they rise.
LEMMA OrderedIs ==
  ASSUME NEW ids \in Seq(Nat)
  PROVE  Ordered(ids) \in Seq(Nat) /\ Rising(Ordered(ids)) /\ ToSet(Ordered(ids)) = ToSet(ids)
<1> DEFINE S        == ToSet(ids)
           below(i) == {j \in S : j < i}
           rank     == [i \in S |-> Cardinality(below(i)) + 1]
           at(k)    == CHOOSE i \in S : Cardinality(below(i)) = k - 1
<1>1. (\A i \in S : i \in Nat) /\ IsFiniteSet(S) /\ Cardinality(S) \in Nat
  <2>1. DOMAIN ids = 1 .. Len(ids) /\ Len(ids) \in Nat
    OBVIOUS
  <2>2. IsFiniteSet(DOMAIN ids)
    BY <2>1, FS_Interval
  <2>3. ids \in Surjection(DOMAIN ids, S)
    <3>1. ids \in [DOMAIN ids -> S]
      BY DEF ToSet
    <3> QED
      BY <3>1 DEF ToSet, Surjection
  <2>4. IsFiniteSet(S)
    BY <2>2, <2>3, FS_Surjection
  <2> QED
    BY <2>1, <2>4, FS_CardinalityType DEF ToSet
<1> HIDE DEF S
<1>2. \A i \in S : /\ IsFiniteSet(below(i)) /\ Cardinality(below(i)) < Cardinality(S)
                   /\ Cardinality(below(i)) \in Nat
  <2> TAKE i \in S
  <2>1. below(i) \in SUBSET S /\ i \notin below(i)
    BY <1>1
  <2>2. below(i) # S
    BY <2>1
  <2> HIDE DEF below
  <2>3. IsFiniteSet(below(i)) /\ Cardinality(below(i)) <= Cardinality(S) /\ Cardinality(below(i)) # Cardinality(S)
    BY <1>1, <2>1, <2>2, FS_Subset
  <2>4. Cardinality(below(i)) \in Nat
    BY <2>3, FS_CardinalityType
  <2> QED
    BY <1>1, <2>3, <2>4
<1>3. ASSUME NEW i \in S, NEW j \in S, i < j
      PROVE  Cardinality(below(i)) < Cardinality(below(j))
  <2>1. below(i) \in SUBSET below(j)
    BY <1>1, <1>3
  <2>2. i \in below(j) /\ i \notin below(i)
    BY <1>1, <1>3
  <2>3. below(i) # below(j)
    BY <2>2
  <2> HIDE DEF below
  <2> QED
    BY <1>2, <2>1, <2>3, FS_Subset
<1> HIDE DEF below
<1>4. rank \in Bijection(S, 1 .. Cardinality(S))
  <2>1. rank \in [S -> 1 .. Cardinality(S)]
    BY <1>1, <1>2
  <2>2. \A i, j \in S : i # j => rank[i] # rank[j]
    <3> TAKE i, j \in S
    <3>1. i < j \/ j < i \/ i = j
      BY <1>1
    <3> QED
      BY <1>2, <1>3, <3>1
  <2>3. rank \in Injection(S, 1 .. Cardinality(S))
    BY <2>1, <2>2 DEF Injection, IsInjective
  <2>4. IsFiniteSet(1 .. Cardinality(S)) /\ Cardinality(1 .. Cardinality(S)) = Cardinality(S)
    BY <1>1, FS_Interval
  <2> QED
    BY <1>1, <2>3, <2>4, FS_Injection DEF Bijection
<1>5. \A k \in 1 .. Cardinality(S) : at(k) \in S /\ Cardinality(below(at(k))) = k - 1
  <2> TAKE k \in 1 .. Cardinality(S)
  <2>1. PICK i \in S : rank[i] = k
    BY <1>4 DEF Bijection, Surjection
  <2>2. Cardinality(below(i)) = k - 1
    BY <1>2, <2>1
  <2> QED
    BY <2>2
<1>6. \A i \in S : at(Cardinality(below(i)) + 1) = i
  <2> TAKE i \in S
  <2> DEFINE k == Cardinality(below(i)) + 1
  <2>1. k \in 1 .. Cardinality(S) /\ k - 1 = Cardinality(below(i))
    BY <1>1, <1>2
  <2>2. at(k) \in S /\ Cardinality(below(at(k))) = Cardinality(below(i))
    BY <1>5, <2>1
  <2> HIDE DEF k, at
  <2>3. at(k) < i \/ i < at(k) \/ at(k) = i
    BY <1>1, <2>2
  <2> QED
    BY <1>2, <1>3, <2>2, <2>3 DEF k
<1>7. Ordered(ids) = [k \in 1 .. Cardinality(S) |-> at(k)]
  BY DEF Ordered, S, below
<1> HIDE DEF at
<1>8. Ordered(ids) \in Seq(Nat) /\ DOMAIN Ordered(ids) = 1 .. Cardinality(S)
  <2>1. \A k \in 1 .. Cardinality(S) : at(k) \in Nat
    BY <1>1, <1>5
  <2> QED
    BY <1>1, <1>7, <2>1
<1>9. Rising(Ordered(ids))
  <2> SUFFICES ASSUME NEW j \in 1 .. Cardinality(S), NEW k \in 1 .. Cardinality(S), j < k
               PROVE  at(j) < at(k)
    BY <1>7, <1>8 DEF Rising
  <2>1. /\ at(j) \in S /\ at(k) \in S
        /\ Cardinality(below(at(j))) = j - 1 /\ Cardinality(below(at(k))) = k - 1
    BY <1>5
  <2>2. at(j) < at(k) \/ at(k) < at(j) \/ at(j) = at(k)
    BY <1>1, <2>1
  <2>3. ~(at(k) < at(j))
    BY <1>1, <1>3, <2>1
  <2> QED
    BY <1>1, <2>1, <2>2, <2>3
<1>10. ToSet(Ordered(ids)) = S
  <2>1. ToSet(Ordered(ids)) = {at(k) : k \in 1 .. Cardinality(S)}
    BY <1>7, <1>8 DEF ToSet
  <2>2. \A i \in S : Cardinality(below(i)) + 1 \in 1 .. Cardinality(S)
    BY <1>1, <1>2
  <2> QED
    BY <1>5, <1>6, <2>1, <2>2
<1> QED
  BY <1>8, <1>9, <1>10 DEF S
-----------------------------------------------------------------------------
(* Until Close has its segments *)

\* At first there is nothing.
LEMMA OfflineInitially == OfflineInit => OfflineInv
<1> SUFFICES ASSUME OfflineInit PROVE OfflineInv
  OBVIOUS
<1>1. DOMAIN builds = {} /\ DOMAIN segments = {} /\ ToSet(segIDs) = {}
  BY DEF OfflineInit, ToSet
<1>2. OfflineTypeOK
  BY <1>1 DEF OfflineInit, OfflineTypeOK
<1>3. Building
  BY <1>1 DEF OfflineInit, Building, BuiltBatches, Distinct
<1> QED
  BY <1>2, <1>3 DEF OfflineInit, OfflineInv

\* A batch that is accepted has an id of its own.
LEMMA OfflineBatchKeeps == OfflineInv /\ Batch => OfflineInv'
<1> SUFFICES ASSUME OfflineInv, Batch PROVE OfflineInv'
  OBVIOUS
<1>1. OfflineTypeOK /\ Building /\ closing = "open"
  BY DEF OfflineInv, Batch
<1>2. /\ segCount \in Nat /\ segCount' = segCount + 1 /\ accepted' = accepted \cup {segCount}
      /\ DOMAIN builds' = DOMAIN builds \cup {segCount}
      /\ segCount \notin accepted
      /\ UNCHANGED <<concurrent, segIDs, buildErr, closing, tasks, segments>>
  BY <1>1 DEF Batch, OfflineTypeOK
<1>3. accepted' \in SUBSET (0 .. segCount' - 1)
  <2>1. \A i \in accepted : i \in 0 .. segCount - 1
    BY <1>1 DEF OfflineTypeOK
  <2>2. \A i \in accepted' : i \in 0 .. segCount
    BY <1>2, <2>1
  <2>3. (segCount + 1) - 1 = segCount
    BY <1>2
  <2> QED
    BY <1>2, <2>2, <2>3
<1>4. DOMAIN builds \in SUBSET accepted /\ buildErr \in SUBSET accepted
  BY <1>1 DEF OfflineTypeOK
<1>5. OfflineTypeOK'
  BY <1>1, <1>2, <1>3, <1>4 DEF OfflineTypeOK
<1>6. BuiltBatches' = BuiltBatches
  BY <1>2, <1>4 DEF BuiltBatches
<1>7. Building'
  BY <1>1, <1>2, <1>4, <1>6 DEF Building, Distinct
<1> QED
  BY <1>1, <1>2, <1>5, <1>7 DEF OfflineInv

\* A build begins.
LEMMA StartBuildKeeps == ASSUME OfflineInv, NEW b, StartBuild(b) PROVE OfflineInv'
<1>1. DOMAIN builds' = DOMAIN builds /\ DOMAIN builds # {}
  BY DEF StartBuild
<1>2. UNCHANGED <<concurrent, segCount, segIDs, accepted, buildErr, closing, tasks, segments>>
  BY DEF StartBuild
<1>3. OfflineTypeOK /\ Building /\ closing \in {"open", "waiting"}
  BY <1>1 DEF OfflineInv, OfflineTypeOK
<1>4. OfflineTypeOK'
  BY <1>1, <1>2, <1>3 DEF OfflineTypeOK
<1>5. BuiltBatches' = BuiltBatches
  BY <1>1, <1>2 DEF BuiltBatches
<1>6. Building'
  BY <1>1, <1>2, <1>3, <1>5 DEF Building, Distinct
<1> QED
  BY <1>2, <1>3, <1>4, <1>6 DEF OfflineInv

\* A build that succeeds has its file and its place in segIDs.
LEMMA BuildSegmentKeeps == ASSUME OfflineInv, NEW b, BuildSegment(b) PROVE OfflineInv'
<1>1. /\ b \in DOMAIN builds /\ DOMAIN builds' = DOMAIN builds \ {b}
      /\ UNCHANGED <<concurrent, segCount, accepted, closing, tasks>>
  BY DEF BuildSegment
<1>2. OfflineTypeOK /\ Building /\ closing \in {"open", "waiting"}
  BY <1>1 DEF OfflineInv, OfflineTypeOK
<1>3. b \in accepted /\ b \in Nat /\ b \notin buildErr /\ b \notin BuiltBatches
  <2>1. b \in accepted /\ b \notin buildErr
    BY <1>1, <1>2 DEF OfflineTypeOK, Building
  <2>2. \A i \in accepted : i \in Nat
    BY <1>2 DEF OfflineTypeOK
  <2> QED
    BY <1>1, <2>1, <2>2 DEF BuiltBatches
<1>4. CASE segments' = WithFile(b, <<b>>) /\ segIDs' = Append(segIDs, b) /\ UNCHANGED buildErr
  <2>1. /\ DOMAIN segments' = DOMAIN segments \cup {b}
        /\ \A i \in DOMAIN segments' : segments'[i] = IF i = b THEN <<b>> ELSE segments[i]
    BY <1>4 DEF WithFile
  <2>2. segIDs \in Seq(Nat) /\ Len(segIDs) \in Nat /\ DOMAIN segIDs = 1 .. Len(segIDs)
    BY <1>2 DEF OfflineTypeOK
  <2>3. /\ segIDs' \in Seq(Nat) /\ DOMAIN segIDs' = 1 .. Len(segIDs) + 1
        /\ segIDs'[Len(segIDs) + 1] = b /\ \A k \in DOMAIN segIDs : segIDs'[k] = segIDs[k]
    BY <1>3, <1>4, <2>2
  <2>4. DOMAIN segIDs' = DOMAIN segIDs \cup {Len(segIDs) + 1} /\ Len(segIDs) + 1 \notin DOMAIN segIDs
    BY <2>2, <2>3
  <2>5. ToSet(segIDs') = ToSet(segIDs) \cup {b}
    BY <2>3, <2>4 DEF ToSet
  <2>6. BuiltBatches' = BuiltBatches \cup {b}
    BY <1>1, <1>3, <1>4 DEF BuiltBatches
  <2>7. Distinct(segIDs')
    <3>1. \A k \in DOMAIN segIDs : segIDs[k] # b
      BY <1>2, <1>3 DEF Building, ToSet
    <3> QED
      BY <1>2, <2>3, <2>4, <3>1 DEF Building, Distinct
  <2>8. <<b>> \in Seq(Nat)
    BY <1>3
  <2>9. OfflineTypeOK'
    BY <1>1, <1>2, <1>3, <1>4, <2>1, <2>3, <2>8 DEF OfflineTypeOK
  <2>10. Building'
    BY <1>1, <1>2, <1>4, <2>1, <2>5, <2>6, <2>7 DEF Building
  <2> QED
    BY <1>1, <1>2, <2>9, <2>10 DEF OfflineInv
<1>5. CASE buildErr' = buildErr \cup {b} /\ UNCHANGED <<segments, segIDs>>
  <2>1. BuiltBatches' = BuiltBatches
    BY <1>1, <1>3, <1>5 DEF BuiltBatches
  <2>2. OfflineTypeOK'
    BY <1>1, <1>2, <1>3, <1>5 DEF OfflineTypeOK
  <2>3. Building'
    BY <1>1, <1>2, <1>5, <2>1 DEF Building, Distinct
  <2> QED
    BY <1>1, <1>2, <2>2, <2>3 DEF OfflineInv
<1> QED
  BY <1>4, <1>5 DEF BuildSegment

\* No batch comes any more.
LEMMA CloseOfflineKeeps == OfflineInv /\ CloseOffline => OfflineInv'
<1> SUFFICES ASSUME OfflineInv, CloseOffline PROVE OfflineInv'
  OBVIOUS
<1>1. OfflineTypeOK /\ Building
  BY DEF OfflineInv, CloseOffline
<1>2. OfflineTypeOK'
  BY <1>1 DEF OfflineTypeOK, CloseOffline
<1>3. Building'
  BY <1>1 DEF Building, BuiltBatches, Distinct, CloseOffline
<1> QED
  BY <1>2, <1>3 DEF OfflineInv, CloseOffline

\* Without tasks every file is where it was.
LEMMA HomeIs ==
  ASSUME tasks = <<>>
  PROVE  /\ \A n : ~Written(n)
         /\ \A p : Home(p) = segIDs[p]
         /\ Homes = ToSet(segIDs)
         /\ Base = segCount - 0
<1>1. DOMAIN tasks = {} /\ Len(tasks) = 0
  OBVIOUS
<1>2. \A n : ~Written(n)
  BY <1>1 DEF Written
<1>3. \A p : Home(p) = segIDs[p]
  BY <1>2 DEF Home
<1> QED
  BY <1>1, <1>2, <1>3 DEF Homes, Base, ToSet

\* The builds are through: the files, in order, have every batch once and in order.
LEMMA BuildsDoneKeeps == OfflineInv /\ BuildsDone => OfflineInv'
<1> SUFFICES ASSUME OfflineInv, BuildsDone PROVE OfflineInv'
  OBVIOUS
<1>1. OfflineTypeOK /\ Building /\ closing = "waiting"
  BY DEF OfflineInv, BuildsDone
<1>2. /\ DOMAIN builds = {} /\ DOMAIN builds' = {}
      /\ segIDs' = Ordered(segIDs) /\ tasks = <<>> /\ tasks' = <<>>
      /\ UNCHANGED <<concurrent, segCount, builds, accepted, buildErr, tasks, segments>>
  BY <1>1 DEF BuildsDone, Building
<1>3. segIDs' \in Seq(Nat) /\ Rising(segIDs') /\ ToSet(segIDs') = ToSet(segIDs)
  BY <1>1, <1>2, OrderedIs DEF OfflineTypeOK
<1>4. OfflineTypeOK'
  <2>1. closing' \in {"merging", "failed"}
    BY DEF BuildsDone
  <2> QED
    BY <1>1, <1>2, <1>3, <2>1 DEF OfflineTypeOK
<1>5. BuiltBatches = accepted \ buildErr /\ BuiltBatches' = BuiltBatches /\ DOMAIN segments = BuiltBatches
  BY <1>1, <1>2 DEF BuiltBatches, Building
<1>6. CASE buildErr # {} \/ segIDs = <<>>
  <2>1. closing' = "failed"
    BY <1>6 DEF BuildsDone
  <2>2. ASSUME NEW b \in BuiltBatches PROVE b \in DOMAIN segments' /\ b \in ToSet(segments'[b])
    <3>1. segments[b] = <<b>>
      BY <1>1 DEF Building
    <3>2. b \in ToSet(<<b>>)
      BY DEF ToSet
    <3> QED
      BY <1>2, <1>5, <3>1, <3>2
  <2>3. NothingBuiltIsLost'
    BY <1>5, <2>1, <2>2 DEF NothingBuiltIsLost, BuiltBatches
  <2> QED
    BY <1>2, <1>4, <2>1, <2>3 DEF OfflineInv
<1>7. CASE buildErr = {} /\ segIDs # <<>>
  <2>1. closing' = "merging"
    BY <1>7 DEF BuildsDone
  <2>2. segIDs' # <<>>
    <3>1. segIDs[1] \in ToSet(segIDs)
      BY <1>1, <1>7 DEF OfflineTypeOK, ToSet
    <3> QED
      BY <1>3, <3>1 DEF ToSet
  <2>3. /\ \A n : ~Written(n)' /\ \A p : Home(p)' = segIDs'[p]
        /\ Homes' = ToSet(segIDs') /\ Base' = segCount' - 0
    <3>1. /\ \A n : ~Written(n)'
      BY <1>2 DEF Written
    <3>2. \A p : Home(p)' = segIDs'[p]
      BY <3>1 DEF Home
    <3> QED
      BY <1>2, <3>1, <3>2 DEF Homes, Base, ToSet
  <2>4. \A p \in DOMAIN segIDs' : segIDs'[p] \in accepted /\ segIDs'[p] \in DOMAIN segments
    BY <1>1, <1>3, <1>5, <1>7 DEF Building, BuiltBatches, ToSet
  <2>5. \A p \in DOMAIN segIDs' : segments'[segIDs'[p]] = <<segIDs'[p]>> /\ segIDs'[p] \in Nat
    BY <1>1, <1>2, <1>5, <2>4 DEF Building, OfflineTypeOK
  <2>6. Distinct(segIDs')
    <3> SUFFICES ASSUME NEW j \in DOMAIN segIDs', NEW k \in DOMAIN segIDs', segIDs'[j] = segIDs'[k] PROVE j = k
      BY DEF Distinct
    <3>1. j \in Nat /\ k \in Nat
      BY <1>3
    <3>2. ~(j < k) /\ ~(k < j)
      BY <1>3, <2>5 DEF Rising
    <3> QED
      BY <3>1, <3>2
  <2>7. Rounds'
    <3>1. segCount \in Nat /\ segCount - 0 = segCount /\ \A i \in accepted : i \in Nat /\ i < segCount
      BY <1>1 DEF OfflineTypeOK
    <3>2. DOMAIN tasks' = {}
      BY <1>2
    <3> QED
      BY <1>2, <2>3, <2>4, <2>6, <3>1, <3>2 DEF Rounds
  <2>8. \A p \in DOMAIN segIDs' : Rising(segments'[segIDs'[p]])
    BY <2>5 DEF Rising
  <2>9. \A p, q \in DOMAIN segIDs' : p < q => Before(segments'[segIDs'[p]], segments'[segIDs'[q]])
    BY <1>3, <2>5 DEF Rising, Before
  <2>10. UNION {ToSet(segments'[i]) : i \in ToSet(segIDs')} = accepted'
    <3>1. \A i \in ToSet(segIDs) : ToSet(segments'[i]) = {i}
      BY <1>1, <1>2 DEF Building, ToSet
    <3>2. ToSet(segIDs) = accepted
      BY <1>1, <1>5, <1>7 DEF Building
    <3>3. \A x : x \in UNION {ToSet(segments'[i]) : i \in accepted} <=> x \in accepted
      BY <3>1, <3>2
    <3> QED
      BY <1>2, <1>3, <3>2, <3>3
  <2>11. Whole'
    <3>1. DOMAIN segments' = ToSet(segIDs')
      BY <1>1, <1>2, <1>3 DEF Building
    <3> QED
      BY <1>2, <2>3, <2>8, <2>9, <2>10, <3>1 DEF Whole
  <2> QED
    BY <1>2, <1>4, <1>7, <2>1, <2>2, <2>7, <2>11 DEF OfflineInv
<1> QED
  BY <1>6, <1>7
-----------------------------------------------------------------------------
(* A round of merges *)

\* What is below a number is below a greater one.
LEMMA Within ==
  ASSUME NEW m \in Nat, NEW n \in Nat, m <= n
  PROVE  0 .. m - 1 \subseteq 0 .. n - 1
OBVIOUS

\* Only the empty sequence has no elements.
LEMMA EmptyIs ==
  ASSUME NEW s \in Seq(Nat)
  PROVE  /\ Len(s) = 0 <=> s = <<>>
         /\ 1 \in DOMAIN s => s # <<>>
OBVIOUS

\* A group has the ids of its places, and shares none with another.
LEMMA GroupIds ==
  ASSUME segIDs \in Seq(Nat), segIDs # <<>>, Distinct(segIDs), NEW n \in 1 .. Groups
  PROVE  /\ ToSet(Group(n)) = {segIDs[p] : p \in {p \in DOMAIN segIDs : GroupOf(p) = n}}
         /\ Distinct(Group(n))
         /\ \A p \in DOMAIN segIDs : segIDs[p] \in ToSet(Group(n)) => GroupOf(p) = n
<1>1. Group(n) \in Seq(Nat)
  BY GroupHas
<1>2. PICK o \in Nat :
        /\ \A k \in DOMAIN Group(n) :
              o + k \in DOMAIN segIDs /\ GroupOf(o + k) = n /\ Group(n)[k] = segIDs[o + k]
        /\ \A p \in DOMAIN segIDs :
              GroupOf(p) = n => p - o \in DOMAIN Group(n) /\ Group(n)[p - o] = segIDs[p]
  BY GroupHas
<1> DEFINE g == Group(n)
<1>3. \A k \in DOMAIN g : k \in Nat
  BY <1>1
<1> HIDE DEF g
<1>4. ToSet(g) = {segIDs[p] : p \in {p \in DOMAIN segIDs : GroupOf(p) = n}}
  BY <1>2 DEF ToSet, g
<1>5. Distinct(g)
  <2> SUFFICES ASSUME NEW j \in DOMAIN g, NEW k \in DOMAIN g, g[j] = g[k] PROVE j = k
    BY DEF Distinct
  <2>1. o + j \in DOMAIN segIDs /\ o + k \in DOMAIN segIDs /\ segIDs[o + j] = segIDs[o + k]
    BY <1>2 DEF g
  <2>2. o + j = o + k
    BY <2>1 DEF Distinct
  <2> QED
    BY <1>3, <2>2
<1>6. \A p \in DOMAIN segIDs : segIDs[p] \in ToSet(g) => GroupOf(p) = n
  BY <1>4 DEF Distinct
<1> QED
  BY <1>4, <1>5, <1>6 DEF g

\* There are tasks only in a round.
LEMMA InRound ==
  ASSUME OfflineInv, tasks # <<>> \/ closing = "merging"
  PROVE  /\ closing = "merging" /\ OfflineTypeOK /\ Rounds /\ Whole
         /\ DOMAIN builds = {} /\ buildErr = {} /\ segIDs \in Seq(Nat) /\ segIDs # <<>>
         /\ DOMAIN tasks = 1 .. Len(tasks) /\ Len(tasks) \in Nat
         /\ Base + Len(tasks) = segCount
<1>1. closing = "merging"
  BY DEF OfflineInv, OfflineTypeOK, Building
<1>2. /\ OfflineTypeOK /\ Rounds /\ Whole /\ DOMAIN builds = {} /\ buildErr = {} /\ segIDs # <<>>
  BY <1>1 DEF OfflineInv
<1>3. segIDs \in Seq(Nat) /\ segCount \in Nat /\ DOMAIN tasks = 1 .. Len(tasks) /\ Len(tasks) \in Nat
  BY <1>2 DEF OfflineTypeOK
<1>4. Base + Len(tasks) = segCount
  BY <1>3 DEF Base
<1> QED
  BY <1>1, <1>2, <1>3, <1>4

\* What is known of a task.
LEMMA TaskIs ==
  ASSUME OfflineInv, NEW n \in DOMAIN tasks
  PROVE  /\ n \in Nat \ {0} /\ n \in 1 .. Groups /\ n <= Len(tasks) /\ tasks # <<>>
         /\ tasks[n] \in Tasks /\ tasks[n].left \in Seq(Nat)
         /\ tasks[n].newID \in Nat /\ tasks[n].newID >= Base /\ tasks[n].newID < segCount
         /\ \A m \in DOMAIN tasks : tasks[m].newID = tasks[n].newID => m = n
         /\ \A p \in DOMAIN segIDs : segIDs[p] # tasks[n].newID
<1>1. tasks # <<>>
  OBVIOUS
<1>2. /\ OfflineTypeOK /\ Rounds /\ DOMAIN tasks = 1 .. Len(tasks) /\ Len(tasks) \in Nat
      /\ segIDs \in Seq(Nat) /\ segIDs # <<>> /\ Base + Len(tasks) = segCount
  BY <1>1, InRound
<1>3. Groups \in Nat \ {0}
  BY <1>2, GroupsAre
<1>4. n \in Nat \ {0} /\ n <= Len(tasks) /\ n \in 1 .. Groups
  <2>1. Len(tasks) = IF LeftAlone THEN Groups - 1 ELSE Groups
    BY <1>1, <1>2 DEF Rounds
  <2>2. Len(tasks) <= Groups
    BY <1>3, <2>1
  <2> QED
    BY <1>2, <1>3, <2>2
<1>5. tasks[n] \in Tasks /\ tasks[n].left \in Seq(Nat)
  <2>1. tasks[n] \in Tasks
    BY <1>2 DEF OfflineTypeOK
  <2> QED
    BY <2>1 DEF Tasks
<1>6. Base \in Nat /\ \A m \in DOMAIN tasks : m \in Nat /\ tasks[m].newID = Base + m - 1
  BY <1>2 DEF Rounds
<1>7. tasks[n].newID \in Nat /\ tasks[n].newID >= Base /\ tasks[n].newID < segCount
  BY <1>2, <1>4, <1>6
<1>8. \A m \in DOMAIN tasks : tasks[m].newID = tasks[n].newID => m = n
  BY <1>4, <1>6
<1>9. \A p \in DOMAIN segIDs : segIDs[p] # tasks[n].newID
  <2>1. \A p \in DOMAIN segIDs : segIDs[p] \in Nat /\ segIDs[p] < Base
    BY <1>2 DEF Rounds
  <2> QED
    BY <1>6, <1>7, <2>1
<1> QED
  BY <1>1, <1>4, <1>5, <1>7, <1>8, <1>9

\* The files of a round are from before it, or its own.
LEMMA FilesAre ==
  ASSUME OfflineInv, closing = "merging"
  PROVE  \A i \in DOMAIN segments : i < segCount
<1>1. /\ OfflineTypeOK /\ Rounds /\ Whole /\ segIDs \in Seq(Nat) /\ segIDs # <<>> /\ Base + Len(tasks) = segCount
      /\ Len(tasks) \in Nat /\ DOMAIN tasks = 1 .. Len(tasks)
  BY InRound
<1>2. \A p \in DOMAIN segIDs : segIDs[p] \in Nat /\ segIDs[p] < segCount
  BY <1>1 DEF Rounds
<1>3. \A p \in DOMAIN segIDs : Home(p) < segCount
  <2> TAKE p \in DOMAIN segIDs
  <2>1. CASE Written(GroupOf(p))
    <3>1. GroupOf(p) \in DOMAIN tasks
      BY <2>1 DEF Written
    <3> QED
      BY <2>1, <3>1, TaskIs DEF Home
  <2>2. CASE ~Written(GroupOf(p))
    BY <1>2, <2>2 DEF Home
  <2> QED
    BY <2>1, <2>2
<1>4. \A n \in DOMAIN tasks : \A i \in ToSet(tasks[n].left) : i < segCount
  <2> TAKE n \in DOMAIN tasks
  <2>1. n \in 1 .. Groups
    BY TaskIs
  <2>2. ToSet(tasks[n].left) \subseteq ToSet(Group(n)) /\ Distinct(segIDs)
    BY <1>1 DEF Rounds
  <2>3. ToSet(Group(n)) = {segIDs[p] : p \in {p \in DOMAIN segIDs : GroupOf(p) = n}}
    BY <1>1, <2>1, <2>2, GroupIds
  <2> QED
    BY <1>2, <2>2, <2>3
<1> QED
  BY <1>1, <1>3, <1>4 DEF Whole, Homes

\* While there are merges, every batch is in a file.
LEMMA KeptNow ==
  ASSUME OfflineInv, closing = "merging"
  PROVE  \A b \in accepted : \E i \in DOMAIN segments : b \in ToSet(segments[i])
BY InRound DEF Whole

\* The merges of a round are planned: no file has been written yet.
LEMMA PlanRoundKeeps == OfflineInv /\ PlanRound => OfflineInv'
<1> SUFFICES ASSUME OfflineInv, PlanRound PROVE OfflineInv'
  OBVIOUS
<1> DEFINE count == IF LeftAlone THEN Groups - 1 ELSE Groups
<1>1. /\ closing = "merging" /\ tasks = <<>>
      /\ tasks' = [n \in 1 .. count |->
                     [ids |-> Group(n), newID |-> segCount + n - 1, pc |-> "todo", left |-> Group(n)]]
      /\ segCount' = segCount + count
      /\ UNCHANGED <<concurrent, segIDs, builds, accepted, buildErr, closing, segments>>
  BY DEF PlanRound
<1>2. /\ OfflineTypeOK /\ Rounds /\ Whole /\ DOMAIN builds = {} /\ buildErr = {}
      /\ segIDs \in Seq(Nat) /\ segIDs # <<>>
  BY <1>1, InRound
<1>3. Groups \in Nat \ {0} /\ count \in Nat /\ count <= Groups
  BY <1>2, GroupsAre
<1>4. segCount \in Nat /\ Distinct(segIDs) /\ \A p \in DOMAIN segIDs : segIDs[p] \in Nat /\ segIDs[p] < segCount
  BY <1>1, <1>2, HomeIs DEF Rounds, OfflineTypeOK
<1>5. (\A n : Group(n)' = Group(n)) /\ Groups' = Groups /\ LeftAlone' = LeftAlone
  BY <1>1 DEF Group, Groups, LeftAlone
<1> HIDE DEF count
<1>6. ASSUME NEW n \in 1 .. count
      PROVE  /\ n \in Nat \ {0} /\ tasks'[n] \in Tasks
             /\ tasks'[n] = [ids |-> Group(n), newID |-> segCount + n - 1, pc |-> "todo", left |-> Group(n)]
             /\ Distinct(Group(n))
             /\ tasks'[n].newID \notin DOMAIN segments
  <2>1. n \in 1 .. Groups /\ n \in Nat \ {0}
    BY <1>3
  <2>2. Group(n) \in Seq(Nat) /\ Distinct(Group(n))
    BY <1>2, <1>4, <2>1, GroupHas, GroupIds
  <2>3. segCount + n - 1 \in Nat /\ ~(segCount + n - 1 < segCount)
    BY <1>4, <2>1
  <2> QED
    BY <1>1, <2>1, <2>2, <2>3, FilesAre DEF Tasks
<1>7. tasks' \in Seq(Tasks) /\ Len(tasks') = count /\ DOMAIN tasks' = 1 .. count
  <2>1. DOMAIN tasks' = 1 .. count
    BY <1>1
  <2>2. tasks' \in [1 .. count -> Tasks]
    BY <1>1, <1>6
  <2> QED
    BY <1>3, <2>1, <2>2
<1>8. \A n : ~Written(n)'
  BY <1>1, <1>6, <1>7 DEF Written
<1>9. /\ \A p : Home(p)' = segIDs[p] /\ Home(p) = segIDs[p]
      /\ Homes' = Homes /\ Base' = segCount
  <2>1. \A p : Home(p)' = segIDs[p]
    BY <1>1, <1>8 DEF Home
  <2>2. Homes' = ToSet(segIDs)
    BY <1>1, <2>1 DEF Homes, ToSet
  <2>3. Base' = segCount
    BY <1>1, <1>3, <1>4, <1>7 DEF Base
  <2> QED
    BY <1>1, <2>1, <2>2, <2>3, HomeIs
<1>10. OfflineTypeOK'
  <2>1. segCount \in Nat /\ segCount' \in Nat /\ segCount <= segCount'
    BY <1>1, <1>3, <1>4
  <2>2. accepted' \in SUBSET (0 .. segCount' - 1)
    <3>1. \A i \in accepted : i \in 0 .. segCount - 1
      BY <1>2 DEF OfflineTypeOK
    <3>2. 0 .. segCount - 1 \subseteq 0 .. segCount' - 1
      BY <2>1, Within
    <3> QED
      BY <1>1, <3>1, <3>2
  <2> QED
    BY <1>1, <1>2, <1>7, <2>1, <2>2 DEF OfflineTypeOK
<1>11. Rounds'
  <2>1. Len(tasks') = IF LeftAlone' THEN Groups' - 1 ELSE Groups'
    BY <1>5, <1>7 DEF count
  <2>2. \A n \in DOMAIN tasks' :
          /\ tasks'[n].ids = Group(n)' /\ tasks'[n].newID = Base' + n - 1
          /\ Distinct(tasks'[n].left) /\ ToSet(tasks'[n].left) \subseteq ToSet(Group(n)')
          /\ tasks'[n].pc = "todo" /\ ~Written(n)' /\ tasks'[n].left = Group(n)'
    BY <1>5, <1>6, <1>7, <1>8, <1>9
  <2>3. Distinct(segIDs') /\ Base' \in Nat /\ \A p \in DOMAIN segIDs' : segIDs'[p] < Base'
    BY <1>1, <1>4, <1>9
  <2> QED
    BY <2>1, <2>2, <2>3 DEF Rounds
<1>12. Whole'
  <2>1. UNION {ToSet(tasks'[n].left) : n \in {n \in DOMAIN tasks' : Written(n)'}} = {}
    BY <1>8
  <2>2. UNION {ToSet(tasks[n].left) : n \in {n \in DOMAIN tasks : Written(n)}} = {}
    BY <1>1, HomeIs
  <2>3. DOMAIN segments' = Homes'
    BY <1>1, <1>2, <1>9, <2>2 DEF Whole
  <2> QED
    BY <1>1, <1>2, <1>9, <2>1, <2>3 DEF Whole
<1> QED
  BY <1>1, <1>2, <1>10, <1>11, <1>12 DEF OfflineInv

\* A task goes on, and the files stay as they are.
LEMMA TaskMoves ==
  ASSUME OfflineInv, NEW n \in DOMAIN tasks, NEW pc \in {"merging", "failed"},
         tasks' = [tasks EXCEPT ![n].pc = pc], pc = "merging" => tasks[n].pc = "todo",
         UNCHANGED <<concurrent, segCount, segIDs, builds, accepted, buildErr, closing, segments>>
  PROVE  OfflineInv'
<1>1. /\ closing = "merging" /\ OfflineTypeOK /\ Rounds /\ Whole /\ DOMAIN builds = {} /\ buildErr = {}
      /\ segIDs # <<>> /\ tasks # <<>>
  BY TaskIs, InRound
<1>2. tasks \in Seq(Tasks) /\ tasks[n] \in Tasks
  BY <1>1 DEF OfflineTypeOK
<1>3. /\ tasks' \in Seq(Tasks) /\ Len(tasks') = Len(tasks) /\ DOMAIN tasks' = DOMAIN tasks
      /\ \A m \in DOMAIN tasks : m # n => tasks'[m] = tasks[m]
      /\ tasks'[n] = [tasks[n] EXCEPT !.pc = pc]
  <2>1. [tasks[n] EXCEPT !.pc = pc] \in Tasks
    BY <1>2 DEF Tasks
  <2> QED
    BY <1>2, <2>1
<1>4. \A m \in DOMAIN tasks :
        /\ tasks'[m].ids = tasks[m].ids /\ tasks'[m].newID = tasks[m].newID /\ tasks'[m].left = tasks[m].left
        /\ tasks'[m].pc = IF m = n THEN pc ELSE tasks[m].pc
  BY <1>2, <1>3 DEF Tasks
<1>5. (\A m : Group(m)' = Group(m)) /\ Groups' = Groups /\ LeftAlone' = LeftAlone /\ Base' = Base
  BY <1>3 DEF Group, Groups, LeftAlone, Base
<1>6. \A m : Written(m)' = Written(m)
  BY <1>3, <1>4 DEF Written
<1>7. (\A p : Home(p)' = Home(p)) /\ Homes' = Homes
  <2>1. \A p : Home(p)' = Home(p)
    BY <1>4, <1>6 DEF Home, Written
  <2> QED
    BY <2>1 DEF Homes
<1>8. OfflineTypeOK'
  BY <1>1, <1>3 DEF OfflineTypeOK
<1>9. Rounds'
  <2>1. \A m \in DOMAIN tasks' :
          /\ tasks'[m].ids = Group(m)' /\ tasks'[m].newID = Base' + m - 1
          /\ Distinct(tasks'[m].left) /\ ToSet(tasks'[m].left) \subseteq ToSet(Group(m)')
          /\ tasks'[m].pc \in {"todo", "merging"} => ~Written(m)' /\ tasks'[m].left = Group(m)'
          /\ tasks'[m].pc = "removing" => Written(m)' /\ tasks'[m].left # <<>>
          /\ tasks'[m].pc = "done" => Written(m)' /\ tasks'[m].left = <<>>
    BY <1>1, <1>3, <1>4, <1>5, <1>6 DEF Rounds
  <2> QED
    BY <1>1, <1>3, <1>5, <2>1 DEF Rounds
<1>10. Whole'
  <2>1. UNION {ToSet(tasks'[m].left) : m \in {m \in DOMAIN tasks' : Written(m)'}}
          = UNION {ToSet(tasks[m].left) : m \in {m \in DOMAIN tasks : Written(m)}}
    BY <1>3, <1>4, <1>6
  <2>2. DOMAIN segments' = Homes' \cup UNION {ToSet(tasks'[m].left) : m \in {m \in DOMAIN tasks' : Written(m)'}}
    BY <1>1, <1>7, <2>1 DEF Whole
  <2>3. \A p \in DOMAIN segIDs' : Rising(segments'[Home(p)'])
    BY <1>1, <1>7 DEF Whole
  <2>4. \A p, q \in DOMAIN segIDs' :
          p < q /\ Home(p)' # Home(q)' => Before(segments'[Home(p)'], segments'[Home(q)'])
    BY <1>1, <1>7 DEF Whole
  <2>5. UNION {ToSet(segments'[i]) : i \in Homes'} = accepted'
    BY <1>1, <1>7 DEF Whole
  <2> QED
    BY <2>2, <2>3, <2>4, <2>5 DEF Whole
<1> QED
  BY <1>1, <1>8, <1>9, <1>10 DEF OfflineInv

\* A merge starts.
LEMMA StartMergeKeeps == ASSUME OfflineInv, NEW n, StartMerge(n) PROVE OfflineInv'
BY TaskMoves DEF StartMerge

\* A merge fails, before it has written its file or after.
LEMMA FailMergeKeeps == ASSUME OfflineInv, NEW n, FailMerge(n) PROVE OfflineInv'
<1>1. n \in DOMAIN tasks
  BY DEF FailMerge, Running
<1> QED
  BY <1>1, TaskMoves DEF FailMerge

\* A round is over: the new segments, and the one left alone, have everything.
LEMMA RoundDoneKeeps == OfflineInv /\ RoundDone => OfflineInv'
<1> SUFFICES ASSUME OfflineInv, RoundDone PROVE OfflineInv'
  OBVIOUS
<1>1. /\ tasks # <<>> /\ tasks' = <<>>
      /\ UNCHANGED <<concurrent, segCount, builds, accepted, buildErr, segments>>
  BY DEF RoundDone
<1>2. /\ closing = "merging" /\ OfflineTypeOK /\ Rounds /\ Whole /\ DOMAIN builds = {} /\ buildErr = {}
      /\ segIDs \in Seq(Nat) /\ segIDs # <<>>
      /\ DOMAIN tasks = 1 .. Len(tasks) /\ Len(tasks) \in Nat /\ Base + Len(tasks) = segCount
  BY <1>1, InRound
<1>3. CASE closing' = "failed" /\ UNCHANGED segIDs
  <2>1. OfflineTypeOK'
    BY <1>1, <1>2, <1>3 DEF OfflineTypeOK
  <2>2. NothingBuiltIsLost'
    BY <1>1, <1>2, <1>3, KeptNow DEF NothingBuiltIsLost
  <2> QED
    BY <1>1, <1>2, <1>3, <2>1, <2>2 DEF OfflineInv
<1>4. CASE /\ \A n \in DOMAIN tasks : tasks[n].pc = "done"
           /\ segIDs' = [n \in 1 .. Groups |-> IF n \in DOMAIN tasks THEN tasks[n].newID ELSE Last(segIDs)]
           /\ UNCHANGED closing
  <2> DEFINE L == Len(segIDs)
  <2>1. /\ L \in Nat \ {0} /\ DOMAIN segIDs = 1 .. L /\ Groups \in Nat \ {0} /\ L \in DOMAIN segIDs
        /\ \A p \in DOMAIN segIDs : p \in Nat \ {0} /\ GroupOf(p) \in 1 .. Groups
        /\ \A n \in 1 .. Groups : \E p \in DOMAIN segIDs : GroupOf(p) = n
        /\ GroupOf(L) = Groups
    BY <1>2, GroupsAre
  <2>2. DOMAIN segIDs' = 1 .. Groups /\ Last(segIDs) = segIDs[L]
    BY <1>4 DEF Last
  <2>3. Len(tasks) = IF LeftAlone THEN Groups - 1 ELSE Groups
    BY <1>1, <1>2 DEF Rounds
  <2> HIDE DEF L
  <2>4. ASSUME NEW p \in DOMAIN segIDs
        PROVE  Home(p) = segIDs'[GroupOf(p)]
    <3>1. CASE GroupOf(p) \in DOMAIN tasks
      <4>1. Written(GroupOf(p))
        BY <1>2, <1>4, <3>1 DEF Rounds
      <4> QED
        BY <1>4, <2>1, <3>1, <4>1 DEF Home
    <3>2. CASE GroupOf(p) \notin DOMAIN tasks
      <4>1. ~Written(GroupOf(p))
        BY <3>2 DEF Written
      <4>2. LeftAlone /\ GroupOf(p) = Groups
        BY <1>2, <2>1, <2>3, <3>2
      <4>3. Len(Group(Groups)) = 1 /\ Group(Groups) \in Seq(Nat) /\ Groups \in 1 .. Groups
        BY <1>2, <2>1, <4>2, GroupHas DEF LeftAlone
      <4>4. PICK o \in Nat : \A q \in DOMAIN segIDs : GroupOf(q) = Groups => q - o \in DOMAIN Group(Groups)
        BY <1>2, <4>3, GroupHas
      <4>5. DOMAIN Group(Groups) = {1}
        BY <4>3
      <4>6. p - o = 1 /\ L - o = 1
        BY <2>1, <4>2, <4>4, <4>5
      <4>7. p = L
        BY <2>1, <4>6
      <4> QED
        BY <1>4, <2>1, <2>2, <3>2, <4>1, <4>2, <4>7 DEF Home
    <3> QED
      BY <3>1, <3>2
  <2>5. \A n : ~Written(n)'
    BY <1>1 DEF Written
  <2>6. (\A p : Home(p)' = segIDs'[p]) /\ Homes' = {segIDs'[n] : n \in 1 .. Groups} /\ Base' = segCount
    <3>1. \A p : Home(p)' = segIDs'[p]
      BY <2>5 DEF Home
    <3>2. Len(tasks') = 0 /\ segCount \in Nat
      BY <1>1, <1>2 DEF OfflineTypeOK
    <3> QED
      BY <1>1, <2>2, <3>1, <3>2 DEF Homes, Base
  <2>7. Homes' = Homes
    <3>1. ASSUME NEW n \in 1 .. Groups PROVE \E p \in DOMAIN segIDs : segIDs'[n] = Home(p)
      BY <2>1, <2>4
    <3>2. ASSUME NEW p \in DOMAIN segIDs PROVE \E n \in 1 .. Groups : Home(p) = segIDs'[n]
      BY <2>1, <2>4
    <3>3. Homes' = {segIDs'[n] : n \in 1 .. Groups}
      BY <2>6
    <3> QED
      BY <3>1, <3>2, <3>3, Zenon DEF Homes
  <2>8. Base \in Nat /\ \A p \in DOMAIN segIDs : segIDs[p] \in Nat /\ segIDs[p] < Base
    BY <1>2 DEF Rounds
  <2>9. ASSUME NEW n \in 1 .. Groups
        PROVE  /\ segIDs'[n] \in Nat /\ segIDs'[n] < segCount
               /\ n \in DOMAIN tasks => segIDs'[n] = Base + n - 1
               /\ n \notin DOMAIN tasks => segIDs'[n] < Base /\ n = Groups
    <3>1. CASE n \in DOMAIN tasks
      <4>1. segIDs'[n] = tasks[n].newID /\ tasks[n].newID = Base + n - 1
        BY <1>2, <1>4, <3>1 DEF Rounds
      <4> QED
        BY <3>1, <4>1, TaskIs
    <3>2. CASE n \notin DOMAIN tasks
      <4>1. segIDs'[n] = segIDs[L] /\ segIDs[L] \in Nat /\ segIDs[L] < Base
        BY <1>4, <2>1, <2>2, <2>8, <3>2
      <4>2. n = Groups
        BY <1>2, <2>1, <2>3, <3>2
      <4> QED
        BY <1>2, <2>8, <3>2, <4>1, <4>2
    <3> QED
      BY <3>1, <3>2
  <2>10. segIDs' \in Seq(Nat) /\ segIDs' # <<>>
    <3>1. segIDs' \in [1 .. Groups -> Nat]
      BY <1>4, <2>9
    <3>2. 1 \in DOMAIN segIDs'
      BY <2>1, <2>2
    <3> QED
      BY <2>1, <3>1, <3>2
  <2>11. Distinct(segIDs')
    <3> SUFFICES ASSUME NEW j \in 1 .. Groups, NEW k \in 1 .. Groups, segIDs'[j] = segIDs'[k] PROVE j = k
      BY <2>2 DEF Distinct
    <3>1. j \in Nat /\ k \in Nat /\ Base \in Nat
      BY <2>1, <2>8
    <3>2. CASE j \in DOMAIN tasks /\ k \in DOMAIN tasks
      <4>1. segIDs'[j] = Base + j - 1 /\ segIDs'[k] = Base + k - 1
        BY <2>9, <3>2
      <4>2. Base + j - 1 = Base + k - 1
        BY <3>2, <4>1
      <4> QED
        BY <3>1, <4>2
    <3>3. CASE j \notin DOMAIN tasks /\ k \notin DOMAIN tasks
      BY <2>9, <3>3
    <3>4. ASSUME NEW m \in 1 .. Groups, NEW n \in 1 .. Groups, m \in DOMAIN tasks, n \notin DOMAIN tasks
          PROVE  segIDs'[m] # segIDs'[n]
      <4>1. segIDs'[m] = Base + m - 1 /\ segIDs'[n] < Base /\ segIDs'[n] \in Nat /\ m \in Nat \ {0}
        BY <2>1, <2>9, <3>4
      <4> QED
        BY <2>8, <4>1
    <3> QED
      BY <3>2, <3>3, <3>4
  <2>12. OfflineTypeOK'
    BY <1>1, <1>2, <1>4, <2>10 DEF OfflineTypeOK
  <2>13. Rounds'
    <3>1. DOMAIN tasks' = {} /\ segCount \in Nat
      BY <1>1, <1>2 DEF OfflineTypeOK
    <3> QED
      BY <1>1, <2>2, <2>6, <2>9, <2>11, <3>1 DEF Rounds
  <2>14. Whole'
    <3>1. UNION {ToSet(tasks[n].left) : n \in {n \in DOMAIN tasks : Written(n)}} = {}
      <4>1. \A n \in DOMAIN tasks : tasks[n].left = <<>>
        BY <1>2, <1>4 DEF Rounds
      <4>2. ToSet(<<>>) = {}
        BY DEF ToSet
      <4> QED
        BY <4>1, <4>2
    <3>2. UNION {ToSet(tasks'[n].left) : n \in {n \in DOMAIN tasks' : Written(n)'}} = {}
      BY <2>5
    <3>3. DOMAIN segments' = Homes'
      BY <1>1, <1>2, <2>7, <3>1 DEF Whole
    <3>4. \A n \in DOMAIN segIDs' : Rising(segments'[segIDs'[n]])
      <4> TAKE n \in DOMAIN segIDs'
      <4>1. PICK p \in DOMAIN segIDs : GroupOf(p) = n
        BY <2>1, <2>2
      <4>2. Home(p) = segIDs'[n] /\ Rising(segments[Home(p)])
        BY <1>2, <2>4, <4>1 DEF Whole
      <4> QED
        BY <1>1, <4>2
    <3>5. ASSUME NEW n \in DOMAIN segIDs', NEW m \in DOMAIN segIDs', n < m
          PROVE  Before(segments'[segIDs'[n]], segments'[segIDs'[m]])
      <4>1. PICK p \in DOMAIN segIDs : GroupOf(p) = n
        BY <2>1, <2>2
      <4>2. PICK q \in DOMAIN segIDs : GroupOf(q) = m
        BY <2>1, <2>2
      <4>3. p \in Nat \ {0} /\ q \in Nat \ {0} /\ n \in Nat /\ m \in Nat
        BY <2>1, <2>2
      <4>4. ~(q <= p)
        BY <3>5, <4>1, <4>2, <4>3, GroupsInOrder
      <4>5. p < q
        BY <4>3, <4>4
      <4>6. Home(p) = segIDs'[n] /\ Home(q) = segIDs'[m]
        BY <2>4, <4>1, <4>2
      <4>7. segIDs'[n] # segIDs'[m]
        BY <2>11, <3>5, <4>3 DEF Distinct
      <4> QED
        BY <1>1, <1>2, <4>5, <4>6, <4>7 DEF Whole
    <3>6. DOMAIN segments' = Homes' \cup UNION {ToSet(tasks'[n].left) : n \in {n \in DOMAIN tasks' : Written(n)'}}
      BY <3>2, <3>3
    <3>7. UNION {ToSet(segments'[i]) : i \in Homes'} = accepted'
      BY <1>1, <1>2, <2>7 DEF Whole
    <3>8. \A p \in DOMAIN segIDs' : Rising(segments'[Home(p)'])
      BY <2>6, <3>4
    <3>9. \A p, q \in DOMAIN segIDs' :
            p < q /\ Home(p)' # Home(q)' => Before(segments'[Home(p)'], segments'[Home(q)'])
      BY <2>6, <3>5
    <3> QED
      BY <3>6, <3>7, <3>8, <3>9 DEF Whole
  <2> QED
    BY <1>1, <1>2, <1>4, <2>10, <2>12, <2>13, <2>14 DEF OfflineInv
<1> QED
  BY <1>3, <1>4 DEF RoundDone

\* The last segment gets its snapshot.
LEMMA WriteSnapshotKeeps == OfflineInv /\ WriteSnapshot => OfflineInv'
<1> SUFFICES ASSUME OfflineInv, WriteSnapshot PROVE OfflineInv'
  OBVIOUS
<1>1. /\ closing = "merging" /\ tasks = <<>> /\ Len(segIDs) = 1
      /\ UNCHANGED <<concurrent, segCount, segIDs, builds, accepted, buildErr, tasks, segments>>
      /\ closing' \in {"closed", "failed"} /\ (closing' = "closed" => snapshot' = segIDs[1])
  BY DEF WriteSnapshot
<1>2. OfflineTypeOK /\ Whole /\ DOMAIN builds = {} /\ buildErr = {} /\ segIDs \in Seq(Nat)
  BY <1>1, InRound
<1>3. OfflineTypeOK'
  BY <1>1, <1>2 DEF OfflineTypeOK
<1>4. Homes = {segIDs[1]} /\ DOMAIN segIDs = {1} /\ Home(1) = segIDs[1]
  <2>1. DOMAIN segIDs = {1}
    BY <1>1, <1>2
  <2> QED
    BY <1>1, <2>1, HomeIs DEF ToSet
<1>5. DOMAIN segments = {segIDs[1]}
  <2>1. UNION {ToSet(tasks[n].left) : n \in {n \in DOMAIN tasks : Written(n)}} = {}
    BY <1>1, HomeIs
  <2> QED
    BY <1>2, <1>4, <2>1 DEF Whole
<1>6. ToSet(segments[segIDs[1]]) = accepted /\ Rising(segments[segIDs[1]])
  BY <1>2, <1>4 DEF Whole
<1>7. NothingBuiltIsLost'
  BY <1>1, <1>5, <1>6 DEF NothingBuiltIsLost
<1> QED
  BY <1>1, <1>2, <1>3, <1>7 DEF OfflineInv
\* A merge writes what its segments had, in order.
LEMMA WriteMergeKeeps == ASSUME OfflineInv, NEW n, WriteMerge(n) PROVE OfflineInv'
<1> DEFINE t   == tasks[n]
           new == Contents(t.ids)
<1>1. /\ n \in DOMAIN tasks /\ t.pc = "merging"
      /\ segments' = WithFile(t.newID, new)
      /\ tasks' = [tasks EXCEPT ![n].pc = "removing"]
      /\ UNCHANGED <<concurrent, segCount, segIDs, builds, accepted, buildErr, closing>>
  BY DEF WriteMerge
<1>2. /\ n \in Nat \ {0} /\ n \in 1 .. Groups /\ tasks # <<>> /\ t \in Tasks /\ t.newID \in Nat
      /\ \A m \in DOMAIN tasks : tasks[m].newID = t.newID => m = n
      /\ \A p \in DOMAIN segIDs : segIDs[p] # t.newID
  BY <1>1, TaskIs
<1>3. /\ closing = "merging" /\ OfflineTypeOK /\ Rounds /\ Whole /\ DOMAIN builds = {} /\ buildErr = {}
      /\ segIDs \in Seq(Nat) /\ segIDs # <<>>
  BY <1>2, InRound
<1>4. tasks \in Seq(Tasks) /\ t.ids = Group(n) /\ t.left = Group(n) /\ ~Written(n) /\ Distinct(segIDs)
  BY <1>1, <1>3 DEF OfflineTypeOK, Rounds
<1>5. t.newID \notin DOMAIN segments
  BY <1>1, <1>4 DEF Written
<1>6. /\ Group(n) \in Seq(Nat) /\ Group(n) # <<>>
      /\ ToSet(Group(n)) = {segIDs[p] : p \in {p \in DOMAIN segIDs : GroupOf(p) = n}}
  BY <1>2, <1>3, <1>4, GroupHas, GroupIds
<1>7. \A p \in DOMAIN segIDs : GroupOf(p) = n => Home(p) = segIDs[p]
  BY <1>4 DEF Home
<1>8. \A p \in DOMAIN segIDs : p \in Nat \ {0} /\ Home(p) \in DOMAIN segments /\ segments[Home(p)] \in Seq(Nat)
  <2>1. \A p \in DOMAIN segIDs : Home(p) \in DOMAIN segments
    BY <1>3 DEF Whole, Homes
  <2> QED
    BY <1>3, <2>1, GroupsAre DEF OfflineTypeOK
\* What the merge writes.
<1>9. new \in Seq(Nat) /\ Rising(new) /\ ToSet(new) = UNION {ToSet(segments[i]) : i \in ToSet(Group(n))}
  <2> DEFINE g    == Group(n)
             seqs == [k \in 1 .. Len(g) |-> segments[g[k]]]
  <2>1. PICK o \in Nat : \A k \in DOMAIN g :
           o + k \in DOMAIN segIDs /\ GroupOf(o + k) = n /\ g[k] = segIDs[o + k]
    BY <1>2, <1>3, GroupHas
  <2>2. DOMAIN g = 1 .. Len(g) /\ Len(g) \in Nat /\ Len(g) # 0 /\ g \in Seq(Nat)
    BY <1>6
  <2> HIDE DEF g
  <2>3. \A k \in 1 .. Len(g) : k \in Nat /\ o + k \in DOMAIN segIDs /\ g[k] = Home(o + k)
    BY <1>7, <2>1, <2>2
  <2>4. seqs \in Seq(Seq(Nat)) /\ seqs # <<>> /\ DOMAIN seqs = 1 .. Len(g)
    <3>1. \A k \in 1 .. Len(g) : segments[g[k]] \in Seq(Nat)
      BY <1>8, <2>3
    <3>2. seqs \in [1 .. Len(g) -> Seq(Nat)]
      BY <3>1
    <3>3. 1 \in DOMAIN seqs
      BY <2>2
    <3> QED
      BY <2>2, <3>2, <3>3
  <2>5. \A k \in DOMAIN seqs : Rising(seqs[k])
    BY <1>3, <2>3 DEF Whole
  <2>6. ASSUME NEW j \in DOMAIN seqs, NEW k \in DOMAIN seqs, j < k
        PROVE  Before(seqs[j], seqs[k])
    <3>1. /\ j \in 1 .. Len(g) /\ k \in 1 .. Len(g) /\ o + j < o + k
          /\ o + j \in DOMAIN segIDs /\ o + k \in DOMAIN segIDs
      BY <2>3, <2>4, <2>6
    <3>2. segIDs[o + j] # segIDs[o + k]
      BY <1>4, <1>8, <3>1 DEF Distinct
    <3>3. Home(o + j) # Home(o + k) /\ Home(o + j) = g[j] /\ Home(o + k) = g[k]
      BY <1>7, <2>1, <2>2, <2>3, <3>1, <3>2
    <3>4. Before(segments[g[j]], segments[g[k]])
      BY <1>3, <3>1, <3>3 DEF Whole
    <3> QED
      BY <3>1, <3>4
  <2>7. new = FlattenSeq(seqs)
    BY <1>4 DEF Contents, g
  <2> HIDE DEF new
  <2>a. \A k \in 1 .. Len(g) : seqs[k] = segments[g[k]]
    OBVIOUS
  <2> HIDE DEF seqs
  <2>8. UNION {ToSet(seqs[k]) : k \in DOMAIN seqs} = UNION {ToSet(segments[i]) : i \in ToSet(g)}
    <3>1. ToSet(g) = {g[k] : k \in 1 .. Len(g)}
      BY <2>2 DEF ToSet
    <3>2. \A k \in 1 .. Len(g) : ToSet(seqs[k]) = ToSet(segments[g[k]])
      BY <2>a
    <3>3. \A x : x \in UNION {ToSet(seqs[k]) : k \in DOMAIN seqs}
                  <=> \E k \in 1 .. Len(g) : x \in ToSet(segments[g[k]])
      BY <2>4, <3>2
    <3>4. \A x : x \in UNION {ToSet(segments[i]) : i \in ToSet(g)}
                  <=> \E k \in 1 .. Len(g) : x \in ToSet(segments[g[k]])
      BY <3>1
    <3> QED
      BY <3>3, <3>4
  <2>9. new \in Seq(Nat) /\ Rising(new) /\ ToSet(new) = UNION {ToSet(seqs[k]) : k \in DOMAIN seqs}
    BY <2>4, <2>5, <2>6, <2>7, FlattenRises
  <2> QED
    BY <2>8, <2>9 DEF g
<1> HIDE DEF new
\* The tasks and the files after it.
<1>10. /\ tasks' \in Seq(Tasks) /\ Len(tasks') = Len(tasks) /\ DOMAIN tasks' = DOMAIN tasks
       /\ \A m \in DOMAIN tasks :
            /\ tasks'[m].ids = tasks[m].ids /\ tasks'[m].newID = tasks[m].newID /\ tasks'[m].left = tasks[m].left
            /\ tasks'[m].pc = IF m = n THEN "removing" ELSE tasks[m].pc
  <2>1. [t EXCEPT !.pc = "removing"] \in Tasks
    BY <1>2 DEF Tasks
  <2>2. tasks' = [tasks EXCEPT ![n] = [t EXCEPT !.pc = "removing"]]
    BY <1>1
  <2>3. /\ tasks' \in Seq(Tasks) /\ Len(tasks') = Len(tasks) /\ DOMAIN tasks' = DOMAIN tasks
        /\ \A m \in DOMAIN tasks : m # n => tasks'[m] = tasks[m]
        /\ tasks'[n] = [t EXCEPT !.pc = "removing"]
    BY <1>1, <1>4, <2>1, <2>2
  <2> QED
    BY <1>1, <1>2, <2>3 DEF Tasks
<1>11. /\ DOMAIN segments' = DOMAIN segments \cup {t.newID}
       /\ segments'[t.newID] = new /\ \A i \in DOMAIN segments : segments'[i] = segments[i]
  BY <1>1, <1>5 DEF WithFile
<1> HIDE DEF t
<1>12. (\A m : Group(m)' = Group(m)) /\ Groups' = Groups /\ LeftAlone' = LeftAlone /\ Base' = Base
  BY <1>1, <1>10 DEF Group, Groups, LeftAlone, Base
<1>13. Written(n)' /\ \A m : m # n => Written(m)' = Written(m)
  BY <1>1, <1>2, <1>10, <1>11 DEF Written, t
<1>14. \A p \in DOMAIN segIDs : Home(p)' = IF GroupOf(p) = n THEN t.newID ELSE Home(p)
  <2> TAKE p \in DOMAIN segIDs
  <2>1. CASE GroupOf(p) = n
    BY <1>1, <1>10, <1>13, <2>1 DEF Home, t
  <2>2. CASE GroupOf(p) # n
    <3>1. Written(GroupOf(p))' = Written(GroupOf(p)) /\ segIDs' = segIDs
      BY <1>1, <1>13, <2>2
    <3>2. Written(GroupOf(p)) => tasks'[GroupOf(p)].newID = tasks[GroupOf(p)].newID
      BY <1>10 DEF Written
    <3> QED
      BY <2>2, <3>1, <3>2 DEF Home
  <2> QED
    BY <2>1, <2>2
<1>15. PICK p0 \in DOMAIN segIDs : GroupOf(p0) = n
  BY <1>2, <1>3, GroupsAre
\* The homes before it are those after it and the segments that were merged.
<1>16. Homes' = {t.newID} \cup {Home(p) : p \in {p \in DOMAIN segIDs : GroupOf(p) # n}}
  BY <1>1, <1>14, <1>15 DEF Homes
<1>17. Homes = ToSet(Group(n)) \cup {Home(p) : p \in {p \in DOMAIN segIDs : GroupOf(p) # n}}
  BY <1>6, <1>7 DEF Homes
<1>18. OfflineTypeOK'
  <2>1. \A i \in DOMAIN segments' : i \in Nat /\ segments'[i] \in Seq(Nat)
    BY <1>2, <1>3, <1>9, <1>11 DEF OfflineTypeOK
  <2> QED
    BY <1>1, <1>3, <1>10, <2>1 DEF OfflineTypeOK
<1>19. Rounds'
  <2>1. ASSUME NEW m \in DOMAIN tasks'
        PROVE  /\ tasks'[m].ids = Group(m)' /\ tasks'[m].newID = Base' + m - 1
               /\ Distinct(tasks'[m].left) /\ ToSet(tasks'[m].left) \subseteq ToSet(Group(m)')
               /\ tasks'[m].pc \in {"todo", "merging"} => ~Written(m)' /\ tasks'[m].left = Group(m)'
               /\ tasks'[m].pc = "removing" => Written(m)' /\ tasks'[m].left # <<>>
               /\ tasks'[m].pc = "done" => Written(m)' /\ tasks'[m].left = <<>>
    <3>1. /\ tasks'[m].ids = Group(m)' /\ tasks'[m].newID = Base' + m - 1
          /\ Distinct(tasks'[m].left) /\ ToSet(tasks'[m].left) \subseteq ToSet(Group(m)')
      BY <1>3, <1>10, <1>12 DEF Rounds
    <3>2. CASE m = n
      BY <1>4, <1>6, <1>10, <1>13, <3>1, <3>2 DEF t
    <3>3. CASE m # n
      BY <1>3, <1>10, <1>12, <1>13, <3>1, <3>3 DEF Rounds
    <3> QED
      BY <3>2, <3>3
  <2> QED
    BY <1>1, <1>3, <1>10, <1>12, <2>1 DEF Rounds
<1>20. Whole'
  <2>1. UNION {ToSet(tasks'[m].left) : m \in {m \in DOMAIN tasks' : Written(m)'}}
          = ToSet(Group(n)) \cup (UNION {ToSet(tasks[m].left) : m \in {m \in DOMAIN tasks : Written(m)}})
    <3>1. {m \in DOMAIN tasks' : Written(m)'} = {n} \cup {m \in DOMAIN tasks : Written(m)}
      BY <1>1, <1>4, <1>10, <1>13
    <3>2. \A m \in DOMAIN tasks : tasks'[m].left = tasks[m].left
      BY <1>10
    <3>3. tasks'[n].left = Group(n)
      BY <1>1, <1>4, <3>2 DEF t
    <3> QED
      BY <3>1, <3>2, <3>3
  <2>2. DOMAIN segments' = Homes' \cup UNION {ToSet(tasks'[m].left) : m \in {m \in DOMAIN tasks' : Written(m)'}}
    BY <1>3, <1>11, <1>16, <1>17, <2>1 DEF Whole
  <2>3. \A p \in DOMAIN segIDs : segments'[Home(p)'] = IF GroupOf(p) = n THEN new ELSE segments[Home(p)]
    BY <1>8, <1>11, <1>14
  <2>4. \A p \in DOMAIN segIDs' : Rising(segments'[Home(p)'])
    BY <1>1, <1>3, <1>9, <2>3 DEF Whole
  <2>5. ASSUME NEW p \in DOMAIN segIDs', NEW q \in DOMAIN segIDs', p < q, Home(p)' # Home(q)'
        PROVE  Before(segments'[Home(p)'], segments'[Home(q)'])
    <3>1. p \in DOMAIN segIDs /\ q \in DOMAIN segIDs
      BY <1>1
    <3>2. ~(GroupOf(p) = n /\ GroupOf(q) = n)
      BY <1>14, <2>5, <3>1
    <3>3. \A r \in DOMAIN segIDs : GroupOf(r) = n => Home(r) \in ToSet(Group(n))
      BY <1>6, <1>7
    <3>n. \A r, s \in DOMAIN segIDs : GroupOf(r) = n /\ GroupOf(s) # n => Home(r) # Home(s)
      <4> SUFFICES ASSUME NEW r \in DOMAIN segIDs, NEW s \in DOMAIN segIDs, GroupOf(r) = n, GroupOf(s) # n
                   PROVE  Home(r) # Home(s)
        OBVIOUS
      <4>1. Home(r) = segIDs[r]
        BY <1>7
      <4>2. CASE Written(GroupOf(s))
        <5>1. GroupOf(s) \in DOMAIN tasks
          BY <4>2 DEF Written
        <5> QED
          BY <4>1, <4>2, <5>1, TaskIs DEF Home
      <4>3. CASE ~Written(GroupOf(s))
        BY <1>4, <4>1, <4>3 DEF Home, Distinct
      <4> QED
        BY <4>2, <4>3
    <3>4. CASE GroupOf(p) # n /\ GroupOf(q) # n
      <4>1. Home(p) # Home(q)
        BY <1>14, <2>5, <3>1, <3>4
      <4> QED
        BY <1>3, <2>3, <2>5, <3>1, <3>4, <4>1 DEF Whole
    <3>5. CASE GroupOf(p) = n /\ GroupOf(q) # n
      <4>1. \A r \in DOMAIN segIDs : GroupOf(r) = n => r < q
        <5> SUFFICES ASSUME NEW r \in DOMAIN segIDs, GroupOf(r) = n, ~(r < q) PROVE FALSE
          OBVIOUS
        <5>1. p \in Nat \ {0} /\ q \in Nat \ {0} /\ r \in Nat \ {0} /\ p <= q /\ q <= r
          BY <1>8, <2>5, <3>1
        <5>2. n <= GroupOf(q) /\ GroupOf(q) <= n /\ GroupOf(q) \in Nat
          BY <3>5, <5>1, GroupsInOrder, GroupIs
        <5> QED
          BY <1>2, <3>5, <5>2
      <4>2. \A r \in DOMAIN segIDs : GroupOf(r) = n => Before(segments[segIDs[r]], segments[Home(q)])
        <5> TAKE r \in DOMAIN segIDs
        <5> HAVE GroupOf(r) = n
        <5>1. r < q /\ Home(r) # Home(q) /\ Home(r) = segIDs[r]
          BY <1>7, <3>1, <3>5, <3>n, <4>1
        <5> QED
          BY <1>3, <3>1, <5>1 DEF Whole
      <4>3. \A i \in ToSet(Group(n)) : Before(segments[i], segments[Home(q)])
        BY <1>6, <4>2
      <4>4. Before(new, segments[Home(q)])
        <5>1. \A k \in DOMAIN new : \E i \in ToSet(Group(n)) : new[k] \in ToSet(segments[i])
          BY <1>9 DEF ToSet
        <5> QED
          BY <4>3, <5>1 DEF Before, ToSet
      <4> QED
        BY <2>3, <3>1, <3>5, <4>4
    <3>6. CASE GroupOf(p) # n /\ GroupOf(q) = n
      <4>1. \A r \in DOMAIN segIDs : GroupOf(r) = n => p < r
        <5> SUFFICES ASSUME NEW r \in DOMAIN segIDs, GroupOf(r) = n, ~(p < r) PROVE FALSE
          OBVIOUS
        <5>1. p \in Nat \ {0} /\ q \in Nat \ {0} /\ r \in Nat \ {0} /\ p <= q /\ r <= p
          BY <1>8, <2>5, <3>1
        <5>2. n <= GroupOf(p) /\ GroupOf(p) <= n /\ GroupOf(p) \in Nat
          BY <3>6, <5>1, GroupsInOrder, GroupIs
        <5> QED
          BY <1>2, <3>6, <5>2
      <4>2. \A r \in DOMAIN segIDs : GroupOf(r) = n => Before(segments[Home(p)], segments[segIDs[r]])
        <5> TAKE r \in DOMAIN segIDs
        <5> HAVE GroupOf(r) = n
        <5>1. p < r /\ Home(p) # Home(r) /\ Home(r) = segIDs[r]
          BY <1>7, <3>1, <3>6, <3>n, <4>1
        <5> QED
          BY <1>3, <3>1, <5>1 DEF Whole
      <4>3. \A i \in ToSet(Group(n)) : Before(segments[Home(p)], segments[i])
        BY <1>6, <4>2
      <4>4. Before(segments[Home(p)], new)
        <5>1. \A k \in DOMAIN new : \E i \in ToSet(Group(n)) : new[k] \in ToSet(segments[i])
          BY <1>9 DEF ToSet
        <5> QED
          BY <4>3, <5>1 DEF Before, ToSet
      <4> QED
        BY <2>3, <3>1, <3>6, <4>4
    <3> QED
      BY <3>2, <3>4, <3>5, <3>6
  <2>6. UNION {ToSet(segments'[i]) : i \in Homes'} = accepted'
    <3> DEFINE Rest == {Home(p) : p \in {p \in DOMAIN segIDs : GroupOf(p) # n}}
    <3>1. \A i \in Rest : i \in DOMAIN segments
      BY <1>8
    <3>2. Homes' = {t.newID} \cup Rest /\ Homes = ToSet(Group(n)) \cup Rest
      BY <1>16, <1>17
    <3> HIDE DEF Rest
    <3>3. \A i \in Rest : segments'[i] = segments[i]
      BY <1>11, <3>1
    <3>4. UNION {ToSet(segments'[i]) : i \in Homes'} = ToSet(new) \cup (UNION {ToSet(segments[i]) : i \in Rest})
      BY <1>11, <3>2, <3>3
    <3>5. UNION {ToSet(segments[i]) : i \in Homes}
            = (UNION {ToSet(segments[i]) : i \in ToSet(Group(n))}) \cup (UNION {ToSet(segments[i]) : i \in Rest})
      BY <3>2
    <3> QED
      BY <1>1, <1>3, <1>9, <3>4, <3>5 DEF Whole
  <2> QED
    BY <2>2, <2>4, <2>5, <2>6 DEF Whole
<1> QED
  BY <1>1, <1>3, <1>18, <1>19, <1>20 DEF OfflineInv

\* A file that went into a merge goes, and nobody's documents are there any more.
LEMMA RemoveInputKeeps == ASSUME OfflineInv, NEW n, RemoveInput(n) PROVE OfflineInv'
<1> DEFINE t == tasks[n]
           x == Head(t.left)
           now == IF Len(t.left) = 1 THEN "done" ELSE t.pc
<1>1. /\ n \in DOMAIN tasks /\ t.pc = "removing"
      /\ segments' = WithoutFile(x)
      /\ tasks' = [tasks EXCEPT ![n].left = Tail(@), ![n].pc = now]
      /\ UNCHANGED <<concurrent, segCount, segIDs, builds, accepted, buildErr, closing>>
  BY DEF RemoveInput, Removable
<1>2. /\ n \in 1 .. Groups /\ tasks # <<>> /\ t \in Tasks /\ t.left \in Seq(Nat)
  BY <1>1, TaskIs
<1>3. /\ closing = "merging" /\ OfflineTypeOK /\ Rounds /\ Whole /\ DOMAIN builds = {} /\ buildErr = {}
      /\ segIDs \in Seq(Nat) /\ segIDs # <<>>
  BY <1>2, InRound
<1>4. /\ tasks \in Seq(Tasks) /\ Written(n) /\ t.left # <<>> /\ Distinct(t.left) /\ Distinct(segIDs)
      /\ ToSet(t.left) \subseteq ToSet(Group(n))
  BY <1>1, <1>3 DEF OfflineTypeOK, Rounds
<1>5. /\ x = t.left[1] /\ x \in ToSet(t.left) /\ Tail(t.left) \in Seq(Nat)
      /\ ToSet(Tail(t.left)) = ToSet(t.left) \ {x} /\ Distinct(Tail(t.left))
      /\ now = "done" => Tail(t.left) = <<>>
      /\ now # "done" => now = "removing" /\ Tail(t.left) # <<>>
  <2> DEFINE s == t.left
             L == Len(t.left)
  <2>1. s \in Seq(Nat) /\ s # <<>> /\ Distinct(s) /\ L = Len(s) /\ L \in Nat /\ DOMAIN s = 1 .. L /\ L # 0
    BY <1>2, <1>4
  <2> HIDE DEF s, L
  <2>2. /\ Head(s) = s[1] /\ Tail(s) \in Seq(Nat) /\ Len(Tail(s)) = L - 1
        /\ \A k \in 1 .. L - 1 : Tail(s)[k] = s[k + 1]
    BY <2>1
  <2>3. DOMAIN Tail(s) = 1 .. L - 1 /\ 1 \in 1 .. L
    BY <2>1, <2>2
  <2>4. \A k \in 1 .. L - 1 : k \in Nat /\ k + 1 \in 1 .. L /\ k + 1 # 1
    BY <2>1
  <2>5. \A k \in 1 .. L : k = 1 \/ (k - 1 \in 1 .. L - 1 /\ (k - 1) + 1 = k)
    BY <2>1
  <2>6. ToSet(Tail(s)) = ToSet(s) \ {s[1]}
    <3>1. ToSet(Tail(s)) = {s[k + 1] : k \in 1 .. L - 1}
      BY <2>2, <2>3 DEF ToSet
    <3>2. \A k \in 1 .. L - 1 : s[k + 1] # s[1]
      BY <2>1, <2>3, <2>4 DEF Distinct
    <3>3. \A k \in 1 .. L : s[k] = s[1] \/ s[k] \in {s[j + 1] : j \in 1 .. L - 1}
      BY <2>5
    <3>4. \A k \in 1 .. L - 1 : s[k + 1] \in ToSet(s)
      BY <2>1, <2>4 DEF ToSet
    <3> QED
      BY <2>1, <3>1, <3>2, <3>3, <3>4 DEF ToSet
  <2>7. Distinct(Tail(s))
    <3> SUFFICES ASSUME NEW j \in 1 .. L - 1, NEW k \in 1 .. L - 1, Tail(s)[j] = Tail(s)[k] PROVE j = k
      BY <2>3 DEF Distinct
    <3>1. s[j + 1] = s[k + 1]
      BY <2>2
    <3>2. j + 1 = k + 1
      BY <2>1, <2>4, <3>1 DEF Distinct
    <3> QED
      BY <2>4, <3>2
  <2>8. L = 1 => Tail(s) = <<>>
    <3> HAVE L = 1
    <3>1. Len(Tail(s)) = 0
      BY <2>2
    <3> QED
      BY <2>2, <3>1, EmptyIs
  <2>9. L # 1 => Tail(s) # <<>>
    <3> HAVE L # 1
    <3>1. 1 \in DOMAIN Tail(s)
      BY <2>1, <2>3
    <3> QED
      BY <2>2, <3>1, EmptyIs
  <2>10. s[1] \in ToSet(s)
    BY <2>1, <2>3 DEF ToSet
  <2>11. now = IF L = 1 THEN "done" ELSE "removing"
    BY <1>1 DEF L
  <2> QED
    BY <2>2, <2>6, <2>7, <2>8, <2>9, <2>10, <2>11 DEF s
<1> HIDE DEF x, now
<1>6. /\ tasks' \in Seq(Tasks) /\ Len(tasks') = Len(tasks) /\ DOMAIN tasks' = DOMAIN tasks
      /\ \A m \in DOMAIN tasks :
            /\ tasks'[m].ids = tasks[m].ids /\ tasks'[m].newID = tasks[m].newID
            /\ tasks'[m].left = IF m = n THEN Tail(t.left) ELSE tasks[m].left
            /\ tasks'[m].pc = IF m = n THEN now ELSE tasks[m].pc
  <2> DEFINE new == [t EXCEPT !.left = Tail(t.left), !.pc = now]
  <2>1. new \in Tasks
    BY <1>2, <1>5 DEF Tasks
  <2>2. tasks' = [tasks EXCEPT ![n] = new] /\ n \in DOMAIN tasks
    BY <1>1
  <2>4. new.ids = t.ids /\ new.newID = t.newID /\ new.left = Tail(t.left) /\ new.pc = now
    BY <1>2 DEF Tasks
  <2> HIDE DEF new, t
  <2>3. /\ tasks' \in Seq(Tasks) /\ Len(tasks') = Len(tasks) /\ DOMAIN tasks' = DOMAIN tasks
        /\ \A m \in DOMAIN tasks : m # n => tasks'[m] = tasks[m]
        /\ tasks'[n] = new
    BY <1>4, <2>1, <2>2
  <2> QED
    BY <2>3, <2>4 DEF t
<1>u. UNCHANGED <<concurrent, segCount, segIDs, builds, accepted, buildErr, closing>>
  BY <1>1
\* The file is not the home of any place, and no other task has still to remove it.
<1>7. PICK p0 \in DOMAIN segIDs : x = segIDs[p0] /\ GroupOf(p0) = n
  <2>1. ToSet(Group(n)) = {segIDs[p] : p \in {p \in DOMAIN segIDs : GroupOf(p) = n}}
    BY <1>2, <1>3, <1>4, GroupIds
  <2> QED
    BY <1>4, <1>5, <2>1
<1>8. \A p \in DOMAIN segIDs : Home(p) # x
  <2> TAKE p \in DOMAIN segIDs
  <2>1. CASE Written(GroupOf(p))
    <3>1. GroupOf(p) \in DOMAIN tasks
      BY <2>1 DEF Written
    <3> QED
      BY <1>7, <2>1, <3>1, TaskIs DEF Home
  <2>2. CASE ~Written(GroupOf(p))
    <3>1. p # p0
      BY <1>4, <1>7, <2>2
    <3> QED
      BY <1>4, <1>7, <2>2, <3>1 DEF Home, Distinct
  <2> QED
    BY <2>1, <2>2
<1>9. \A m \in DOMAIN tasks : m # n => x \notin ToSet(tasks[m].left)
  <2> SUFFICES ASSUME NEW m \in DOMAIN tasks, x \in ToSet(tasks[m].left) PROVE m = n
    OBVIOUS
  <2>1. ToSet(tasks[m].left) \subseteq ToSet(Group(m)) /\ m \in 1 .. Groups
    BY <1>3, TaskIs DEF Rounds
  <2> QED
    BY <1>3, <1>4, <1>7, <2>1, GroupIds
<1>10. /\ DOMAIN segments' = DOMAIN segments \ {x}
       /\ \A i \in DOMAIN segments' : segments'[i] = segments[i]
  BY <1>1 DEF WithoutFile
<1>11. (\A m : Group(m)' = Group(m)) /\ Groups' = Groups /\ LeftAlone' = LeftAlone /\ Base' = Base
  BY <1>1, <1>6 DEF Group, Groups, LeftAlone, Base
<1>12. \A m : Written(m)' = Written(m)
  <2>1. \A m \in DOMAIN tasks : tasks[m].newID # x
    BY <1>7, TaskIs
  <2> QED
    BY <1>6, <1>10, <2>1 DEF Written
<1>13. (\A p : Home(p)' = Home(p)) /\ Homes' = Homes
  <2>1. \A p : Home(p)' = Home(p)
    <3> TAKE p
    <3>1. Written(GroupOf(p)) => tasks'[GroupOf(p)].newID = tasks[GroupOf(p)].newID
      BY <1>6 DEF Written
    <3> QED
      BY <1>1, <1>12, <3>1 DEF Home
  <2> QED
    BY <1>1, <2>1 DEF Homes
<1>14. \A p \in DOMAIN segIDs : Home(p) \in DOMAIN segments' /\ segments'[Home(p)] = segments[Home(p)]
  <2>1. \A p \in DOMAIN segIDs : Home(p) \in DOMAIN segments
    BY <1>3 DEF Whole, Homes
  <2> QED
    BY <1>8, <1>10, <2>1
<1>15. OfflineTypeOK'
  <2>1. \A i \in DOMAIN segments' : i \in Nat /\ segments'[i] \in Seq(Nat)
    BY <1>3, <1>10 DEF OfflineTypeOK
  <2> QED
    BY <1>1, <1>3, <1>6, <2>1 DEF OfflineTypeOK
<1>16. Rounds'
  <2>1. ASSUME NEW m \in DOMAIN tasks'
        PROVE  /\ tasks'[m].ids = Group(m)' /\ tasks'[m].newID = Base' + m - 1
               /\ Distinct(tasks'[m].left) /\ ToSet(tasks'[m].left) \subseteq ToSet(Group(m)')
               /\ tasks'[m].pc \in {"todo", "merging"} => ~Written(m)' /\ tasks'[m].left = Group(m)'
               /\ tasks'[m].pc = "removing" => Written(m)' /\ tasks'[m].left # <<>>
               /\ tasks'[m].pc = "done" => Written(m)' /\ tasks'[m].left = <<>>
    <3>1. tasks'[m].ids = Group(m)' /\ tasks'[m].newID = Base' + m - 1
      BY <1>3, <1>6, <1>11 DEF Rounds
    <3>2. CASE m = n
      <4>1. tasks'[m].left = Tail(t.left) /\ tasks'[m].pc = now /\ Written(m)'
        BY <1>4, <1>6, <1>12, <3>2
      <4>2. ToSet(tasks'[m].left) \subseteq ToSet(Group(m)') /\ Distinct(tasks'[m].left)
        BY <1>4, <1>5, <1>11, <3>2, <4>1
      <4> QED
        BY <1>5, <3>1, <4>1, <4>2
    <3>3. CASE m # n
      <4>1. tasks'[m].left = tasks[m].left /\ tasks'[m].pc = tasks[m].pc
        BY <1>6, <3>3
      <4> QED
        BY <1>3, <1>6, <1>11, <1>12, <3>1, <4>1 DEF Rounds
    <3> QED
      BY <3>2, <3>3
  <2> QED
    BY <1>3, <1>6, <1>11, <1>u, <2>1 DEF Rounds
<1>17. Whole'
  <2> DEFINE W == {m \in DOMAIN tasks : Written(m)}
  <2>1. {m \in DOMAIN tasks' : Written(m)'} = W /\ n \in W
    BY <1>1, <1>4, <1>6, <1>12
  <2>2. \A m \in W : ToSet(tasks'[m].left) = ToSet(tasks[m].left) \ {x}
    BY <1>5, <1>6, <1>9
  <2> HIDE DEF W
  <2>3. UNION {ToSet(tasks'[m].left) : m \in W} = (UNION {ToSet(tasks[m].left) : m \in W}) \ {x}
    BY <2>2
  <2>4. x \notin Homes
    BY <1>8 DEF Homes
  <2>5. DOMAIN segments = Homes \cup UNION {ToSet(tasks[m].left) : m \in W}
    BY <1>3 DEF Whole, W
  <2>6. DOMAIN segments' = Homes' \cup UNION {ToSet(tasks'[m].left) : m \in {m \in DOMAIN tasks' : Written(m)'}}
    BY <1>10, <1>13, <2>1, <2>3, <2>4, <2>5
  <2>7. \A p \in DOMAIN segIDs' : Rising(segments'[Home(p)'])
    BY <1>1, <1>3, <1>13, <1>14 DEF Whole
  <2>8. \A p, q \in DOMAIN segIDs' :
          p < q /\ Home(p)' # Home(q)' => Before(segments'[Home(p)'], segments'[Home(q)'])
    BY <1>1, <1>3, <1>13, <1>14 DEF Whole
  <2>9. \A i \in Homes : segments'[i] = segments[i]
    BY <1>14 DEF Homes
  <2>10. UNION {ToSet(segments'[i]) : i \in Homes'} = accepted'
    BY <1>1, <1>3, <1>13, <2>9 DEF Whole
  <2> QED
    BY <2>6, <2>7, <2>8, <2>10 DEF Whole
<1> QED
  BY <1>1, <1>3, <1>15, <1>16, <1>17 DEF OfflineInv

\* Every step keeps the invariant.
LEMMA OfflineInductive == OfflineInv /\ [OfflineNext]_offlineVars => OfflineInv'
<1> SUFFICES ASSUME OfflineInv, [OfflineNext]_offlineVars PROVE OfflineInv'
  OBVIOUS
<1>1. CASE UNCHANGED offlineVars
  <2>1. UNCHANGED <<concurrent, segCount, segIDs, builds, accepted, buildErr, closing, tasks, segments, snapshot>>
    BY <1>1 DEF offlineVars
  <2>2. OfflineTypeOK' = OfflineTypeOK
    BY <2>1 DEF OfflineTypeOK
  <2>3. Building' = Building
    BY <2>1 DEF Building, BuiltBatches, Distinct
  <2>4. (\A n : Group(n)' = Group(n)) /\ Groups' = Groups /\ LeftAlone' = LeftAlone /\ Base' = Base
    BY <2>1 DEF Group, Groups, LeftAlone, Base
  <2>5. \A n : Written(n)' = Written(n)
    BY <2>1 DEF Written
  <2>6. (\A p : Home(p)' = Home(p)) /\ Homes' = Homes
    <3>1. \A p : Home(p)' = Home(p)
      BY <2>1, <2>5 DEF Home
    <3> QED
      BY <2>1, <3>1 DEF Homes
  <2>7. Rounds => Rounds'
    BY <2>1, <2>4, <2>5 DEF Rounds
  <2>8. Whole => Whole'
    BY <2>1, <2>5, <2>6 DEF Whole
  <2>9. NothingBuiltIsLost' = NothingBuiltIsLost
    BY <2>1 DEF NothingBuiltIsLost
  <2> QED
    BY <2>1, <2>2, <2>3, <2>7, <2>8, <2>9 DEF OfflineInv
<1>2. CASE OfflineNext
  BY <1>2, OfflineBatchKeeps, CloseOfflineKeeps, BuildsDoneKeeps, PlanRoundKeeps, RoundDoneKeeps,
     WriteSnapshotKeeps, StartBuildKeeps, BuildSegmentKeeps, StartMergeKeeps, FailMergeKeeps, WriteMergeKeeps,
     RemoveInputKeeps DEF OfflineNext
<1> QED
  BY <1>1, <1>2

\* In every phase it says that nothing is lost.
LEMMA OfflineInvKeepsAll == OfflineInv => NothingBuiltIsLost
<1> SUFFICES ASSUME OfflineInv PROVE NothingBuiltIsLost
  OBVIOUS
<1>1. closing \in {"open", "waiting", "merging", "closed", "failed"}
  BY DEF OfflineInv, OfflineTypeOK
<1>2. CASE closing \in {"open", "waiting"}
  <2>1. \A b \in BuiltBatches : b \in DOMAIN segments /\ segments[b] = <<b>>
    BY <1>2 DEF OfflineInv, Building
  <2>2. \A b : b \in ToSet(<<b>>)
    BY DEF ToSet
  <2> QED
    BY <1>2, <2>1, <2>2 DEF NothingBuiltIsLost, BuiltBatches
<1>3. CASE closing = "merging"
  BY <1>3, KeptNow DEF NothingBuiltIsLost
<1> QED
  BY <1>1, <1>2, <1>3 DEF OfflineInv

\* OfflineWriter, NothingBuiltIsLost: whatever fails among concurrent builds and merges, a batch that was built is
\* in a segment file, and the one segment of the snapshot has all that were accepted, each once and in order.
THEOREM BuiltIsKept == OfflineSpec => []NothingBuiltIsLost
<1> QED
  BY OfflineInitially, OfflineInductive, OfflineInvKeepsAll, PTL DEF OfflineSpec

=============================================================================
