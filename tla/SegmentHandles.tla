--------------------------- MODULE SegmentHandles ---------------------------
(***************************************************************************)
(* Who keeps a loaded segment open (index/snapshot.go, segment_plugin.go,   *)
(* introducer.go, merge.go, persister.go).  A segment loaded from its file  *)
(* is mapped into memory and counts references: of the snapshots it is in   *)
(* and of goroutines that have loaded it and not given it away.  A snapshot *)
(* counts its users, and gives up its segments with the last of them.  When *)
(* a segment's count falls to 0 its file is unmapped, and whoever still     *)
(* reads it reads freed memory.                                             *)
(*                                                                         *)
(* Documents are left out: which segments a batch empties, and whether a    *)
(* merge comes too late, is open.                                           *)
(***************************************************************************)
EXTENDS Integers, Sequences, FiniteSets, FiniteSetsExt, Functions

CONSTANTS Readers,      \* users of Writer.Reader
          MaxSegments,  \* bound: segment ids
          MaxFaults     \* bound: failing file operations

ASSUME SegmentHandlesAssumption == MaxSegments \in Nat /\ MaxFaults \in Nat

VARIABLES
  snapshots,   \* every snapshot so far: [refs, segs], segs from ids to segments
  root,        \* the number of the root, 0 when there is none
  files,       \* the reference count of every loaded file
  ids,         \* the last segment id
  introducer,  \* [pc, todo, segs]: introducing what the persister loaded
  persisted,   \* the map that persister and introducer share
  work,        \* where persister and merger are
  last,        \* the last root persisted
  reader,      \* the snapshot each reader has, 0 for none
  retrying,    \* whether a loop's last round failed: its retry.err
  closer,      \* "open", "draining", "closing" when closeCh is closed, "closed"
  interrupted, \* ghost: Close could not drain the loops before
  faults

handlesVars == <<snapshots, root, files, ids, introducer, persisted, work, last, reader,
                 retrying, closer, interrupted, faults>>
life == <<retrying, closer, interrupted, faults>>

-----------------------------------------------------------------------------

Loops == {"persister", "merger"}

\* A segment in memory, a persisted view of one, a segment loaded from a file.
Mem     == [kind |-> "mem",  file |-> 0]
View    == [kind |-> "view", file |-> 0]
File(f) == [kind |-> "file", file |-> f]

FilesOf(segs) == {segs[i].file : i \in DOMAIN segs} \ {0}
InMemory(segs) == {i \in DOMAIN segs : segs[i].kind = "mem"}

\* Mutant: a snapshot takes over the references of the one before it.
SameRefs(counts, some) == counts

AddRefs(counts, some) ==
  [f \in DOMAIN counts |-> IF f \in some THEN counts[f] + 1 ELSE counts[f]]

DropRefs(counts, some) ==
  [f \in DOMAIN counts |-> IF f \in some THEN counts[f] - 1 ELSE counts[f]]

\* Snapshot.decRef: the snapshots and the files' counts after it.  Nobody looks into a
\* snapshot again that has no user.
Decremented(snaps, n) ==
  [snaps EXCEPT ![n] = [refs |-> @.refs - 1, segs |-> IF @.refs = 1 THEN <<>> ELSE @.segs]]
WithoutUser(counts, snaps, n) ==
  IF snaps[n].refs = 1 THEN DropRefs(counts, FilesOf(snaps[n].segs)) ELSE counts

Release(n) ==
  /\ snapshots' = Decremented(snapshots, n)
  /\ files' = WithoutUser(files, snapshots, n)

\* currentSnapshot.
Current == [snapshots EXCEPT ![root].refs = @ + 1]

Idle == [pc |-> "idle", snap |-> 0, old |-> {}, done |-> {}, file |-> 0, new |-> 0]

HandlesInit ==
  /\ snapshots = <<[refs |-> 1, segs |-> <<>>]>> /\ root = 1
  /\ files = <<>> /\ ids = 0
  /\ introducer = [pc |-> "idle", todo |-> {}, segs |-> <<>>]
  /\ persisted = <<>> /\ work = [l \in Loops |-> Idle] /\ last = 1
  /\ reader = [r \in Readers |-> 0]
  /\ retrying = [l \in Loops |-> FALSE]
  /\ closer = "open" /\ interrupted = FALSE /\ faults = 0

-----------------------------------------------------------------------------
(* The introducer *)

\* replaceRoot: users is 2 when a merge waits for the new snapshot.  The segments
\* that stay get one more reference before the last root gives up its own.
ReplaceRoot(segs, staying, users) ==
  LET counts == AddRefs(files, FilesOf(Restrict(segs, staying)))
  IN  /\ snapshots' = Append(Decremented(snapshots, root), [refs |-> users, segs |-> segs])
      /\ files' = WithoutUser(counts, snapshots, root)
      /\ root' = Len(snapshots) + 1

Put(segs, i, segment) ==
  [j \in DOMAIN segs \cup {i} |-> IF j = i THEN segment ELSE segs[j]]

Segs == IF root = 0 THEN <<>> ELSE snapshots[root].segs

\* introduceSegment: a batch that leaves nothing live in some segments.
IntroduceSegment(emptied) ==
  /\ introducer.pc = "idle" /\ closer = "open" /\ ids < MaxSegments
  /\ LET staying == DOMAIN Segs \ emptied
     IN  ReplaceRoot(Put(Restrict(Segs, staying), ids + 1, Mem), staying, 1)
  /\ ids' = ids + 1
  /\ UNCHANGED <<introducer, persisted, work, last, reader, life>>

\* introducePersist goes through the root, takes what it finds in the shared map and
\* deletes it there...
SwapSegment ==
  /\ introducer.pc = "persist" /\ introducer.todo # {}
  /\ LET i == Min(introducer.todo)
         With(segment) == introducer' = [introducer EXCEPT
                            !.todo = @ \ {i}, !.segs = Put(@, i, segment)]
     IN  IF i \in DOMAIN persisted
           THEN /\ With(persisted[i]) /\ UNCHANGED files
                /\ persisted' = Restrict(persisted, DOMAIN persisted \ {i})
           ELSE /\ With(Segs[i]) /\ UNCHANGED persisted
                /\ files' = AddRefs(files, {Segs[i].file})
  /\ UNCHANGED <<snapshots, root, ids, work, last, reader, life>>

\* ...and then replaces the root.
IntroducePersist ==
  /\ introducer.pc = "persist" /\ introducer.todo = {}
  /\ ReplaceRoot(introducer.segs, {}, 1)
  /\ introducer' = [pc |-> "idle", todo |-> {}, segs |-> <<>>]
  /\ UNCHANGED <<ids, persisted, work, last, reader, life>>

IntroducerStop ==
  /\ introducer.pc = "idle" /\ closer = "closing"
  /\ introducer' = [introducer EXCEPT !.pc = "stopped"]
  /\ UNCHANGED <<snapshots, root, files, ids, persisted, work, last, reader, life>>

-----------------------------------------------------------------------------
(* Persister and merger *)

\* Take the root: the persister one it has not persisted.
Take(l) ==
  /\ work[l].pc = "idle" /\ closer # "closed"
  /\ l = "persister" => root # last
  /\ snapshots' = Current
  /\ work' = [work EXCEPT ![l] = [Idle EXCEPT !.pc = "working", !.snap = root]]
  /\ UNCHANGED <<root, files, ids, introducer, persisted, last, reader, life>>

Mine(l) == snapshots[work[l].snap].segs

\* The loop gives up the snapshot it took and is at its select again, or gone.
Leave(l, pc) ==
  /\ Release(work[l].snap)
  /\ work' = [work EXCEPT ![l] = [Idle EXCEPT !.pc = pc]]

\* A merge of segments in memory (mergeSegmentBases) or of persisted ones
\* (executeMergeTask), up to the loading of the result.
Merge(l, old) ==
  /\ work[l].pc = "working" /\ ids < MaxSegments /\ Cardinality(old) >= 2
  /\ old \subseteq DOMAIN Mine(l) \ work[l].done
  /\ IF l = "persister" THEN old = InMemory(Mine(l))
                        ELSE old \cap InMemory(Mine(l)) = {}
  /\ ids' = ids + 1
  /\ files' = Append(files, 1)
  /\ work' = [work EXCEPT ![l].pc = "merged", ![l].old = old,
                          ![l].file = Len(files) + 1, ![l].new = ids + 1]
  /\ UNCHANGED <<snapshots, root, introducer, persisted, last, reader, life>>

\* introduceMerge: the merged segments leave, the new one comes unless everything
\* in it was deleted meanwhile.  The answer to the loop is a reference.
IntroduceMerge(l, skipped) ==
  /\ work[l].pc = "merged" /\ introducer.pc = "idle"
  /\ LET staying == DOMAIN Segs \ work[l].old
         kept    == Restrict(Segs, staying)
     IN  ReplaceRoot(IF skipped THEN kept ELSE Put(kept, work[l].new, File(work[l].file)),
                     staying, 2)
  /\ work' = [work EXCEPT ![l].pc = IF skipped THEN "skipped" ELSE "introduced",
                          ![l].new = root']
  /\ UNCHANGED <<ids, introducer, persisted, last, reader, life>>

\* Mutant: what was merged for nothing is forgotten.
SkippedStaysOpen(counts, f) == counts

CloseSkipped(counts, f) == DropRefs(counts, {f})

\* What was merged for nothing is closed.  The persister goes on without the merge,
\* the merger with its next task.
MergeSkipped(l) ==
  /\ work[l].pc = "skipped"
  /\ snapshots' = Decremented(snapshots, work[l].new)
  /\ files' = CloseSkipped(WithoutUser(files, snapshots, work[l].new), work[l].file)
  /\ work' = [work EXCEPT ![l] = [Idle EXCEPT
                !.pc = IF l = "persister" THEN "direct" ELSE "working", !.snap = work[l].snap,
                !.done = work[l].done \cup work[l].old]]
  /\ UNCHANGED <<root, ids, introducer, persisted, last, reader, life>>

\* The merger gives up the new snapshot and has its next task...
MergeDone ==
  /\ work["merger"].pc = "introduced"
  /\ Release(work["merger"].new)
  /\ work' = [work EXCEPT !["merger"] = [Idle EXCEPT !.pc = "working", !.snap = work["merger"].snap,
                !.done = work["merger"].done \cup work["merger"].old]]
  /\ UNCHANGED <<root, ids, introducer, persisted, last, reader, life>>

\* ...until its plan is done.
MergerRound ==
  /\ work["merger"].pc = "working"
  /\ Leave("merger", "idle")
  /\ retrying' = [retrying EXCEPT !["merger"] = FALSE]
  /\ UNCHANGED <<root, ids, introducer, persisted, last, reader, closer, interrupted, faults>>

\* The persister keeps the new snapshot while it writes its own with the merge in it.
MemoryMergePersisted(failed) ==
  /\ work["persister"].pc = "introduced"
  /\ LET snaps == Decremented(snapshots, work["persister"].new)
         mine  == work["persister"].snap
     IN  /\ snapshots' = Decremented(snaps, mine)
         /\ files' = WithoutUser(WithoutUser(files, snapshots, work["persister"].new),
                                 snaps, mine)
         /\ last' = IF failed THEN last ELSE mine
  /\ work' = [work EXCEPT !["persister"] = Idle]
  /\ faults' = faults + (IF failed THEN 1 ELSE 0) /\ faults' <= MaxFaults
  /\ retrying' = [retrying EXCEPT !["persister"] = failed]
  /\ UNCHANGED <<root, ids, introducer, persisted, reader, closer, interrupted>>

\* closeCh wins while a merge is offered: the result is closed again.
MergeStops(l) ==
  /\ work[l].pc = "merged" /\ closer = "closing"
  /\ snapshots' = Decremented(snapshots, work[l].snap)
  /\ files' = WithoutUser(DropRefs(files, {work[l].file}), snapshots, work[l].snap)
  /\ work' = [work EXCEPT ![l] = [Idle EXCEPT !.pc = "stopped"]]
  /\ UNCHANGED <<root, ids, introducer, persisted, last, reader, life>>

\* A merge, the writing of a segment or its loading fails: what was loaded before is
\* closed again, the round is over.
RoundFails(l) ==
  /\ faults < MaxFaults
  /\ work[l].pc \in {"working", "direct", "writing"}
  /\ Leave(l, "idle")
  /\ faults' = faults + 1
  /\ retrying' = [retrying EXCEPT ![l] = TRUE]
  /\ UNCHANGED <<root, ids, introducer, persisted, last, reader, closer, interrupted>>

\* persistSnapshotDirect: what is in memory is written; some of it stays in memory as a
\* persisted view, the rest is loaded from its file.
PersisterLoad(views) ==
  /\ work["persister"].pc \in {"working", "direct"}
  /\ views \subseteq InMemory(Mine("persister"))
  /\ LET mem    == InMemory(Mine("persister"))
         loaded == mem \ views
         FileOf(i) == Len(files) + Cardinality({j \in loaded : j <= i})
     IN  /\ persisted' = [i \in mem |-> IF i \in views THEN View ELSE File(FileOf(i))]
         /\ files' = files \o [n \in 1 .. Cardinality(loaded) |-> 1]
         /\ work' = [work EXCEPT !["persister"].pc = IF mem = {} THEN "writing" ELSE "sending"]
  /\ UNCHANGED <<snapshots, root, ids, introducer, last, reader, life>>

\* prepareIntroducePersist hands the map to the introducer and waits...
PersisterSend ==
  /\ work["persister"].pc = "sending" /\ introducer.pc = "idle"
  /\ introducer' = [pc |-> "persist", todo |-> DOMAIN Segs, segs |-> <<>>]
  /\ work' = [work EXCEPT !["persister"].pc = "waiting"]
  /\ UNCHANGED <<snapshots, root, files, ids, persisted, last, reader, life>>

\* ...and closes what the introducer has left in it...
PersisterApplied ==
  /\ work["persister"].pc = "waiting" /\ introducer.pc # "persist"
  /\ files' = DropRefs(files, FilesOf(persisted))
  /\ persisted' = <<>>
  /\ work' = [work EXCEPT !["persister"].pc = "writing"]
  /\ UNCHANGED <<snapshots, root, ids, introducer, last, reader, life>>

\* ...also when closeCh wins one of its selects, whatever the introducer is at: the map
\* stays with the introducer.
PersisterStop ==
  /\ work["persister"].pc \in {"sending", "waiting"} /\ closer = "closing"
  /\ LET snap   == work["persister"].snap
     IN  /\ snapshots' = Decremented(snapshots, snap)
         /\ files' = WithoutUser(DropRefs(files, FilesOf(persisted)), snapshots, snap)
  /\ persisted' = IF introducer.pc = "persist" THEN persisted ELSE <<>>
  /\ work' = [work EXCEPT !["persister"] = [Idle EXCEPT !.pc = "stopped"]]
  /\ UNCHANGED <<root, ids, introducer, last, reader, life>>

\* The snapshot's file is written.
PersisterDone ==
  /\ work["persister"].pc = "writing"
  /\ last' = work["persister"].snap
  /\ Leave("persister", "idle")
  /\ retrying' = [retrying EXCEPT !["persister"] = FALSE]
  /\ UNCHANGED <<root, ids, introducer, persisted, reader, closer, interrupted, faults>>

LoopStop(l) ==
  /\ work[l].pc = "idle" /\ closer = "closing"
  /\ work' = [work EXCEPT ![l].pc = "stopped"]
  /\ UNCHANGED <<snapshots, root, files, ids, introducer, persisted, last, reader, life>>

-----------------------------------------------------------------------------
(* Readers and Close *)

OpenReader(r) ==
  /\ reader[r] = 0 /\ root # 0
  /\ snapshots' = Current
  /\ reader' = [reader EXCEPT ![r] = root]
  /\ UNCHANGED <<root, files, ids, introducer, persisted, work, last, life>>

CloseReader(r) ==
  /\ reader[r] # 0
  /\ Release(reader[r])
  /\ reader' = [reader EXCEPT ![r] = 0]
  /\ UNCHANGED <<root, ids, introducer, persisted, work, last, life>>

\* Close takes mutationLock: no batch is introduced any more.
CloseBegins ==
  /\ closer = "open"
  /\ closer' = "draining"
  /\ UNCHANGED <<snapshots, root, files, ids, introducer, persisted, work, last, reader,
                 retrying, interrupted, faults>>

Drained == work["merger"].pc = "idle" /\ work["persister"].pc = "idle" /\ root = last

\* Drained, or told by a loop at its select that it is failing, Close closes closeCh.
CloseSignals ==
  /\ closer = "draining"
  /\ \/ Drained /\ UNCHANGED interrupted
     \/ /\ \E l \in Loops : retrying[l] /\ work[l].pc = "idle"
        /\ interrupted' = TRUE
  /\ closer' = "closing"
  /\ UNCHANGED <<snapshots, root, files, ids, introducer, persisted, work, last, reader,
                 retrying, faults>>

\* The three goroutines are gone: replaceRoot(nil).
CloseDone ==
  /\ closer = "closing" /\ introducer.pc = "stopped"
  /\ \A l \in Loops : work[l].pc = "stopped"
  /\ Release(root)
  /\ root' = 0 /\ closer' = "closed"
  /\ UNCHANGED <<ids, introducer, persisted, work, last, reader, retrying, interrupted, faults>>

HandlesNext ==
  \/ \E emptied \in SUBSET DOMAIN Segs : IntroduceSegment(emptied)
  \/ SwapSegment \/ IntroducePersist \/ IntroducerStop
  \/ \E l \in Loops :
       \/ Take(l) \/ MergeSkipped(l) \/ MergeStops(l) \/ RoundFails(l) \/ LoopStop(l)
       \/ \E old \in SUBSET (1 .. ids) : Merge(l, old)
       \/ \E skipped \in BOOLEAN : IntroduceMerge(l, skipped)
  \/ MergeDone \/ MergerRound
  \/ \E failed \in BOOLEAN : MemoryMergePersisted(failed)
  \/ \E views \in SUBSET (1 .. ids) : PersisterLoad(views)
  \/ PersisterSend \/ PersisterApplied \/ PersisterStop \/ PersisterDone
  \/ \E r \in Readers : OpenReader(r) \/ CloseReader(r)
  \/ CloseBegins \/ CloseSignals \/ CloseDone

HandlesSpec == HandlesInit /\ [][HandlesNext]_handlesVars

-----------------------------------------------------------------------------
(* Properties *)

Open(n) == \A f \in FilesOf(snapshots[n].segs) : files[f] >= 1

\* prepareIntroducePersist's comment: what the persister cleans up are "segments that were
\* prepared but not swapped into the new root" (index/persister.go:419), so a snapshot
\* that somebody may still read, the root or a reader's, has all its segments open.
LiveIsOpen == \A n \in 1 .. Len(snapshots) : snapshots[n].refs >= 1 => Open(n)

\* The same as long as Close is not driven to closeCh by a failing loop: no interleaving
\* of batches, merges, memory merges, persists, readers and Close that drains first
\* unmaps a segment file somebody may still read.
LiveIsOpenUnlessInterrupted == interrupted \/ LiveIsOpen

\* Once the writer is closed and its readers are too no file stays mapped, on any of the
\* paths that close one: skipped merges, rounds that fail, closeCh at every select, an
\* interrupted Close.
NothingLeaks ==
  closer = "closed" /\ (\A r \in Readers : reader[r] = 0)
    => \A f \in 1 .. Len(files) : files[f] <= 0
=============================================================================
