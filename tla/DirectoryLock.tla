--------------------------- MODULE DirectoryLock ---------------------------
(***************************************************************************)
(* FileSystemDirectory.Lock and Unlock (index/directory_fs.go), by which    *)
(* OpenWriter claims a directory and Writer.Close gives it back.  The claim *)
(* is an flock on the pid file (index/lock/lock_nix.go).  An flock belongs  *)
(* to the file that was opened, not to its name: closing it gives up the    *)
(* lock, and only then is the name removed.                                 *)
(***************************************************************************)
EXTENDS Naturals

CONSTANTS Processes,  \* processes opening writers on one directory
          MaxFiles    \* bound: pid files created, each an inode of its own

ASSUME DirectoryLockAssumption == MaxFiles \in Nat

VARIABLES
  path,      \* the inode that the name bluge.pid leads to, 0 if there is none
  created,   \* the last inode created
  process,   \* [pc, ino]: where each process is, the inode it has open
  unlinked   \* ghost: an Unlock removed the name of a file another process had open

vars == <<path, created, process, unlinked>>

Nobody == [pc |-> "out", ino |-> 0]

\* flock is held from locking until the file is closed.
Locked(ino) ==
  \E p \in Processes : process[p].ino = ino /\ process[p].pc \in {"writing", "stuck"}

Init ==
  /\ path = 0 /\ created = 0
  /\ process = [p \in Processes |-> Nobody]
  /\ unlinked = FALSE

\* Lock: openExclusive opens the pid file, creating it if it is not there.
OpenPid(p) ==
  /\ process[p].pc = "out"
  /\ \/ path # 0 /\ UNCHANGED <<path, created>>
     \/ path = 0 /\ created < MaxFiles /\ created' = created + 1 /\ path' = created + 1
  /\ process' = [process EXCEPT ![p] = [pc |-> "opened", ino |-> path']]
  /\ UNCHANGED unlinked

\* Mutant: the flock is a shared one.
LockPidShared(p) ==
  /\ process[p].pc = "opened"
  /\ \E pc \in {"writing", "stuck"} : process' = [process EXCEPT ![p].pc = pc]
  /\ UNCHANGED <<path, created, unlinked>>

\* Lock: flock without waiting, then write the pid.  If writing fails, Lock
\* returns the error with the file still open, and locked.
LockPid(p) ==
  /\ process[p].pc = "opened"
  /\ ~Locked(process[p].ino)
  /\ \E pc \in {"writing", "stuck"} : process' = [process EXCEPT ![p].pc = pc]
  /\ UNCHANGED <<path, created, unlinked>>

\* Lock: the file is locked, so it is closed and OpenWriter fails.
RefusePid(p) ==
  /\ process[p].pc = "opened"
  /\ Locked(process[p].ino)
  /\ process' = [process EXCEPT ![p] = Nobody]
  /\ UNCHANGED <<path, created, unlinked>>

\* Unlock, the first half: close the file, which gives up the lock.
ClosePid(p) ==
  /\ process[p].pc = "writing"
  /\ process' = [process EXCEPT ![p] = [pc |-> "closed", ino |-> 0]]
  /\ UNCHANGED <<path, created, unlinked>>

\* Unlock, the second half: remove whatever now has the name.  It may fail.
RemovePid(p) ==
  /\ process[p].pc = "closed"
  /\ process' = [process EXCEPT ![p] = Nobody]
  /\ \/ UNCHANGED <<path, unlinked>>
     \/ /\ path' = 0
        /\ unlinked' = (unlinked \/ \E q \in Processes : path # 0 /\ process[q].ino = path)
  /\ UNCHANGED created

\* A process dies: the system closes its files, and the pid file stays.
Die(p) ==
  /\ process[p].pc # "out"
  /\ process' = [process EXCEPT ![p] = Nobody]
  /\ UNCHANGED <<path, created, unlinked>>

Next ==
  \E p \in Processes :
    OpenPid(p) \/ LockPid(p) \/ RefusePid(p) \/ ClosePid(p) \/ RemovePid(p) \/ Die(p)

Spec == Init /\ [][Next]_vars

-----------------------------------------------------------------------------
(* Properties *)

TypeOK ==
  /\ path \in Nat /\ created \in Nat
  /\ process \in [Processes -> [pc : {"out", "opened", "writing", "stuck", "closed"}, ino : Nat]]
  /\ unlinked \in BOOLEAN

Writing == {p \in Processes : process[p].pc = "writing"}

\* "Lock ensures this process has exclusive access to write in this directory"
\* (index/directory.go:69).
MutualExclusion == \A p, q \in Writing : p = q

\* What Lock and Unlock do ensure, through crashes, stale pid files and locks
\* that failed half-way: two processes write only after an Unlock removed the
\* name of a pid file that another process had opened since it was closed.
ExclusiveUnlessUnlinked == ~unlinked => MutualExclusion

\* A writer that nobody displaced can be seen: as long as no such Unlock
\* happened, the file locked by the writer is the one the name leads to.
WriterOwnsTheName == ~unlinked => \A p \in Writing : process[p].ino = path

=============================================================================
