--------------------------- MODULE VectorReaders ---------------------------
(***************************************************************************)
(* Searches of vectors beside Close (collection_reader.go, reader.go) and   *)
(* the gates of native index handles (vector_usearch_purego.go).            *)
(*                                                                         *)
(* A reader of a collection opens its native index with the first search;   *)
(* a plain reader has one from the start.  Native handles are addresses,    *)
(* which the native library gives out again once they are free; a table of  *)
(* the whole process finds the gate of an address.  A bare handle stands    *)
(* for the callers of the native interface itself, without locks of theirs. *)
(***************************************************************************)
EXTENDS Integers, FiniteSets, Sequences

CONSTANTS Searchers,  \* goroutines
          Layouts,    \* the readers of a process: sequences of "collection", "plain", "bare"
          Permits,    \* size of a handle's pool of contexts, which its gate is made for
          Spare,      \* size of a gate made for a handle without one, at most Permits
          MaxAddresses, \* bound: addresses of handles, enough for every reader
          NoOne      \* no goroutine, no reader, no gate

ASSUME VectorReadersAssumption ==
  /\ Permits \in Nat \ {0} /\ Spare \in 1 .. Permits
  /\ MaxAddresses \in Nat
  /\ \A layout \in Layouts : /\ layout \in Seq({"collection", "plain", "bare"})
                             /\ Len(layout) <= MaxAddresses
  /\ NoOne \notin Searchers /\ NoOne \notin Nat \X {"own", "spare"}

VARIABLES
  kinds,   \* the layout
  lock,    \* of each reader, a sync.RWMutex: who is inside, who wants it alone
  opener,  \* who has cacheMu
  view,    \* the vector view: "none", "ready" or "closed"
  shut,    \* Close has begun: Reader.closed, CollectionReader.closed
  snap,    \* the text snapshot is open, and the leases are held
  addr,    \* the address of the reader's handle
  owner,   \* of each address: the reader whose native index is there
  table,   \* handleGates: from addresses to gates
  gates,   \* of each gate: permits taken, and who has exclusive
  at,      \* where each goroutine is: [pc, op, reader, gate, got]
  robbed     \* ghost: readers whose gate somebody else removed

readersVars == <<kinds, lock, opener, view, shut, snap, addr, owner, table, gates, at, robbed>>

\* What a step of one goroutine may change beside where it is.
locks   == <<lock, shut, snap>>
handles == <<opener, view, addr, owner, table, robbed>>

Addresses == 1 .. MaxAddresses
Gates     == (DOMAIN kinds) \X {"own", "spare"}
Cap(g)    == IF g[2] = "own" THEN Permits ELSE Spare
NoGate    == [taken |-> 0, exclusive |-> NoOne]
AtRest    == [pc |-> "idle", op |-> "none", reader |-> 0, gate |-> NoOne, got |-> 0]

Kind(c) == kinds[at[c].reader]
Home(c) == addr[at[c].reader]

Goto(c, pc) == at' = [at EXCEPT ![c].pc = pc]
Rest(c)   == at' = [at EXCEPT ![c] = AtRest]

ReadersInit ==
  /\ kinds \in Layouts
  /\ LET Opened == {r \in DOMAIN kinds : kinds[r] # "collection"}
     IN  /\ view  = [r \in DOMAIN kinds |-> IF r \in Opened THEN "ready" ELSE "none"]
         /\ addr  = [r \in DOMAIN kinds |-> IF r \in Opened THEN r ELSE 0]
         /\ owner = [a \in Addresses |-> IF a \in Opened THEN a ELSE 0]
         /\ table = [a \in Addresses |-> IF a \in Opened THEN <<a, "own">> ELSE NoOne]
  /\ lock = [r \in DOMAIN kinds |-> [inside |-> {}, wanted |-> NoOne]]
  /\ opener = [r \in DOMAIN kinds |-> NoOne]
  /\ shut = [r \in DOMAIN kinds |-> FALSE] /\ snap = [r \in DOMAIN kinds |-> TRUE]
  /\ gates = [g \in Gates |-> NoGate]
  /\ at = [c \in Searchers |-> AtRest] /\ robbed = {}

-----------------------------------------------------------------------------
(* The lock of a reader: CollectionReader.mu, or the mu of a plain reader's vector index. *)
(* (A collection's index has one too, which nobody reaches without the reader's.)         *)

\* Reader.Close closes the text first and then the vectors, and only once.
BeginCall(c, r, op) ==
  /\ at[c].pc = "idle"
  /\ op \in {"search", IF kinds[r] = "bare" THEN "save" ELSE "close"}
  /\ kinds[r] = "plain" /\ op = "close" => ~shut[r]
  /\ shut' = [shut EXCEPT ![r] = @ \/ (kinds[r] = "plain" /\ op = "close")]
  /\ at' = [at EXCEPT ![c] = [AtRest EXCEPT !.op = op, !.reader = r, !.pc =
                 CASE kinds[r] = "bare" -> "calls"
                   [] kinds[r] = "plain" /\ op = "close" -> "closing"
                   [] OTHER -> "locking"]]
  /\ UNCHANGED <<kinds, lock, snap, gates, handles>>

\* RLock waits for whoever wants the lock alone, and finds the reader open or not.
LockShared(c) ==
  LET r == at[c].reader
  IN  /\ at[c].pc = "locking" /\ at[c].op = "search" /\ lock[r].wanted = NoOne
      /\ lock' = [lock EXCEPT ![r].inside = @ \cup {c}]
      /\ Goto(c, IF view[r] = "closed" \/ (Kind(c) = "collection" /\ shut[r]) THEN "unlocking"
               ELSE IF Kind(c) = "collection" THEN "cached" ELSE "calls")
      /\ UNCHANGED <<kinds, shut, snap, gates, handles>>

\* Lock keeps newcomers out...
Want(c) ==
  LET r == at[c].reader
  IN  /\ at[c].pc = "locking" /\ at[c].op = "close" /\ lock[r].wanted = NoOne
      /\ lock' = [lock EXCEPT ![r].wanted = c] /\ Goto(c, "wanting")
      /\ UNCHANGED <<kinds, shut, snap, gates, handles>>

\* ...and waits for those inside.
LockAlone(c) ==
  LET r == at[c].reader
  IN  /\ at[c].pc = "wanting" /\ lock[r].inside = {}
      /\ shut' = [shut EXCEPT ![r] = TRUE]
      /\ Goto(c, IF Kind(c) = "collection" /\ shut[r] THEN "unlocking"
               ELSE IF view[r] = "ready" THEN "calls" ELSE "closing")
      /\ UNCHANGED <<kinds, lock, snap, gates, handles>>

\* The text snapshot is given back, a collection's leases with it.
CloseSnapshot(c) ==
  /\ at[c].pc = "closing"
  /\ snap' = [snap EXCEPT ![at[c].reader] = FALSE]
  /\ Goto(c, IF Kind(c) = "collection" THEN "unlocking" ELSE "locking")
  /\ UNCHANGED <<kinds, lock, shut, gates, handles>>

Unlock(c) ==
  LET r == at[c].reader
  IN  /\ at[c].pc = "unlocking"
      /\ lock' = IF at[c].op = "search" THEN [lock EXCEPT ![r].inside = @ \ {c}]
                                       ELSE [lock EXCEPT ![r].wanted = NoOne]
      /\ Rest(c)
      /\ UNCHANGED <<kinds, shut, snap, gates, handles>>

-----------------------------------------------------------------------------
(* The view of a collection's reader, made by the first search under cacheMu *)

VectorReader(c) ==
  LET r == at[c].reader
  IN  /\ at[c].pc = "cached" /\ opener[r] = NoOne
      /\ IF view[r] = "ready" THEN Goto(c, "reading") /\ UNCHANGED opener
                              ELSE Goto(c, "opening") /\ opener' = [opener EXCEPT ![r] = c]
      /\ UNCHANGED <<kinds, locks, gates, view, addr, owner, table, robbed>>

\* Metadata, revisions or the index cannot be read: nothing is cached.
OpenFails(c) ==
  /\ at[c].pc = "opening"
  /\ opener' = [opener EXCEPT ![at[c].reader] = NoOne] /\ Goto(c, "unlocking")
  /\ UNCHANGED <<kinds, locks, gates, view, addr, owner, table, robbed>>

OpenNative(c, a) ==
  LET r == at[c].reader
  IN  /\ at[c].pc = "opening" /\ owner[a] = 0
      /\ owner' = [owner EXCEPT ![a] = r] /\ addr' = [addr EXCEPT ![r] = a]
      /\ Goto(c, "storing")
      /\ UNCHANGED <<kinds, locks, gates, opener, view, table, robbed>>

\* prepareHandle.
StoreGate(c) ==
  LET r == at[c].reader
  IN  /\ at[c].pc = "storing"
      /\ table' = [table EXCEPT ![addr[r]] = <<r, "own">>]
      /\ view' = [view EXCEPT ![r] = "ready"] /\ opener' = [opener EXCEPT ![r] = NoOne]
      /\ Goto(c, "reading")
      /\ UNCHANGED <<kinds, locks, gates, addr, owner, robbed>>

\* The filter of a collection's search, before the vectors; the identifiers of the hits of
\* an index that lives in the segments, after them.
ReadText(c) ==
  /\ at[c].pc = "reading"
  /\ Goto(c, IF Kind(c) = "collection" THEN "calls" ELSE "unlocking")
  /\ UNCHANGED <<kinds, locks, gates, handles>>

-----------------------------------------------------------------------------
(* The gate of a handle *)

\* gateFor: a handle that has no gate gets one.
FindGate(c) ==
  LET g == IF table[Home(c)] = NoOne THEN <<at[c].reader, "spare">> ELSE table[Home(c)]
  IN  /\ at[c].pc = "calls"
      /\ table' = [table EXCEPT ![Home(c)] = g]
      /\ at' = [at EXCEPT ![c].gate = g,
                          ![c].pc = IF at[c].op = "search" THEN "acquiring" ELSE "excluding"]
      /\ UNCHANGED <<kinds, locks, gates, opener, view, addr, owner, robbed>>

\* Mutant: any number of calls at a time.
AcquireAnyway(c) ==
  /\ at[c].pc = "acquiring"
  /\ gates' = [gates EXCEPT ![at[c].gate].taken = @ + 1] /\ Goto(c, "inside")
  /\ UNCHANGED <<kinds, locks, handles>>

Acquire(c) ==
  LET g == at[c].gate
  IN  /\ at[c].pc = "acquiring" /\ gates[g].taken < Cap(g)
      /\ gates' = [gates EXCEPT ![g].taken = @ + 1] /\ Goto(c, "inside")
      /\ UNCHANGED <<kinds, locks, handles>>

\* Mutant: whoever wants all permits starts taking them.
ExcludeAtOnce(c) ==
  /\ at[c].pc = "excluding"
  /\ gates' = [gates EXCEPT ![at[c].gate].exclusive = c] /\ Goto(c, "taking")
  /\ UNCHANGED <<kinds, locks, handles>>

\* acquireExclusive: one at a time...
Exclude(c) ==
  LET g == at[c].gate
  IN  /\ at[c].pc = "excluding" /\ gates[g].exclusive = NoOne
      /\ gates' = [gates EXCEPT ![g].exclusive = c] /\ Goto(c, "taking")
      /\ UNCHANGED <<kinds, locks, handles>>

\* ...takes the permits one by one.
TakeAll(c) ==
  LET g == at[c].gate
  IN  /\ at[c].pc = "taking" /\ gates[g].taken < Cap(g)
      /\ gates' = [gates EXCEPT ![g].taken = @ + 1]
      /\ at' = [at EXCEPT ![c].got = @ + 1,
                          ![c].pc = IF @ # "taking" \/ at[c].got + 1 < Cap(g) THEN @ ELSE "inside"]
      /\ UNCHANGED <<kinds, locks, handles>>

\* The native call of a search returns.
ReturnPermit(c) ==
  /\ at[c].pc = "inside" /\ at[c].op = "search"
  /\ gates' = [gates EXCEPT ![at[c].gate].taken = @ - 1]
  /\ CASE Kind(c) = "bare"       -> Rest(c)
       [] Kind(c) = "plain"      -> Goto(c, "reading")
       [] Kind(c) = "collection" -> Goto(c, "unlocking")
  /\ UNCHANGED <<kinds, locks, handles>>

\* destroy: the address is free before its gate is gone from the table.
Destroy(c) ==
  /\ at[c].pc = "inside" /\ at[c].op = "close"
  /\ owner' = [owner EXCEPT ![Home(c)] = 0]
  /\ view' = [view EXCEPT ![at[c].reader] = "closed"] /\ Goto(c, "deleting")
  /\ UNCHANGED <<kinds, locks, gates, opener, addr, table, robbed>>

DeleteGate(c) ==
  /\ at[c].pc = "deleting"
  /\ table' = [table EXCEPT ![Home(c)] = NoOne]
  /\ robbed' = IF table[Home(c)] \in {NoOne, at[c].gate} THEN robbed
             ELSE robbed \cup {table[Home(c)][1]}
  /\ Goto(c, "releasing")
  /\ UNCHANGED <<kinds, locks, gates, opener, view, addr, owner>>

ReleaseAll(c) ==
  LET g == at[c].gate
  IN  /\ at[c].pc = "releasing" \/ (at[c].pc = "inside" /\ at[c].op = "save")
      /\ gates' = [gates EXCEPT ![g] = [taken |-> @.taken - Cap(g), exclusive |-> NoOne]]
      /\ CASE at[c].op = "save"        -> Rest(c)
           [] Kind(c) = "plain"        -> Goto(c, "unlocking")
           [] Kind(c) = "collection"   -> Goto(c, "closing")
      /\ UNCHANGED <<kinds, locks, handles>>

-----------------------------------------------------------------------------

Continue(c) ==
  \/ LockShared(c) \/ Want(c) \/ LockAlone(c) \/ CloseSnapshot(c) \/ Unlock(c)
  \/ VectorReader(c) \/ OpenFails(c) \/ \E a \in Addresses : OpenNative(c, a)
  \/ StoreGate(c) \/ ReadText(c)
  \/ FindGate(c) \/ Acquire(c) \/ Exclude(c) \/ TakeAll(c) \/ ReturnPermit(c)
  \/ Destroy(c) \/ DeleteGate(c) \/ ReleaseAll(c)

ReadersNext ==
  \E c \in Searchers :
    \/ \E r \in DOMAIN kinds, op \in {"search", "save", "close"} : BeginCall(c, r, op)
    \/ Continue(c)

ReadersSpec == ReadersInit /\ [][ReadersNext]_readersVars

-----------------------------------------------------------------------------
(* Properties *)

\* No native call is made at an address that is free or somebody else's by then: neither
\* by a search that Close overtook nor by one that came to the view of a closed reader.
CallsMeetTheirIndex ==
  \A c \in Searchers : at[c].pc = "inside" => owner[Home(c)] = at[c].reader

\* What a search of a collection reads, text or vectors, the reader still pins.
CollectionsStayPinned ==
  \A c \in Searchers :
    at[c].op = "search" /\ Kind(c) = "collection"
      /\ at[c].pc \in {"opening", "storing", "reading", "calls", "acquiring", "inside"}
    => snap[at[c].reader]

\* A handle is never called more often at a time than its pool has contexts, and a call
\* that moves what others read is alone, unless somebody else took the handle's gate away:
\* a handle that is opened at the address of one that is being destroyed may lose it.
GatesHold ==
  \A r \in DOMAIN kinds \ robbed :
    LET Inside == {c \in Searchers : at[c].reader = r /\ at[c].pc = "inside"}
    IN  /\ Cardinality(Inside) <= Permits
        /\ (\E c \in Inside : at[c].op # "search") => Cardinality(Inside) = 1

\* While a reader is closed, native calls of its searches still meet its index, and searches
\* of a collection still have the snapshot they pin.  A plain reader gives its text back
\* before it waits for the calls (reader.go:202-210): of that text nothing is said.
NothingIsUsedAfterClose == CallsMeetTheirIndex /\ CollectionsStayPinned /\ GatesHold

\* Whoever waits, for a lock, the view or permits, waits for somebody who can go on.
NobodyIsStuck ==
  (\E c \in Searchers : at[c].pc # "idle") => ENABLED \E c \in Searchers : Continue(c)

=============================================================================
