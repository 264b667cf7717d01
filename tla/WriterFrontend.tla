--------------------------- MODULE WriterFrontend ---------------------------
(***************************************************************************)
(* The writer applications see (writer.go, writer_limits.go,                *)
(* vector_batch.go): calls of Batch and BatchFunc wait for a slot, build and *)
(* check their batch, write it to the text index and then to the separate   *)
(* vector index, and give the slot back; Close comes in anywhere.           *)
(*                                                                         *)
(* A batch updates or deletes one document.  A text is the call that wrote  *)
(* it, a vector too; what the vector index checks of a vector is its shape, *)
(* which the first vector of a field fixes.                                 *)
(***************************************************************************)
EXTENDS Integers, FiniteSets

CONSTANTS Calls,   \* calls of Batch or BatchFunc
          Ids,     \* document ids
          Shapes,  \* dimensions and similarities of vectors
          Limits,  \* values of WithMaxConcurrentBatches, 0 for no limit
          None     \* no call, no shape

ASSUME WriterFrontendAssumption == Limits \subseteq Nat /\ None \notin Calls \cup Shapes

VARIABLES
  limit,     \* the configured limit
  slots,     \* tokens in batchSlots
  inFlight,  \* batchStats: InFlightBatches
  inBytes,   \* batchStats: who has its bytes in InFlightInputBytes
  call,      \* [pc, batch] of every call
  cancelled, \* calls whose context is cancelled
  writer,    \* "open", "signalled" when closeCh is closed, "textClosed", "closed"
  text,      \* the live text of every id
  vectors,   \* the vector of every id
  shape,     \* the field's spec
  torn       \* ghost: ids a failing or closed vector index has missed a batch of

frontVars == <<limit, slots, inFlight, inBytes, call, cancelled, writer, text, vectors,
               shape, torn>>
stores == <<text, vectors, shape, torn>>

-----------------------------------------------------------------------------

Batches == [id : Ids, op : {"update", "delete"}, shape : Shapes \cup {None}]
NoBatch == [id |-> None, op |-> "none", shape |-> None]

Waits    == {"idle", "waiting", "ok", "failed"}
HasSlot  == {c \in Calls : call[c].pc \notin Waits}

FrontInit ==
  /\ limit \in Limits /\ slots = 0 /\ inFlight = 0 /\ inBytes = {}
  /\ call = [c \in Calls |-> [pc |-> "idle", batch |-> NoBatch]]
  /\ cancelled = {} /\ writer = "open"
  /\ text = [i \in Ids |-> [by |-> None, shape |-> None]]
  /\ vectors = [i \in Ids |-> None] /\ shape = None /\ torn = {}

Go(c, pc) == call' = [call EXCEPT ![c].pc = pc]

Enter(c) ==
  /\ call[c].pc = "idle"
  /\ Go(c, "waiting")
  /\ UNCHANGED <<limit, slots, inFlight, inBytes, cancelled, writer, stores>>

\* The application cancels the context it gave BatchFunc, while that still counts.
Cancel(c) ==
  /\ c \notin cancelled /\ call[c].pc \in {"waiting", "admitted", "building"}
  /\ cancelled' = cancelled \cup {c}
  /\ UNCHANGED <<limit, slots, inFlight, inBytes, call, writer, stores>>

\* acquireBatch: one of the ready cases of the select...
AcquireBatch(c) ==
  /\ call[c].pc = "waiting"
  /\ \/ limit = 0 /\ Go(c, "admitted") /\ UNCHANGED slots
     \/ /\ limit > 0 /\ slots < limit
        /\ slots' = slots + 1 /\ Go(c, "admitted")
     \/ /\ limit > 0 /\ (writer # "open" \/ c \in cancelled)
        /\ Go(c, "failed") /\ UNCHANGED slots
  /\ UNCHANGED <<limit, inFlight, inBytes, cancelled, writer, stores>>

Refused(c) == writer # "open" \/ c \in cancelled

\* Mutant: a call that is not admitted keeps its slot.
SlotKept == slots

SlotGivenBack == IF limit = 0 THEN slots ELSE slots - 1

\* ...and the check after it.
AdmitBatch(c) ==
  /\ call[c].pc = "admitted"
  /\ IF Refused(c) THEN Go(c, "failed") /\ slots' = SlotGivenBack /\ UNCHANGED inFlight
                   ELSE Go(c, "building") /\ inFlight' = inFlight + 1 /\ UNCHANGED slots
  /\ UNCHANGED <<limit, inBytes, cancelled, writer, stores>>

\* The builder, and what is checked after it: an error, a cancelled context, a batch
\* over the limits.
BuildBatch(c, batch) ==
  /\ call[c].pc = "building"
  /\ batch.op = "delete" => batch.shape = None
  /\ \/ /\ c \notin cancelled
        /\ call' = [call EXCEPT ![c] = [pc |-> "checked", batch |-> batch]]
        /\ inBytes' = inBytes \cup {c}
     \/ Go(c, "unwinding") /\ UNCHANGED inBytes
  /\ UNCHANGED <<limit, slots, inFlight, cancelled, writer, stores>>

Fits(batch) == batch.shape \in {None, shape} \/ shape = None

\* validateVectorChanges: before any text is written, on what the vector index has now.
\* The USearch sidecar refuses once it is closed, the flat index has no such state.
ValidateVectors(c) ==
  /\ call[c].pc = "checked"
  /\ \/ Fits(call[c].batch) /\ Go(c, "writing")
     \/ (~Fits(call[c].batch) \/ writer = "closed") /\ Go(c, "unwinding")
  /\ UNCHANGED <<limit, slots, inFlight, inBytes, cancelled, writer, stores>>

\* Mutant: the vectors of a batch that was refused are applied all the same.
RefusedButVectors(c) == Go(c, "written") /\ UNCHANGED <<text, torn>>

RefuseText(c) == Go(c, "unwinding") /\ UNCHANGED <<text, torn>>

\* The text index's Batch takes effect.  It may be refused, and it may report an error
\* of the persister although it was applied: the vectors are left alone.
WriteText(c) ==
  /\ call[c].pc = "writing"
  /\ LET b == call[c].batch
         Written == [text EXCEPT ![b.id] = IF b.op = "delete"
                       THEN [by |-> None, shape |-> None] ELSE [by |-> c, shape |-> b.shape]]
     IN  \/ /\ writer \in {"open", "signalled"}
            /\ text' = Written
            /\ Go(c, "written") /\ UNCHANGED torn
         \/ /\ writer \in {"open", "signalled"}
            /\ text' = Written
            /\ torn' = torn \cup {b.id} /\ Go(c, "unwinding")
         \/ RefuseText(c)
  /\ UNCHANGED <<limit, slots, inFlight, inBytes, cancelled, writer, vectors, shape>>

\* vectorChangesForBatch: every update and delete removes the id's vector first.
Change(c, b) == IF b.op = "update" /\ b.shape # None THEN c ELSE None

\* ApplyVectorChanges: all of the batch or nothing.
ApplyVectors(c) ==
  /\ call[c].pc = "written"
  /\ LET b == call[c].batch
     IN  \/ /\ Fits(b)
            /\ vectors' = [vectors EXCEPT ![b.id] = Change(c, b)]
            /\ shape' = IF b.shape = None THEN shape ELSE b.shape
            /\ call' = [call EXCEPT ![c].pc = "done"]
            /\ UNCHANGED torn
         \/ /\ ~Fits(b)
            /\ Go(c, "unwinding") /\ UNCHANGED <<vectors, shape, torn>>
         \/ /\ torn' = torn \cup {b.id}   \* persist fails, or the index is closed
            /\ Go(c, "unwinding") /\ UNCHANGED <<vectors, shape>>
  /\ UNCHANGED <<limit, slots, inFlight, inBytes, cancelled, writer, text>>

\* The deferred calls: batch's own...
ReturnBytes(c) ==
  /\ call[c].pc \in {"done", "unwinding"} /\ c \in inBytes
  /\ inBytes' = inBytes \ {c}
  /\ UNCHANGED <<limit, slots, inFlight, call, cancelled, writer, stores>>

\* ...and releaseBatch.
ReleaseBatch(c) ==
  /\ call[c].pc \in {"done", "unwinding"} /\ c \notin inBytes
  /\ inFlight' = inFlight - 1
  /\ call' = [call EXCEPT ![c].pc = IF @ = "done" THEN "releasing" ELSE "dropping"]
  /\ UNCHANGED <<limit, slots, inBytes, cancelled, writer, stores>>

FreeSlot(c) ==
  /\ call[c].pc \in {"releasing", "dropping"}
  /\ slots' = SlotGivenBack
  /\ call' = [call EXCEPT ![c].pc = IF @ = "releasing" THEN "ok" ELSE "failed"]
  /\ UNCHANGED <<limit, inFlight, inBytes, cancelled, writer, stores>>

\* Close wakes those who wait, closes the text index, which takes no more batches and
\* waits for those inside, and then the vector index, which waits for nobody.
CloseSignal ==
  /\ writer = "open" /\ writer' = "signalled"
  /\ UNCHANGED <<limit, slots, inFlight, inBytes, call, cancelled, stores>>
CloseText ==
  /\ writer = "signalled" /\ writer' = "textClosed"
  /\ UNCHANGED <<limit, slots, inFlight, inBytes, call, cancelled, stores>>
CloseVectors ==
  /\ writer = "textClosed" /\ writer' = "closed"
  /\ UNCHANGED <<limit, slots, inFlight, inBytes, call, cancelled, stores>>

FrontNext ==
  \/ \E c \in Calls :
       \/ Enter(c) \/ Cancel(c) \/ AcquireBatch(c) \/ AdmitBatch(c)
       \/ \E batch \in Batches : BuildBatch(c, batch)
       \/ ValidateVectors(c) \/ WriteText(c) \/ ApplyVectors(c)
       \/ ReturnBytes(c) \/ ReleaseBatch(c) \/ FreeSlot(c)
  \/ CloseSignal \/ CloseText \/ CloseVectors

FrontSpec == FrontInit /\ [][FrontNext]_frontVars

-----------------------------------------------------------------------------
(* Properties *)

\* What is admitted is what is counted, and never more than configured: on every path
\* out of a call, cancelled, closed, refused or failed halfway, its slot is free again
\* and the statistics are zero once nobody is inside (writer_limits.go's gauges).
NothingIsHeld ==
  /\ limit > 0 => slots <= limit /\ inFlight <= slots
  /\ HasSlot = {} => slots = 0 /\ inFlight = 0 /\ inBytes = {}

\* With one batch at a time the vector index has, once nobody is inside, the vector that
\* came with each document's live text and none for the others.  What breaks it is a
\* failing write or a vector index closed under the call, never a vector of another
\* shape: that is refused before the text is written.  (With more than one batch at a
\* time the two indexes may see two batches in different orders.)
VectorsFollowText ==
  limit = 1 /\ HasSlot = {}
    => \A i \in Ids \ torn :
         vectors[i] = IF text[i].shape = None THEN None ELSE text[i].by
=============================================================================
