--------------------------- MODULE VectorSidecar ---------------------------
(***************************************************************************)
(* The USearch sidecar (vector_usearch.go): a directory with a native index *)
(* for each vector field and a manifest that gives every document id a key  *)
(* for all of them.  A batch is applied in memory, field by field, and each *)
(* field is saved before the next; the manifest comes last.                 *)
(*                                                                         *)
(* Two calls that apply changes never run at a time (usearchVectorIndex.mu).*)
(* Changes are those of a batch of documents (vectorChangesForBatch): the   *)
(* vectors of an id are deleted before new ones are added.  A vector is the *)
(* number of the operation that brought it.                                 *)
(***************************************************************************)
EXTENDS Integers, Sequences, FiniteSets, FiniteSetsExt

CONSTANTS VectorIds, VectorFields,
          MaxOperations, \* bound: operations of all batches together
          MaxInBatch,    \* bound: operations of a batch
          MaxCallFaults  \* bound: calls that fail

ASSUME VectorSidecarAssumption ==
  /\ IsFiniteSet(VectorIds) /\ MaxOperations \in Nat /\ MaxInBatch \in Nat /\ MaxCallFaults \in Nat

VARIABLES
  sidecar,    \* "closed", "open", "applying", or "broken": it cannot be opened
  manifest,   \* what the process has: [next, ids]; key 0 is none
  indices,    \* of each field: its vectors by key, or NoIndex
  stored,     \* the same, in the directory
  saved,      \* the manifest in the directory: [next, ids, fields]
  job,        \* the batch that is being applied: [ops, todo, removals, additions]
  operations,
  callFaults, \* calls that have failed
  truth,      \* ghost: of each field and id, the vector it was given last
  unsure,     \* ghost: fields and ids of a batch that failed or was cut short
  strays,     \* ghost: fields and keys that a file had and the manifest did not know of
  lost        \* ghost: the manifest was removed and could not be replaced

sidecarVars == <<sidecar, manifest, indices, stored, saved, job, operations, callFaults, truth,
                 unsure, strays, lost>>

Keys == 1 .. Cardinality(VectorIds)

NoIndex    == <<>>
NewIndex   == [k \in Keys |-> 0]
NoKeys     == [id \in VectorIds |-> 0]
NoManifest == [next |-> 1, ids |-> NoKeys, fields |-> {}]
NoJob      == [ops |-> <<>>, todo |-> {}, removals |-> <<>>, additions |-> <<>>]

Operations == [id : VectorIds, fields : SUBSET VectorFields]

\* The operations of a batch, each with its number.
Numbered(batch) ==
  [k \in DOMAIN batch |->
     [id |-> batch[k].id, fields |-> batch[k].fields, vector |-> operations + k]]

Touched(ops) == VectorFields \X {ops[k].id : k \in DOMAIN ops}

-----------------------------------------------------------------------------
(* What a batch comes to *)

Start == [next |-> manifest.next, ids |-> manifest.ids, indices |-> indices,
          removals |-> [f \in VectorFields |-> {}], additions |-> [f \in VectorFields |-> NewIndex]]

\* Mutant: what the batch has added of the id is not taken back.
OnlyAdded(additions, key, op, deleted) ==
  [f \in VectorFields |-> [additions[f] EXCEPT ![key] = IF f \in op.fields THEN op.vector ELSE @]]

\* The vectors of the id that the batch would add.
Added(additions, key, op, deleted) ==
  [f \in VectorFields |-> [additions[f] EXCEPT ![key] = IF f \in op.fields THEN op.vector
                                                       ELSE IF f \in deleted THEN 0 ELSE @]]

\* One document: a new id gets the next key; its vectors are removed from the fields there
\* are, and from what the batch would add; a field that is not there yet is created.
Absorbed(so, op) ==
  LET known == so.ids[op.id] # 0
      key   == IF known THEN so.ids[op.id] ELSE so.next
      deleted == {f \in VectorFields : known /\ so.indices[f] # NoIndex}
  IN  IF ~known /\ op.fields = {} THEN so
      ELSE [next      |-> IF known THEN so.next ELSE key + 1,
            ids       |-> [so.ids EXCEPT ![op.id] = key],
            indices   |-> [f \in VectorFields |->
                             IF f \in op.fields /\ so.indices[f] = NoIndex THEN NewIndex
                             ELSE so.indices[f]],
            removals  |-> [f \in VectorFields |->
                             so.removals[f] \cup (IF f \in deleted \cup op.fields THEN {key} ELSE {})],
            additions |-> Added(so.additions, key, op, deleted)]

Removed(f) == [k \in Keys |-> IF k \in job.removals[f] THEN 0 ELSE indices[f][k]]

Applied(f) == [k \in Keys |-> IF job.additions[f][k] # 0 THEN job.additions[f][k] ELSE Removed(f)[k]]

\* What there is after each operation of a batch.
Absorbing(ops) ==
  LET so[k \in 0 .. Len(ops)] == IF k = 0 THEN Start ELSE Absorbed(so[k - 1], ops[k]) IN so

\* A new vector takes the place of all that the id had.
Told(so, op) ==
  [f \in VectorFields |-> [so[f] EXCEPT ![op.id] = IF f \in op.fields THEN op.vector ELSE 0]]

Telling(ops) ==
  LET so[k \in 0 .. Len(ops)] == IF k = 0 THEN truth ELSE Told(so[k - 1], ops[k]) IN so

-----------------------------------------------------------------------------

SidecarInit ==
  /\ sidecar = "closed" /\ manifest = [next |-> 1, ids |-> NoKeys]
  /\ indices = [f \in VectorFields |-> NoIndex] /\ stored = [f \in VectorFields |-> NoIndex]
  /\ saved = NoManifest /\ job = NoJob /\ operations = 0 /\ callFaults = 0
  /\ truth = [f \in VectorFields |-> NoKeys] /\ unsure = {} /\ strays = {} /\ lost = FALSE

\* The file of the field has a vector by the key, and the manifest lacks the key or the field.
Strange(f, k) ==
  /\ stored[f] # NoIndex /\ stored[f][k] # 0
  /\ f \notin saved.fields \/ \A id \in VectorIds : saved.ids[id] # k

\* openUSearchVectorIndex, readUsearchManifest.
OpenSidecar ==
  /\ sidecar = "closed"
  /\ IF \E f \in saved.fields : stored[f] = NoIndex
       THEN sidecar' = "broken" /\ UNCHANGED <<manifest, indices, strays>>
       ELSE /\ sidecar' = "open"
            /\ manifest' = [next |-> saved.next, ids |-> saved.ids]
            /\ indices' = [f \in VectorFields |->
                             IF f \in saved.fields THEN stored[f] ELSE NoIndex]
            /\ strays' = strays \cup {s \in VectorFields \X Keys : Strange(s[1], s[2])}
  /\ UNCHANGED <<stored, saved, job, operations, callFaults, truth, unsure, lost>>

\* Close, or the end of the process, also while a batch is applied.
StopSidecar ==
  /\ sidecar \in {"open", "applying"}
  /\ sidecar' = "closed" /\ job' = NoJob /\ unsure' = unsure \cup Touched(job.ops)
  /\ manifest' = [next |-> 1, ids |-> NoKeys] /\ indices' = [f \in VectorFields |-> NoIndex]
  /\ UNCHANGED <<stored, saved, operations, callFaults, truth, strays, lost>>

\* ApplyVectorChanges, up to the fields.
Apply(batch) ==
  LET ops == Numbered(batch)
      all == Absorbing(ops)[Len(ops)]
  IN  /\ sidecar = "open"
      /\ sidecar' = "applying"
      /\ operations' = operations + Len(batch)
      /\ manifest' = [next |-> all.next, ids |-> all.ids] /\ indices' = all.indices
      /\ job' = [ops |-> ops, todo |-> {f \in VectorFields : all.removals[f] # {}},
                 removals |-> all.removals, additions |-> all.additions]
      /\ UNCHANGED <<stored, saved, callFaults, truth, unsure, strays, lost>>

\* The native library does not create the index of a field: what the batch has named and
\* created so far stays, but nothing is saved.
CreateFails(batch) ==
  LET ops == Numbered(batch)
      so  == Absorbing(ops)
  IN  /\ sidecar = "open" /\ callFaults < MaxCallFaults
      /\ \E k \in DOMAIN ops :
           LET new == {f \in ops[k].fields : so[k - 1].indices[f] = NoIndex}
           IN  /\ manifest' = [next |-> so[k].next, ids |-> so[k].ids]
               /\ \E failing \in (SUBSET new) \ {{}} :
                    indices' = [f \in VectorFields |->
                                  IF f \in failing THEN NoIndex ELSE so[k].indices[f]]
      /\ operations' = operations + Len(batch) /\ callFaults' = callFaults + 1
      /\ unsure' = unsure \cup Touched(ops)
      /\ UNCHANGED <<sidecar, stored, saved, job, truth, strays, lost>>

\* removeBatch, compact, addBatch, and persistField.
SaveField(f) ==
  /\ sidecar = "applying" /\ f \in job.todo
  /\ indices' = [indices EXCEPT ![f] = Applied(f)]
  /\ stored' = [stored EXCEPT ![f] = Applied(f)]
  /\ job' = [job EXCEPT !.todo = @ \ {f}]
  /\ strays' = {s \in strays : s[1] = f => s[2] \notin job.removals[f] /\ Applied(f)[s[2]] # 0}
  /\ UNCHANGED <<sidecar, manifest, saved, operations, callFaults, truth, unsure, lost>>

GiveUp ==
  /\ callFaults < MaxCallFaults /\ callFaults' = callFaults + 1
  /\ sidecar' = "open" /\ job' = NoJob /\ unsure' = unsure \cup Touched(job.ops)
  /\ UNCHANGED <<manifest, operations, truth, strays>>

\* One of the native calls fails, or the file is not written, or replaceUsearchFile removes
\* the old one and cannot put the new one in its place.
FieldFails(f) ==
  /\ sidecar = "applying" /\ f \in job.todo /\ GiveUp
  /\ \/ /\ \E now \in {indices[f], Removed(f), Applied(f)} : indices' = [indices EXCEPT ![f] = now]
        /\ UNCHANGED stored
     \/ /\ indices' = [indices EXCEPT ![f] = Applied(f)]
        /\ stored' = [stored EXCEPT ![f] = NoIndex]
  /\ UNCHANGED <<saved, lost>>

\* writeUsearchManifest.
WriteManifest ==
  /\ sidecar = "applying" /\ job.todo = {}
  /\ saved' = [next |-> manifest.next, ids |-> manifest.ids,
               fields |-> {f \in VectorFields : indices[f] # NoIndex}]
  /\ sidecar' = "open" /\ job' = NoJob
  /\ truth' = Telling(job.ops)[Len(job.ops)] /\ unsure' = unsure \ Touched(job.ops)
  /\ UNCHANGED <<manifest, indices, stored, operations, callFaults, strays, lost>>

ManifestFails ==
  /\ sidecar = "applying" /\ job.todo = {} /\ GiveUp
  /\ \/ UNCHANGED <<saved, lost>>
     \/ saved' = NoManifest /\ lost' = TRUE
  /\ UNCHANGED <<indices, stored>>

SidecarNext ==
  \/ OpenSidecar \/ StopSidecar \/ WriteManifest \/ ManifestFails
  \/ \E f \in VectorFields : SaveField(f) \/ FieldFails(f)
  \/ \E n \in 1 .. Min({MaxInBatch, MaxOperations - operations}) : \E batch \in [1 .. n -> Operations] :
       Apply(batch) \/ CreateFails(batch)

SidecarSpec == SidecarInit /\ [][SidecarNext]_sidecarVars

-----------------------------------------------------------------------------
(* Properties *)

\* SearchCandidates: the vector of a field that counts as that of an id.
VectorOf(f, id) ==
  IF manifest.ids[id] = 0 \/ indices[f] = NoIndex THEN 0 ELSE indices[f][manifest.ids[id]]

\* A sidecar that is open has for every id the vectors that the last batch with it gave it,
\* and no one else's, over any stops of the process and any failed calls; unless that batch
\* itself failed or was cut short, or the key of the id is one that such a batch left in the
\* field's file with a manifest that did not have the key or the field, or the manifest was
\* lost.  And as long as no call has failed it can be
\* opened again wherever it stops.
SidecarIsTrue ==
  /\ sidecar = "broken" => callFaults > 0
  /\ sidecar = "open" /\ ~lost =>
       \A f \in VectorFields, id \in VectorIds :
         <<f, id>> \notin unsure /\ <<f, manifest.ids[id]>> \notin strays
           => VectorOf(f, id) = truth[f][id]
=============================================================================
