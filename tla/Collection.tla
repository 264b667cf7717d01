----------------------------- MODULE Collection -----------------------------
(***************************************************************************)
(* A collection (collection.go, collection_storage.go, collection_gc.go,    *)
(* collection_reader.go, collection_catalog.go): a text index and, beside   *)
(* it, vector spaces of which every publication writes a whole new          *)
(* generation.  One process, the owner, has collection.lock and writes;     *)
(* readers in any process pin the generation they found.  generations.lock, *)
(* the gate, serialises publication, maintenance and the opening of readers.*)
(*                                                                         *)
(* A file is published by a rename followed by an fsync of its directory.   *)
(* Either may fail: then the name is there or not, and a power loss may     *)
(* still take it back.  The text index is a map that a batch replaces       *)
(* durably (collection.go:78), see IndexWriter for how.                     *)
(***************************************************************************)
EXTENDS Integers, FiniteSets, FiniteSetsExt, Functions

CONSTANTS Spaces,         \* names of vector spaces
          Specs,          \* specifications of a space
          Ids,            \* document identifiers
          Revs,           \* embedding-input revisions
          Readers,        \* collection readers
          None,           \* no process, no specification, no revision
          Owner,          \* the process that has collection.lock
          MaxGeneration,  \* bound: generations of a space
          MaxBatches,     \* bound: batches of documents and of vectors
          MaxFaults,      \* bound: failing file operations
          MaxCrashes      \* bound: crashes and power losses

ASSUME CollectionAssumption ==
  /\ IsFiniteSet(Ids)
  /\ MaxGeneration \in Nat /\ MaxBatches \in Nat /\ MaxFaults \in Nat /\ MaxCrashes \in Nat
  /\ None \notin Specs \cup Revs \cup Readers \cup {Owner} /\ Owner \notin Readers
  /\ None \notin [spec : Specs, newest : 0 .. MaxGeneration]

VARIABLES
  text,       \* the text index: the revision of each document
  dir,        \* the files of each space's directory: from names to contents
  synced,     \* what the directory held at its last fsync
  gate,       \* who has generations.lock
  pc,         \* where the owner is; "none": nobody has collection.lock
  revisions,  \* Collection.revisions
  spaces,     \* Collection.spaces: specification and newest generation
  writeErr,   \* Collection.writeErr is set
  job,        \* the publication or maintenance under way
  readers,    \* collection readers
  corrupt,    \* ghost: somebody was told ErrCollectionCorrupt
  acked,      \* ghost: vectors acknowledged for a revision that is current
  created,    \* ghost: spaces acknowledged
  faults, crashes, batches

vars == <<text, dir, synced, gate, pc, revisions, spaces, writeErr, job, readers,
          corrupt, acked, created, faults, crashes, batches>>

-----------------------------------------------------------------------------
(* Files *)

Generation == 1..MaxGeneration
Revision   == Revs \cup {None}
Vectors    == [Ids -> Revision]      \* a set of vectors, as the revision each is for

Catalog == <<"catalog", 0>>          \* spec.json
Pending == <<"pending", 0>>          \* a staging directory or temporary file
Names   == ({"index", "metadata", "commit", "retired"} \X Generation)
             \cup {Catalog, Pending}

Put(files, name, content) ==
  [n \in DOMAIN files \cup {name} |-> IF n = name THEN content ELSE files[n]]
Without(files, names) == Restrict(files, DOMAIN files \ names)

\* After a power loss each name leads to what it did at the last fsync or to
\* what it did since.
AfterPowerLoss(old, new) ==
  LET same    == {n \in DOMAIN old \cap DOMAIN new : old[n] = new[n]}
      changed == (DOMAIN old \cup DOMAIN new) \ same
  IN  {[n \in (DOMAIN old \cap lost) \cup (DOMAIN new \ lost) |->
          IF n \in lost THEN old[n] ELSE new[n]] : lost \in SUBSET changed}

Registered(s)  == Catalog \in DOMAIN dir[s]
Generations(s) == dir[s][Catalog].generations
Newest(gens)   == IF gens = {} THEN 0 ELSE Max(gens)

\* collectionGeneration counts what was never committed too.
Numbers(s) ==
  {n[2] : n \in {m \in DOMAIN dir[s] : m[1] \in {"index", "metadata", "commit"}}}

\* Mutant: generations are counted, not their greatest number taken.
HowMany(s) == Cardinality(Numbers(s))

LastGeneration(s) == Newest(Numbers(s))

\* What loadCollectionSpaces and collectionCatalogGenerations complain about.
SpaceLooksCorrupt(s) ==
  IF Registered(s)
    THEN \E g \in Generations(s) : <<"commit", g>> \notin DOMAIN dir[s]
    ELSE \E n \in DOMAIN dir[s] : n[1] = "commit"

HasPayload(s, g) == {<<"index", g>>, <<"metadata", g>>} \subseteq DOMAIN dir[s]

Count(vectors) == Cardinality({id \in Ids : vectors[id] # None})

\* loadCollectionVectorMetadata and openCollectionVectors.  A commit holds the
\* hashes of its payload, here the payload itself.
Loadable(s, g) ==
  \/ g = 0
  \/ /\ <<"commit", g>> \in DOMAIN dir[s] /\ HasPayload(s, g)
     /\ dir[s][<<"commit", g>>] = [index    |-> dir[s][<<"index", g>>],
                                   metadata |-> dir[s][<<"metadata", g>>]]
     /\ Count(dir[s][<<"index", g>>]) = Count(dir[s][<<"metadata", g>>])

-----------------------------------------------------------------------------

NoVectors == [id \in Ids |-> None]
NoJob     == [space |-> None, generation |-> 0, index |-> NoVectors, metadata |-> NoVectors,
              records |-> {}, scope |-> {}, todo |-> {}, doomed |-> {}, dirty |-> {},
              staged |-> FALSE, after |-> "idle"]
NoReader  == [pc |-> "closed", pins |-> [s \in Spaces |-> 0], held |-> {}]

Init ==
  /\ text = NoVectors
  /\ dir = [s \in Spaces |-> <<>>] /\ synced = dir
  /\ gate = None /\ pc = "none"
  /\ revisions = NoVectors /\ spaces = [s \in Spaces |-> None]
  /\ writeErr = FALSE /\ job = NoJob
  /\ readers = [r \in Readers |-> NoReader]
  /\ corrupt = FALSE
  /\ acked = [s \in Spaces |-> NoVectors] /\ created = [s \in Spaces |-> None]
  /\ faults = 0 /\ crashes = 0 /\ batches = 0

Ready == pc = "idle" /\ ~ writeErr       \* Collection.check

\* Mutant: generations.lock keeps nobody out.
Unlocked == TRUE

Free == gate = None

\* A rename and an fsync of the directory, and how they fail.
Written(s, name, content) ==
  /\ dir' = [dir EXCEPT ![s] = Put(@, name, content)]
  /\ synced' = [synced EXCEPT ![s] = dir'[s]]

NotWritten(s, name, content, temporary) ==
  /\ faults < MaxFaults /\ faults' = faults + 1
  /\ \E files \in {dir[s], Put(dir[s], name, content)} :
       dir' = [dir EXCEPT ![s] = Without(files, temporary)]
  /\ UNCHANGED synced

-----------------------------------------------------------------------------
(* The owner: opening, documents, spaces *)

\* OpenCollection: the catalogs are read, then all spaces are maintained.
OpenCollection ==
  /\ pc = "none"
  /\ IF \E s \in Spaces : SpaceLooksCorrupt(s)
       THEN corrupt' = TRUE /\ UNCHANGED <<pc, revisions, spaces, job>>
       ELSE /\ pc' = "maintain" /\ revisions' = text
            /\ spaces' = [s \in Spaces |->
                 IF Registered(s) THEN [spec   |-> dir[s][Catalog].spec,
                                        newest |-> Newest(Generations(s))]
                 ELSE None]
            /\ job' = [NoJob EXCEPT !.scope = Spaces, !.after = "opened"]
            /\ UNCHANGED corrupt
  /\ UNCHANGED <<text, dir, synced, gate, writeErr, readers, acked, created,
                 faults, crashes, batches>>

\* UpsertDocuments and DeleteDocuments: the revisions a batch sets, None deletes.
\* When the batch fails it may have been applied all the same.
EditDocuments(change) ==
  LET new == [id \in Ids |-> IF id \in DOMAIN change THEN change[id] ELSE text[id]]
      Edited(applied) ==
        /\ text' = applied
        /\ acked' = [s \in Spaces |-> [id \in Ids |->
                       IF applied[id] = text[id] THEN acked[s][id] ELSE None]]
  IN  /\ Ready /\ batches < MaxBatches /\ batches' = batches + 1
      /\ \/ /\ Edited(new) /\ revisions' = new
            /\ UNCHANGED <<writeErr, faults>>
         \/ /\ faults < MaxFaults /\ faults' = faults + 1
            /\ Edited(text) \/ Edited(new)
            /\ writeErr' = TRUE /\ UNCHANGED revisions
      /\ UNCHANGED <<dir, synced, gate, pc, spaces, job, readers, corrupt, created, crashes>>

\* CreateVectorSpace of a space the owner does not know: under the gate, an empty
\* catalog replaces whatever is there.
CreateVectorSpace(s, spec) ==
  LET catalog == [spec |-> spec, generations |-> {}]
  IN  /\ Ready /\ spaces[s] = None /\ Free
      /\ \/ /\ Written(s, Catalog, catalog)
            /\ spaces' = [spaces EXCEPT ![s] = [spec |-> spec, newest |-> 0]]
            /\ created' = [created EXCEPT ![s] = spec]
            /\ UNCHANGED faults
         \/ /\ NotWritten(s, Catalog, catalog, {})
            /\ UNCHANGED <<spaces, created>>
      /\ UNCHANGED <<text, gate, pc, revisions, writeErr, job, readers, corrupt,
                     acked, crashes, batches>>

-----------------------------------------------------------------------------
(* The owner: UpsertVectors *)

\* Records whose revision is not the document's are refused, all of them.
Conflicts(records) == {id \in DOMAIN records : revisions[id] # records[id]}

\* Mutant: what the batch does not bring is taken for stale.
OnlyRecords(vectors, known, records) ==
  [id \in Ids |-> IF id \in DOMAIN records THEN records[id] ELSE None]

\* What becomes of the vectors of a generation: records replace, vectors of
\* documents that changed or went away are dropped.
Updated(vectors, known, records) ==
  [id \in Ids |-> CASE id \in DOMAIN records         -> records[id]
                    [] known[id] # revisions[id]     -> None
                    [] OTHER                         -> vectors[id]]

UpsertVectors(s, records) ==
  /\ Ready /\ spaces[s] # None /\ batches < MaxBatches /\ batches' = batches + 1
  /\ Conflicts(records) = {}
  /\ LET newest == spaces[s].newest
         Of(kind) == IF newest = 0 THEN NoVectors ELSE dir[s][<<kind, newest>>]
     IN  IF ~ Loadable(s, newest)
           THEN corrupt' = TRUE /\ UNCHANGED <<dir, pc, job>>
           ELSE /\ LastGeneration(s) < MaxGeneration
                /\ dir' = [dir EXCEPT ![s] = Put(@, Pending, 0)]
                /\ job' = [NoJob EXCEPT
                     !.space = s, !.generation = LastGeneration(s) + 1, !.staged = TRUE,
                     !.index    = Updated(Of("index"), Of("metadata"), records),
                     !.metadata = Updated(Of("metadata"), Of("metadata"), records),
                     !.records  = DOMAIN records, !.scope = {s}]
                /\ pc' = "index" /\ UNCHANGED corrupt
  /\ UNCHANGED <<text, synced, gate, revisions, spaces, writeErr, readers, acked,
                 created, faults, crashes>>

\* UpsertVectors returns an error; the staging directory goes.
GiveUp == pc' = "idle" /\ job' = NoJob

PublishPayload(kind, content, next) ==
  /\ pc = kind
  /\ \/ /\ Written(job.space, <<kind, job.generation>>, content)
        /\ pc' = next /\ UNCHANGED <<job, faults>>
     \/ /\ NotWritten(job.space, <<kind, job.generation>>, content, {Pending})
        /\ GiveUp
  /\ UNCHANGED <<text, gate, revisions, spaces, writeErr, readers, corrupt, acked,
                 created, crashes, batches>>
PublishIndex    == PublishPayload("index", job.index, "metadata")
PublishMetadata == PublishPayload("metadata", job.metadata, "commit")

\* Somebody changed the space under the owner's eyes.
SpaceChanged(s) ==
  \/ SpaceLooksCorrupt(s) \/ ~ Registered(s)
  \/ dir[s][Catalog].spec # spaces[s].spec
  \/ Newest(Generations(s)) # spaces[s].newest

\* Under the gate: the catalog is read again and the commit written.
PublishCommit ==
  LET s       == job.space
      commit  == [index |-> job.index, metadata |-> job.metadata]
      name    == <<"commit", job.generation>>
  IN  /\ pc = "commit" /\ Free
      /\ \/ /\ SpaceChanged(s) /\ corrupt' = TRUE
            /\ dir' = [dir EXCEPT ![s] = Without(@, {Pending})]
            /\ GiveUp /\ UNCHANGED <<synced, gate, faults>>
         \/ /\ ~ SpaceChanged(s) /\ Written(s, name, commit)
            /\ gate' = Owner /\ pc' = "catalog"
            /\ UNCHANGED <<job, corrupt, faults>>
         \/ /\ ~ SpaceChanged(s) /\ NotWritten(s, name, commit, {Pending})
            /\ GiveUp /\ UNCHANGED <<gate, corrupt>>
      /\ UNCHANGED <<text, revisions, spaces, writeErr, readers, acked, created,
                     crashes, batches>>

\* The catalog is the publication point.  When it fails it may be visible, so
\* nothing is written any more before the collection is opened again.
PublishCatalog ==
  LET s       == job.space
      catalog == [dir[s][Catalog] EXCEPT !.generations = @ \cup {job.generation}]
  IN  /\ pc = "catalog" /\ gate' = None
      /\ \/ /\ Written(s, Catalog, catalog)
            /\ spaces' = [spaces EXCEPT ![s].newest = job.generation]
            /\ acked' = [acked EXCEPT ![s] = [id \in Ids |->
                 IF id \in job.records /\ job.metadata[id] = text[id]
                 THEN text[id] ELSE @[id]]]
            /\ pc' = "maintain" /\ UNCHANGED <<writeErr, job, faults>>
         \/ /\ NotWritten(s, Catalog, catalog, {Pending})
            /\ writeErr' = TRUE /\ GiveUp /\ UNCHANGED <<spaces, acked>>
      /\ UNCHANGED <<text, revisions, readers, corrupt, created, crashes, batches>>

-----------------------------------------------------------------------------
(* Maintenance: by the owner, or offline by a process that takes its lock *)

Maintain(scope) ==
  /\ Ready /\ pc' = "maintain" /\ job' = [NoJob EXCEPT !.scope = scope]
  /\ UNCHANGED <<text, dir, synced, gate, revisions, spaces, writeErr, readers,
                 corrupt, acked, created, faults, crashes, batches>>

MaintainCollection(scope) ==
  /\ pc = "none" /\ pc' = "maintain"
  /\ job' = [NoJob EXCEPT !.scope = scope, !.after = "none"]
  /\ UNCHANGED <<text, dir, synced, gate, revisions, spaces, writeErr, readers,
                 corrupt, acked, created, faults, crashes, batches>>

\* Maintenance returns, after a publication to UpsertVectors, whose staging
\* directory goes.  OpenCollection fails if it found the collection corrupt.
Unstaged(files) ==
  IF job.staged THEN [files EXCEPT ![job.space] = Without(@, {Pending})] ELSE files

Return(found) ==
  /\ pc' = CASE job.after = "opened" /\ found -> "none"
             [] job.after = "opened"          -> "idle"
             [] OTHER                         -> job.after
  /\ gate' = None /\ job' = NoJob
  /\ corrupt' = (corrupt \/ found)

\* Under the gate all catalogs and commits are checked before anything changes.
\* Spaces that are named must exist.
BeginMaintenance ==
  LET known == {s \in job.scope : Registered(s)}
      bad   == \/ \E s \in job.scope : SpaceLooksCorrupt(s)
               \/ \E s \in known : \E g \in Generations(s) : ~ HasPayload(s, g)
  IN  /\ pc = "maintain" /\ Free
      /\ IF bad
           THEN Return(TRUE) /\ dir' = Unstaged(dir)
           ELSE /\ gate' = Owner /\ pc' = "maintaining"
                /\ job' = [job EXCEPT !.todo = known, !.dirty = @ \cup job.scope]
                /\ UNCHANGED <<dir, corrupt>>
      /\ UNCHANGED <<text, synced, revisions, spaces, writeErr, readers, acked,
                     created, faults, crashes, batches>>

\* Generations of which no reader has the lease file locked.
Pinned(s) == {readers[r].pins[s] : r \in {q \in Readers : s \in readers[q].held}}

\* Mutant: readers' leases are not tried.
AllOlder(s) == Generations(s) \ {Newest(Generations(s))}

Retirable(s) == Generations(s) \ ({Newest(Generations(s))} \cup Pinned(s))

\* retireCollectionGenerations replaces the catalog while it has the leases.
Uncatalogued(s) ==
  Put(dir[s], Catalog, [dir[s][Catalog] EXCEPT !.generations = @ \ Retirable(s)])

Retire(s) ==
  /\ pc = "maintaining" /\ job.doomed = {} /\ s \in job.todo
  /\ IF Retirable(s) = {}
       THEN job' = [job EXCEPT !.todo = @ \ {s}] /\ UNCHANGED <<dir, synced>>
       ELSE /\ dir' = [dir EXCEPT ![s] = Uncatalogued(s)]
            /\ synced' = [synced EXCEPT ![s] = dir'[s]]
            /\ job' = [job EXCEPT !.todo = @ \ {s}, !.doomed = {s} \X Retirable(s)]
  /\ UNCHANGED <<text, gate, pc, revisions, spaces, writeErr, readers, corrupt,
                 acked, created, faults, crashes, batches>>

\* The commit of a retired generation gets another name.
Retired(s, g) == Put(Without(dir[s], {<<"commit", g>>}), <<"retired", g>>, 0)

RetireCommit(s, g) ==
  /\ pc = "maintaining" /\ <<s, g>> \in job.doomed
  /\ \A other \in job.doomed : g <= other[2]
  /\ dir' = [dir EXCEPT ![s] = Retired(s, g)]
  /\ synced' = [synced EXCEPT ![s] = dir'[s]]
  /\ job' = [job EXCEPT !.doomed = @ \ {<<s, g>>}]
  /\ UNCHANGED <<text, gate, pc, revisions, spaces, writeErr, readers, corrupt,
                 acked, created, faults, crashes, batches>>

\* sweepCollectionDirectory: what is not committed goes, unless a reader has its
\* lease.  The directory is synced before anything is removed, and after.
Committed(s) == IF Registered(s) THEN Generations(s) ELSE {}

\* Mutant: numbers above the newest generation are left alone.
OldGarbage(s) ==
  {n \in DOMAIN dir[s] :
     \/ n = Pending \/ n[1] = "retired"
     \/ n[1] \in {"index", "metadata", "commit"} /\ n[2] \notin Committed(s)
        /\ n[2] < Newest(Committed(s))}

Garbage(s) ==
  {n \in DOMAIN dir[s] :
     \/ n = Pending \/ n[1] = "retired"
     \/ n[1] \in {"index", "metadata", "commit"} /\ n[2] \notin Committed(s)}

Orphans(s) == Pinned(s) \ Committed(s)

\* With them go the lease files.  Who has one locked keeps nobody out any more.
Unleased(s) ==
  [r \in Readers |-> IF readers[r].pins[s] \in Committed(s) THEN readers[r]
                     ELSE [readers[r] EXCEPT !.held = @ \ {s}]]

\* Mutant: the directory is not synced before files are removed.
NotSynced(s) == synced

SyncedFirst(s) == [synced EXCEPT ![s] = dir[s]]

Sweep(s) ==
  /\ pc = "maintaining" /\ job.todo = {} /\ job.doomed = {} /\ s \in job.dirty
  /\ synced' = SyncedFirst(s)
  /\ IF Orphans(s) # {}
       THEN Return(TRUE) /\ dir' = Unstaged(dir) /\ UNCHANGED readers
       ELSE /\ dir' = [dir EXCEPT ![s] = Without(@, Garbage(s))]
            /\ readers' = Unleased(s)
            /\ pc' = "sweeping" /\ job' = [job EXCEPT !.dirty = @ \ {s}, !.space = s]
            /\ UNCHANGED <<gate, corrupt>>
  /\ UNCHANGED <<text, revisions, spaces, writeErr, acked, created, faults, crashes, batches>>

SweepDone ==
  /\ pc = "sweeping" /\ pc' = "maintaining"
  /\ synced' = [synced EXCEPT ![job.space] = dir[job.space]]
  /\ UNCHANGED <<text, dir, gate, revisions, spaces, writeErr, job, readers, corrupt,
                 acked, created, faults, crashes, batches>>

EndMaintenance ==
  /\ pc = "maintaining" /\ job.todo = {} /\ job.doomed = {} /\ job.dirty = {}
  /\ Return(FALSE) /\ dir' = Unstaged(dir)
  /\ UNCHANGED <<text, synced, revisions, spaces, writeErr, readers, acked, created,
                 faults, crashes, batches>>

\* A file operation of maintenance fails, or its context is cancelled.  Whatever
\* the operation did may be visible.
MaintenanceFails ==
  /\ pc \in {"maintaining", "sweeping"} /\ faults < MaxFaults /\ faults' = faults + 1
  /\ Return(FALSE)
  /\ \/ dir' = Unstaged(dir) /\ UNCHANGED <<synced, readers>>
     \/ \E s \in job.todo :
          /\ pc = "maintaining" /\ job.doomed = {} /\ Retirable(s) # {}
          /\ dir' = Unstaged([dir EXCEPT ![s] = Uncatalogued(s)])
          /\ UNCHANGED <<synced, readers>>
     \/ \E d \in job.doomed :
          /\ dir' = Unstaged([dir EXCEPT ![d[1]] = Retired(d[1], d[2])])
          /\ UNCHANGED <<synced, readers>>
     \/ \E s \in job.dirty : \E some \in SUBSET Garbage(s) \ {{}} :
          /\ pc = "maintaining" /\ job.todo = {} /\ job.doomed = {} /\ Orphans(s) = {}
          /\ dir' = Unstaged([dir EXCEPT ![s] = Without(@, some)])
          /\ synced' = SyncedFirst(s) /\ readers' \in {readers, Unleased(s)}
  /\ UNCHANGED <<text, revisions, spaces, writeErr, acked, created, crashes, batches>>

-----------------------------------------------------------------------------
(* Readers *)

\* newCollectionReader: shared locks on the leases of all pinned generations.
Opened(r, pins) ==
  readers' = [readers EXCEPT ![r] =
    [pc |-> "open", pins |-> pins, held |-> {s \in Spaces : pins[s] # 0}]]

\* OpenCollectionReader takes the gate and reads the catalogs...
OpenCollectionReader(r, selected) ==
  /\ readers[r].pc = "closed" /\ Free
  /\ \A s \in selected : Registered(s) \/ SpaceLooksCorrupt(s)
  /\ IF \E s \in selected : SpaceLooksCorrupt(s)
       THEN corrupt' = TRUE /\ UNCHANGED <<gate, readers>>
       ELSE /\ gate' = r
            /\ readers' = [readers EXCEPT ![r] = [NoReader EXCEPT !.pc = "opening",
                 !.pins = [s \in Spaces |->
                   IF s \in selected THEN Newest(Generations(s)) ELSE 0]]]
            /\ UNCHANGED corrupt
  /\ UNCHANGED <<text, dir, synced, pc, revisions, spaces, writeErr, job, acked,
                 created, faults, crashes, batches>>

\* ...then the text index, and pins the generations.
PinSpaces(r) ==
  /\ readers[r].pc = "opening" /\ gate' = None
  /\ Opened(r, readers[r].pins)
  /\ UNCHANGED <<text, dir, synced, pc, revisions, spaces, writeErr, job, corrupt, acked,
                 created, faults, crashes, batches>>

\* Collection.Reader pins what the owner has in memory, without reading a catalog.
Reader(r, selected) ==
  /\ Ready /\ Free /\ readers[r].pc = "closed"
  /\ \A s \in selected : spaces[s] # None
  /\ Opened(r, [s \in Spaces |-> IF s \in selected THEN spaces[s].newest ELSE 0])
  /\ UNCHANGED <<text, dir, synced, gate, pc, revisions, spaces, writeErr, job, corrupt,
                 acked, created, faults, crashes, batches>>

\* A reader closes, or its process dies.
CloseReader(r) ==
  /\ readers[r].pc # "closed" /\ readers' = [readers EXCEPT ![r] = NoReader]
  /\ gate' = IF gate = r THEN None ELSE gate
  /\ UNCHANGED <<text, dir, synced, pc, revisions, spaces, writeErr, job, corrupt,
                 acked, created, faults, crashes, batches>>

-----------------------------------------------------------------------------
(* The end of a process, and of all *)

Forget == /\ pc' = "none" /\ writeErr' = FALSE /\ job' = NoJob
          /\ revisions' = NoVectors /\ spaces' = [s \in Spaces |-> None]

Close ==
  /\ pc = "idle" /\ Forget
  /\ UNCHANGED <<text, dir, synced, gate, readers, corrupt, acked, created, faults,
                 crashes, batches>>

\* The owner dies.  The readers in its process die too, as readers may at any time.
Crash ==
  /\ pc # "none" /\ crashes < MaxCrashes /\ crashes' = crashes + 1
  /\ Forget /\ gate' = IF gate = Owner THEN None ELSE gate
  /\ UNCHANGED <<text, dir, synced, readers, corrupt, acked, created, faults, batches>>

PowerLoss ==
  /\ crashes < MaxCrashes /\ crashes' = crashes + 1
  /\ Forget /\ gate' = None /\ readers' = [r \in Readers |-> NoReader]
  /\ dir' \in {f \in [Spaces -> UNION {AfterPowerLoss(synced[s], dir[s]) : s \in Spaces}] :
                 \A s \in Spaces : f[s] \in AfterPowerLoss(synced[s], dir[s])}
  /\ synced' = dir'
  /\ UNCHANGED <<text, corrupt, acked, created, faults, batches>>

Scopes == {Spaces} \cup {{s} : s \in {x \in Spaces : Registered(x)}}

Next ==
  \/ OpenCollection
  \/ \E ids \in (SUBSET Ids) \ {{}} : \E change \in [ids -> Revs] \cup {[id \in ids |-> None]} :
       EditDocuments(change)
  \/ \E s \in Spaces, spec \in Specs : CreateVectorSpace(s, spec)
  \/ \E s \in Spaces, ids \in (SUBSET Ids) \ {{}} : \E records \in [ids -> Revs] :
       UpsertVectors(s, records)
  \/ PublishIndex \/ PublishMetadata \/ PublishCommit \/ PublishCatalog
  \/ \E scope \in Scopes : Maintain(scope) \/ MaintainCollection(scope)
  \/ BeginMaintenance
  \/ \E s \in Spaces : Retire(s) \/ Sweep(s)
  \/ \E d \in job.doomed : RetireCommit(d[1], d[2])
  \/ SweepDone \/ EndMaintenance \/ MaintenanceFails
  \/ \E r \in Readers :
       \/ \E selected \in (SUBSET Spaces) \ {{}} :
            OpenCollectionReader(r, selected) \/ Reader(r, selected)
       \/ PinSpaces(r) \/ CloseReader(r)
  \/ Close \/ Crash \/ PowerLoss

Spec == Init /\ [][Next]_vars

-----------------------------------------------------------------------------
(* Properties *)

\* Every name, content and counter is of its kind.
TypeOK ==
  /\ text \in Vectors /\ revisions \in Vectors /\ acked \in [Spaces -> Vectors]
  /\ \A s \in Spaces : DOMAIN dir[s] \subseteq Names /\ DOMAIN synced[s] \subseteq Names
  /\ gate \in Readers \cup {None, Owner}
  /\ pc \in {"none", "idle", "index", "metadata", "commit", "catalog", "maintain",
             "maintaining", "sweeping"}
  /\ writeErr \in BOOLEAN /\ corrupt \in BOOLEAN
  /\ created \in [Spaces -> Specs \cup {None}]
  /\ job.scope \cup job.todo \cup job.dirty \subseteq Spaces
  /\ job.doomed \subseteq Spaces \X Generation
  /\ \A r \in Readers : readers[r].held \subseteq Spaces
  /\ faults \in 0..MaxFaults /\ crashes \in 0..MaxCrashes /\ batches \in 0..MaxBatches

\* VerifyCollection never fails: each generation a catalog names has a commit, an
\* index and metadata that agree, whatever failed, crashed or lost power, between
\* any two steps of publication, retirement and sweep.
CatalogIsComplete ==
  \A s \in Spaces : Registered(s) => \A g \in Generations(s) : Loadable(s, g)

\* No check of the code takes the traces of an interrupted publication or
\* maintenance, or a reader's lease, for corruption (ErrCollectionCorrupt).
NothingLooksCorrupt == ~ corrupt

\* A reader loads vectors long after it pinned them (vectorReader): the generation
\* is still there, and nobody else can take its lease.
PinnedIsReadable ==
  \A r \in Readers, s \in Spaces :
    readers[r].pc = "open" /\ readers[r].pins[s] # 0 =>
      /\ s \in readers[r].held
      /\ Loadable(s, readers[r].pins[s])

\* A generation never changes under its number as long as a catalog names it, also
\* when the numbers of abandoned publications are used again.
GenerationsAreImmutable ==
  [][\A s \in Spaces : Registered(s) /\ Registered(s)' =>
       \A g \in Generations(s) \cap Generations(s)' : \A kind \in {"index", "metadata"} :
         dir'[s][<<kind, g>>] = dir[s][<<kind, g>>]]_vars

\* What CreateVectorSpace and UpsertVectors reported done stays done: the space has
\* its specification and the newest generation a vector for every acknowledged
\* revision that is still the document's.
AckedIsPublished ==
  \A s \in Spaces :
    /\ created[s] # None => Registered(s) /\ dir[s][Catalog].spec = created[s]
    /\ \A id \in Ids : acked[s][id] # None =>
         LET newest == Newest(Generations(s))
         IN  /\ newest # 0
             /\ dir[s][<<"index", newest>>][id] = acked[s][id]
             /\ dir[s][<<"metadata", newest>>][id] = acked[s][id]

\* Maintenance that ends well leaves no file in the spaces it was asked for but
\* those of the generations in the catalog (docs/separate-vector-storage-experiment.md).
MaintenanceReclaims ==
  [][EndMaintenance => \A s \in job.scope : \A n \in DOMAIN dir'[s] :
       n = Catalog \/ (n[1] \in {"index", "metadata", "commit"} /\ n[2] \in Committed(s)')]_vars
=============================================================================
