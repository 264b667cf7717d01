# A TLA+ model of Bluge

Bluge is a full text index library in Go. Its core is the package `index`: a
writer that applies batches of documents to an immutable *root* snapshot,
persists roots to a directory in the background, merges segments in the
background, and survives a crash of the process at any moment, while readers in
the same and in other processes use snapshots. Around it are the writer that
applications see, searches over snapshots, vector indexes beside the text, and
collections that publish generations of vectors. This directory holds TLA+ modules
of these parts, TLC configurations that check them on small instances, and proofs
that TLAPS checks for every value of the constants. Paths below are relative to
`src/`.

Contents: [the system](#1-the-system), [the modules](#2-the-modules),
[what is checked](#3-what-is-checked), [fairness](#4-fairness),
[what is proved](#5-what-is-proved), [disagreements found](#6-where-the-code-and-its-documentation-disagree),
[what is left out](#7-what-is-left-out), [the plan](#8-plan).

## 1. The system

| component | state it keeps | operations | interacts with |
|---|---|---|---|
| **segments and roots** (`index/segment.go`, `introducer.go`, `merge.go`) | a root: epoch, segments, a bitmap of deleted document numbers for each | look up what a batch obsoletes, replace segments by their merge with renumbered deletions | read by everyone, replaced by the introducer only |
| **writer** (`index/writer.go`) | `root`, `nextSegmentID`, `rootPersisted`, `persistedCallbacks`, `closing`, `mutationLock` | `OpenWriter`, `Batch`, `Reader`, `Close` | sends introductions, waits for the persister, drains the loops |
| **introducer** (`index/introducer.go`) | the next epoch, watchers of the persister | `introduceSegment`, `introducePersist`, `introduceMerge` | one channel from each of the others |
| **persister** (`index/persister.go`) | `lastPersistedEpoch`, callbacks of failed attempts, watchers of the merger, backoff, drain requests | nap and pause, in-memory merge, write segments, write the snapshot, clean up | introducer, merger, directory, deletion policy |
| **merger** (`index/merge.go`) | last planned epoch, backoff | plan, merge files, drain | introducer, persister, planner |
| **merge planner** (`index/mergeplan/`) | nothing | rosters of small segments, until they fit the budget | merger |
| **deletion policy** (`index/deletion.go`) | live and deletable epochs, which snapshot needs which segment, known segments | `Commit`, `TrackSegmentFiles`, `Cleanup` | called by the persister, `OpenWriter` and `Close` |
| **directory** (`index/directory_fs.go`, `index/lock/`) | files on disk, `flock`s on them, the pid file | `Persist`, `Load`, `Remove`, `List`, `Lock`, `Unlock`, `Stats` | other processes through the file system |
| **snapshots** (`index/snapshot.go`, `segment_plugin.go`, `postings.go`) | reference counts, recycled postings iterators | `addRef`, `decRef`, `PostingsIterator`, `Next`, `Advance` | all loops, readers, searches |
| **readers** (`OpenReader`) | a loaded snapshot with shared locks on its files | open, fall back to an older snapshot, close | the writer in another process, through the files |
| **segment format** (`internal/zapxtext/`) | fields, stored records in blocks, postings of each term in chunks, doc values, statistics, vectors | build, merge, iterate, visit | snapshots, mergers |
| **offline writer** (`index/writer_offline.go`) | segments written so far | `Batch`, concurrent merge tasks, `Close` | directory |
| **the application's writer** (`writer.go`, `writer_limits.go`, `vector_batch.go`) | admitted bytes and slots | `Batch`, `BatchFunc`, `Close` | index writer, vector index |
| **text import** (`writer_text.go`) | the chunk being cut, what is committed | `ImportText` | batches |
| **vector sidecar** (`vector_usearch.go`) | native indexes and a manifest of ids, in memory and in files | open, `ApplyVectorChanges`, search | the application's writer |
| **vector readers** (`collection_reader.go`, `vector_usearch_purego.go`) | views, native handles, a gate of permits for each | search, `Close`, open a view, acquire and release | the native library, which gives addresses out again |
| **collection** (`collection*.go`) | catalogs, generations, leases, payload files | documents, vectors, publish, maintain, read | an index writer, readers in other processes |
| **searchers and collectors** (`search/`, `query.go`) | where each iterator is, the best matches so far | `Next`, `Advance`, top N | postings of a snapshot |
| **analysis, encodings, aggregations, highlighting** | nothing that changes | pure functions | searches, batches |

What makes it hard, and what each part must therefore guarantee:

- *A batch works out what it obsoletes against one root and is applied to a later
  one*, while merges copy the documents it deletes. The root must always hold
  exactly what the sequence of batches leaves behind, no identifier twice.
- *Persisting is asynchronous, fails and is retried.* A caller is answered for the
  root that holds its batch and no other; callbacks are called once, in order,
  after their batch is on disk; nobody waits for ever.
- *The process dies between any two file operations.* Whatever snapshot is
  complete can be loaded, and is a prefix of the batches that holds everything
  acknowledged. What a collection has published is complete, also after a power loss.
- *Garbage collection decides from bookkeeping, not from the files.* It must never
  take a file of the root, of a complete snapshot, of a merge under way, or of a
  generation that somebody has pinned, and must tolerate failing removals.
- *Readers in other processes* list, lock and load files while they are removed.
- *Three loops wait for one another* through watchers, with a nap, a pause, a
  backoff and a drain protocol: no lost wake-up, no deadlock, a clean close.
- *Segments are mapped into memory and counted*: loops, merges and readers take and give
  back references on every path, failures and Close included.
- *Two indexes take each batch one after the other*, the text and the vectors.
- *Iterators remember where they are*, over streams that must stay in step, under
  calls of `Next` and `Advance` in any order, and are used again by other searches.
- *Two processes* may open the same directory.

`PROJECT.json` lists these hazards one by one with the line where they bite and the
properties that would notice.

## 2. The modules

```
DurableIndex          what a writer promises          PromiseProofs
   ^ implements
IndexWriter           batches, persists, merges, crashes  IndexWriterProofs, DurabilityProofs
   EXTENDS Segments         operators on roots (documents, deletions, merges)
   EXTENDS DeletionPolicy   the policy as a record and its operations
IndexFiles            files, locks, readers, reopening IndexFilesProofs
   EXTENDS DeletionPolicy
WriterLoops           watchers, backoff, pause, Close WriterLoopsProofs
SegmentHandles        who keeps a loaded segment open SegmentHandlesProofs
MergePlan             the planner, and plans one after another
DirectoryLock         the pid file                    EntryProofs
OfflineWriter         builds, rounds of merges, Close EntryProofs

TermPostings          postings of a term: chunks, merge, iterator
SegmentContent        what builds and merges keep of documents, how it is read
SnapshotPostings      recycled iterators of a snapshot PromiseProofs
Searchers             conjunctions, disjunctions, boolean queries
TopN                  pages of the best matches       PromiseProofs

WriterFrontend        admission, limits, text, vectors EntryProofs
TextImport            cutting and importing a text   PromiseProofs
VectorSidecar         native vector indexes, files   EntryProofs
                      and manifest
VectorReaders         native indexes beside Close    PromiseProofs
Collection            catalogs, generations, leases  CollectionProofs
                      maintenance, power loss
```

Four modules look at the writer of `index`, each with the detail that its properties
need and the others abstract: `IndexWriter` has the documents, `IndexFiles` has the file
locks and other processes, `WriterLoops` has the channels, `SegmentHandles` has the
reference counts. `DeletionPolicy` is shared by the first two. The `MC*` modules give
constants their values; `MCParts` puts the parts that do not interact side by side, so
that one run checks small instances of all of them (its `part` says which one moves).

**Segments** holds pure operators. A segment is `[id, docs, deleted, persisted]`, `docs`
a sequence of <<identifier, batch>> whose indices are document numbers. `WithBatch`,
`WithPersisted` and `WithMerge` are the three introductions; `Merge` and `DeletedSince`
are the merge with its renumbering and `ProcessSegmentNow`, which carries deletions that
came in meanwhile through it.

**DeletionPolicy** is `KeepNLatestDeletionPolicy`: `live` and `deletable` epochs, `needs`
(which snapshot needs which segment) and `known`. `Cleanup` has two halves with failures
between them; the modules that use it make them separate actions.

**IndexWriter.** The goroutines are `writer[w]`, `persister` and `merger` with program
counters. Each action is a handler, or the part of it up to the next point where another
goroutine, a file operation or a crash can come in. As in the code only the introducer
replaces the root, so an introduction is one step. `PersisterTake` takes root, waiting
callers and callbacks together (`rootLock`, persister.go:87-98); then come
`PersisterMerge`/`PersisterMergeDone` (the in-memory merge and the *equivalent snapshot*
that keeps the epoch), or `PersistSegment` for each segment and `IntroducePersist`;
`SnapshotCreate` and `SnapshotWritten` (the file exists before it is complete);
`PersistSucceeds`; and both halves of the cleanup. `PersistFails` may happen in any of
the file operations. `MergerPlan` lets the planner choose any group of persisted
segments. `Crash` forgets the memory, `OpenWriter` rebuilds it from the files. `history`
(what each batch left), `upto` (the batches in a root), `acked` and `fired` are ghosts.

**IndexFiles** has no documents: a root is a set of segment ids. It has what
IndexWriter does not: every `flock` of a file, files created before they are locked,
`Persist` removing a file it could not write, removals that fail because a reader shares
the file, `OpenWriter` step by step (`StartOpen`, one `LoadSnapshot` per epoch,
`AbortOpen`, `FinishOpen`) with crashes inside, and readers in other processes
(`ListSnapshots`, `OpenSnapshot`, `ReadSnapshot`, `OpenSegment`, `LockSegment`, `Retry`).

**WriterLoops** has the control of the three loops and of `Close`. A watcher is `sent`
(in the channel, which has room for one), `held` by the loop on the other side, or
`woken`. `persister.pc` follows persisterLoop: `select`, `napping`, `paused`, `taking`,
`working`, `subscribe`, `end`. `timer` is a running backoff, `err` the outstanding error.
`closer` is where `Close` is: asking for `mutationLock`, draining the merger, syncing the
persister, both again, stopping, waiting. The content of segments is reduced to how many
there are, and what a merge or batch does to that number is left open.

**SegmentHandles** has every snapshot ever made with its count of users, and for each
loaded file the count of snapshots and goroutines that have it. Persister and merger are
followed through each point where `closeCh` or a failure may turn them away, the map
`persist.persisted` that persister and introducer share is shared here too, and a reader
may hold any root for as long as it likes.

**MergePlan** has a segment as live and full document counts. `Roster`, `CalcBudget` (a
recursive function) and the sorting are the planner's; batches go on adding and deleting
documents until they stop, and plans are computed and executed one after another, as
`convergeMerges` does in Close. Which of several rosters scores best is left open.

**OfflineWriter** follows `Batch` (a goroutine per batch, limited by tokens) and `Close`:
rounds of concurrent merges with new ids in the order of their inputs, any of which may
fail while others still write, and the snapshot at the end.

**DirectoryLock** has processes, inodes and a name. An `flock` belongs to the opened
inode, and `Unlock` closes it before it removes the name.

**TermPostings** writes the postings of one term the way `writeDicts` does, merges two
segments posting by posting (`MergePosting`), and reads with `Next` and `Advance`. What is
stored of a posting is its *kind* (frequency, norm, whether it has locations) and, as a
ghost, whose it is. `InFront` has the four ways in which an iterator finds the details of
a document: one chunk after another, skipping what is deleted, sparse, dense.

**SegmentContent** is what a segment holds of its documents besides how postings are laid out:
`SegmentOf` builds one from a batch (positions of repeated fields, composite fields, prefixes
of numbers, doc values, vectors), `MergeOf` merges two, with the fast paths that copy bytes
when fields agree and the options that survive only if all segments have them. `Visit` reads
through the pooled context and the reader of doc values, which keep what they loaded last.
`origin` and `mixed` are ghosts: the documents a segment stands for, and the options that some
merge found to differ.

**SnapshotPostings** has iterators as structs that searches and the pool point to (`objects`), and
the slices with the iterators of the segments apart (`arrays`), because `Advance` backwards copies
one struct over another: a struct recycled while in use is the same for two searches, and a copied
one shares its slices. `own` is what each search's iterator would be if nobody else had it,
`rewound` the structs that went backwards in the newest snapshot, or were copied from such.

**Searchers** is the tree of iterators of a boolean query as a record: a searcher is
asked for its next match, or the first at or behind a number, and gives the match and what
it has become (`Asked`, recursive). `Boolean`, `Conjunction` and `Disjunction` are the
constructors with their replacements by bitmaps (`index/optimize.go`).

**TopN** compares the collector, which looks at every match, with `raw_topn.go`, which
skips blocks whose impacts cannot reach the page.

**WriterFrontend** follows a call through admission, building, validation of vectors, the
text index, the vector index and back, with cancellation and Close anywhere.

**TextImport** cuts a text (its bytes reduced to what matters for cutting) into chunks and
replaces the old chunks in batches, each of which fails, or fails and was applied.

**VectorSidecar** has what memory and directory hold of each field and of the manifest.
`Apply` is the change in memory, `SaveField` one file, `WriteManifest` the last one.

**VectorReaders** follows searches through the lock of a reader, the view that the first of
them opens, and the gate of permits of a native handle, beside `Close`. Handles are addresses
that are given out again; `table` is the table of gates of the whole process. A `"bare"`
reader stands for callers of the native interface without a lock of their own.

**Collection** has for each space the directory as it is and as it was when last synced: a
power loss leaves something in between. `PublishIndex`, `PublishMetadata`,
`PublishCommit` and `PublishCatalog` are the writes of a publication; `Maintain`, `Retire`,
`RetireCommit`, `Sweep` and `EndMaintenance` the steps of maintenance; readers pin a
generation through a lease file. Any file operation may fail, with the rename done or not.

**DurableIndex** is the abstract specification: a sequence of contents, how much of it is
saved, how much is acknowledged; a crash goes back to what is saved.

`PROJECT.json` maps every definition to the lines it stands for.

## 3. What is checked

| run | instance | what it shows |
|---|---|---|
| `writer_merges` | 3 identifiers, 1 caller, 3 batches, 2 file merges, in-memory merges, callers that do not wait | the root holds exactly what the batches left and no empty segment, which merge.go:219 and introducer.go:287 rely on (`RootHoldsHistory`), no identifier is live twice (`OneLiveDocument`), the two kinds of merge never share a segment (`MergesAreDisjoint`) |
| `writer_crash` | 3 callers that wait, 3 batches, a file merge, a crash at any step and a reopen | every complete snapshot is loadable and right, and the root's files stay (`SnapshotsAreLoadable`), and the writer implements the abstract index (`ImplementsDurableIndex`) |
| `writer_faults` | 2 callers, 2 batches, 2 failing file operations that are retried, keep 2 snapshots | files that can be read never change (`FilesAreImmutable`), callbacks in order (`CallbacksInOrder`), callers return and every callback is called (`EveryBatchIsCalledBack`) |
| `files` | 1 reader, keep 1 snapshot, 3 segment ids, 4 epochs, 1 crash | no complete snapshot lacks a segment (`SnapshotsComplete`), the root's files are safe from the policy (`RootComplete`), a reader fails only when overtaken (`OnlyOvertakenReadersFail`), takes no segment for another (`NoSegmentIsMistaken`), and the newest snapshot stays (`NewestStays`) |
| `loops` | 2 callers, 2 batches, pausing from 1 file on, failures without bound | a clean `Close` leaves everything persisted and planned (`CleanCloseIsDurable`, `CleanCloseIsPlanned`) and `Close` returns unless the persister stays paused (`CloseReturns`) |
| `loops_recovery` | 1 caller, 2 batches, operations that succeed in the end | no caller and no batch is forgotten (`BatchReturns`, `EveryBatchIsSaved`) |
| `collection` | 1 space, 2 specifications, 2 documents, 2 revisions, 3 generations, 4 batches, 1 reader, 1 failing file operation, 1 crash or power loss | what a catalog names is complete (`CatalogIsComplete`) and never changes (`GenerationsAreImmutable`), pinned generations stay (`PinnedIsReadable`), what was reported done stays done (`AckedIsPublished`), no trace of an interruption looks like corruption (`NothingLooksCorrupt`), and maintenance that ends well leaves nothing behind (`MaintenanceReclaims`) |
| `parts` | fourteen small instances side by side | see the next table |
| `loops_prompt` | 1 caller, 1 batch | a violation: `Close` waits behind failing merges, see section 6 |
| `lock_exclusion` | 2 processes | a violation: `Lock` does not exclude everybody, see section 6 |
| `search_min` | 4 documents, up to 4 clauses | a violation: `SetMinShould` is not obeyed without scores, see section 6 |
| `postings_gap` | as `postings` below | a violation: some postings cannot be read, see section 6 |

The parts of `parts`:

| part | module and instance | what it shows |
|---|---|---|
| `lock` | DirectoryLock: 3 processes, 4 pid files | they exclude each other until an `Unlock` removes a file that another has opened (`ExclusiveUnlessUnlinked`) |
| `readers`, `failures` | SegmentHandles: 3 segment ids; a reader and no failures, or one failing operation and no reader | no segment is unmapped that somebody may read, as long as Close is not driven by a failing loop (`LiveIsOpenUnlessInterrupted`), and nothing stays mapped after Close on any path (`NothingLeaks`) |
| `front` | WriterFrontend: 2 calls, 1 document, 2 vector shapes, limits 0 to 2 | slots and statistics are given back on every path (`NothingIsHeld`); with one batch at a time the vectors follow the text (`VectorsFollowText`) |
| `offline` | OfflineWriter: 5 batches, merges of 2, 2 at once, 2 failures | a batch that was built is never lost and the result has all, once, in order (`NothingBuiltIsLost`) |
| `plan` | MergePlan: segments of up to 3 documents, 4 ids, tiers of 2 | tasks are disjoint, budgets are those of the staircase, and plans come to an end (`PlansConverge`) |
| `import` | TextImport: 5 letters of 1 or 4 bytes, valid or not, chunks of 4 or 6 bytes, overlaps of 0 or 3 | chunks cover the text (`ChunksCoverText`), and the result is true also after a failure (`ResultIsTrue`): together `ImportIsFaithful` |
| `search` | Searchers: 4 documents, up to 4 clauses, with and without scores, heap and slice | no match is skipped, repeated or invented by `Next` and `Advance` in any order (`FindsFirstMatch`), should clauses add to the score (`ShouldAddsToScore`): together `MatchesAreExact` |
| `top` | TopN: 4 documents in 1 or 2 segments, 2 terms, scores to 2, blocks of 2; pages of 1 and of none, with 0 or 1 before | both ways give the exact page (`PageIsExact`) |
| `postings` | TermPostings: two segments of 2 documents that are merged, or one of 5; chunks and blocks of 2 | `Next` and `Advance` find each document with its own details (`PostingsAreTheirOwn`), merges keep them and their bounds (`MergeIsExact`, a part of it) |
| `content` | SegmentContent: 3 of 4 batches of 1 or 2 documents, 6 fields, merges that drop 1 document, blocks and chunks of 2 | stored values, postings, doc values, statistics and vectors are those of the documents that are left, whatever was read before (`ContentIsKept`) |
| `iterators` | SnapshotPostings: 2 searches, 2 terms, 2 segments, 4 documents, 3 iterators | searches do not disturb each other, also after one went backwards (`SearchesDoNotMeet`) |
| `sidecar` | VectorSidecar: 2 ids, 2 fields, 3 operations in batches of up to 2, 1 failing call, stops anywhere | an id has the vectors its last batch gave it, and the sidecar can be opened again (`SidecarIsTrue`) |
| `vectors` | VectorReaders: 3 searchers; a plain reader and one of a collection, or one handle without a lock; 2 permits | no search uses what Close has given back, and no pool of contexts is exceeded (`NothingIsUsedAfterClose`); whoever waits, waits for somebody who can go on (`NobodyIsStuck`) |

Why the bounds are enough. Every bound is a constant declared as one (`Max...`) and only
stops new work from being started; what is under way always finishes. The interesting
cases need few objects: for a merge to lose a deletion it takes two segments, a merge of
them and a batch that deletes from one in between (two batches and a third, three
identifiers so that a segment keeps documents beside deleted ones); for the wrong caller to be
told, two callers whose batches fall on both sides of `PersisterTake`; for the policy to
remove too much, one snapshot to keep and a second one committed; for memory to be
rebuilt from files, one crash. A collection needs a generation that is pinned, a newer
one, and a third that is interrupted; spaces share nothing but the gate and the text, and
one batch fails at a time. An iterator needs two chunks, one of them with a skipped
posting before a wanted one, and a merge two segments. A vector goes to the wrong document
with two ids, a batch that fails and another one. A merge renumbers fields when the second segment
has one that the first has not, and a merge of a merge needs three segments. The chunk size 1024 and the block size 64
of the code are constants here, and what the code does at their boundaries it does at 2.
Each property has a mutant in `PROJECT.json`: a plausible bug in one
definition under which the run finds the property violated, so none of these cases is
missing. Writers are interchangeable and `MCIndexWriter` declares them symmetric in the
safety runs only; so are the documents, revisions and specifications of `MCCollection`,
whose two action properties speak of single steps.

Several properties state an exception, and each is needed: `LiveIsOpenUnlessInterrupted`,
`VectorsFollowText` with more than one batch at a time, `SearchesDoNotMeet` for the very iterators
that went backwards, `MergeIsExact` for the empty term, `PostingsAreTheirOwn` for a chunk
without locations, `SidecarIsTrue` for batches that failed, `ContentIsKept` for options that differ, `ShouldAddsToScore` for a should
clause that `Advance` moved although it was ahead. TLC finds a counterexample when the exception
is dropped; section 6 says what it is.

`CHECK_DEADLOCK FALSE` is given where the system may really stop: after `Close`, when
all processes have given up, when an iterator is at its end, and when the bounded supply of
batches is used up.

## 4. Fairness

`IndexWriter!Fairness`: each goroutine keeps running, and the introducer serves each kind
of message. The introducer's `select` (introducer.go:51) has a separate channel for each
kind and Go chooses among the ready ones at random, so a message that stays ready is not
passed over for ever. Faults are bounded there (`MaxFaults`); callers, the merger's
planning and crashes are not fair.

`WriterLoops!Fairness`: weak fairness of each of the three loops and of a started `Close`
*as a whole*, so that no particular branch is favoured, and strong fairness of the
control branches of the two `select` statements taken together (a drain request, a
subscription, `closeCh`), because these are only offered each time round the loop, and
a ready branch of a `select` that is executed again and again is chosen in the end. No
file operation is assumed to succeed. `RecoverySpec` adds `Recovery`, the situation that
README.md:241 speaks of ("allowing recovery after disk space is freed"): an operation that
is retried again and again succeeds in the end. It is a premise and no property of the
code, so it has a specification and a run of its own.

## 5. What is proved

TLAPS checks, for all values of the constants and without bounds on TLC's part:

| theorem | statement |
|---|---|
| `PromiseProofs!Promise` | `Spec => []NothingAckedIsLost`: what was acknowledged is saved and what is saved is in the history |
| `IndexFilesProofs!Typed` | `Spec => []TypeOK` |
| `IndexFilesProofs!NoSegmentIsLost` | `Spec => []SnapshotsComplete` |
| `IndexFilesProofs!RootIsSafe` | `Spec => []RootComplete` |
| `IndexFilesProofs!NewestIsKept` | `Spec => NewestStays`, an action property |
| `IndexFilesProofs!ReadersAreOvertaken` | `Spec => []OnlyOvertakenReadersFail` |
| `IndexFilesProofs!SegmentsAreNotMistaken` | `Spec => []NoSegmentIsMistaken` |
| `IndexWriterProofs!OneDocumentStaysLive` | `Spec => []OneLiveDocument` |
| `IndexWriterProofs!RootStaysTrue` | `Spec => []RootHoldsHistory` |
| `IndexWriterProofs!MergesStayDisjoint` | `Spec => []MergesAreDisjoint` |
| `DurabilityProofs!SnapshotsStayLoadable` | `Spec => []SnapshotsAreLoadable` |
| `DurabilityProofs!CallbacksStayInOrder` | `Spec => []CallbacksInOrder` |
| `DurabilityProofs!FilesStayAsWritten` | `Spec => FilesAreImmutable`, an action property |
| `DurabilityProofs!WriterIsDurable` | `Spec => ImplementsDurableIndex`, that is `Store!Spec`: the refinement |
| `DurabilityProofs!AcknowledgedIsSaved` | `Spec => []Store!NothingAckedIsLost` |
| `EntryProofs!Typed`, `Exclusive`, `Owner` | type correctness, `ExclusiveUnlessUnlinked`, `WriterOwnsTheName` for any number of processes |
| `WriterLoopsProofs!Typed` | `Spec => []TypeOK` |
| `WriterLoopsProofs!CloseIsDurable` | `Spec => []CleanCloseIsDurable` |
| `WriterLoopsProofs!CloseIsPlanned` | `Spec => []CleanCloseIsPlanned` |
| `EntryProofs!SlotsAreReturned` | `FrontSpec => []NothingIsHeld` for any number of calls and any limit |
| `EntryProofs!VectorsAreFollowed` | `FrontSpec => []VectorsFollowText` |
| `EntryProofs!VectorsAreTheirOwn` | `SidecarSpec => []SidecarIsTrue` for any ids, fields and batches |
| `EntryProofs!BuiltIsKept` | `OfflineSpec => []NothingBuiltIsLost` for any batches, sizes of merges and failures |
| `SegmentHandlesProofs!LiveSegmentsStayOpen` | `HandlesSpec => []LiveIsOpenUnlessInterrupted` for any readers, segments and failures |
| `SegmentHandlesProofs!NoSegmentLeaks` | `HandlesSpec => []NothingLeaks` |
| `PromiseProofs!ImportsAreFaithful` | `TextSpec => []ImportIsFaithful` for any texts, sizes of chunks, overlaps and batches |
| `PromiseProofs!SearchesStayApart` | `IteratorsSpec => []SearchesDoNotMeet` for any searches, segments, terms and iterators, and whatever goes backwards |
| `PromiseProofs!NothingIsUsedLater` | `ReadersSpec => []NothingIsUsedAfterClose` for any readers, goroutines and pools |
| `PromiseProofs!PagesAreExact` | `TopSpec => []PageIsExact` for any terms, scores, segments, sizes of blocks, missing impacts and pages |
| `CollectionProofs!CollectionIsSound` | `Spec => []IInv`, on which the following rest |
| `CollectionProofs!CatalogStaysComplete` | `Spec => []CatalogIsComplete` |
| `CollectionProofs!NothingSeemsCorrupt` | `Spec => []NothingLooksCorrupt` |
| `CollectionProofs!PinnedStaysReadable` | `Spec => []PinnedIsReadable` |
| `CollectionProofs!AckedStaysPublished` | `Spec => []AckedIsPublished` |
| `CollectionProofs!GenerationsStayAsWritten` | `Spec => GenerationsAreImmutable`, an action property |
| `CollectionProofs!MaintenanceLeavesNothing` | `Spec => MaintenanceReclaims`, an action property |

Assumptions on constants: `KeepAssumption` (at least one snapshot is kept, as
`NewKeepNLatestDeletionPolicy` is used), `IndexFilesAssumption`,
`IndexWriterAssumption` (what a batch updates is a finite set of keys), `DirectoryLockAssumption`,
`WriterLoopsAssumption`, `WriterFrontendAssumption`, `SegmentHandlesAssumption` (bounds and
limits are natural numbers), `CollectionAssumption` (the same; documents are finitely many, and
`None` is none of the values it stands beside), `SnapshotPostingsAssumption` (the documents of terms are
documents), `TextImportAssumption` (texts are sequences of bytes, and
a chunk has room for a letter), `TopNAssumption` (terms are finitely many, and the last document ends
a segment), `VectorSidecarAssumption` (ids are finitely many, and bounds are
natural numbers), `OfflineWriterAssumption` (a merge has two inputs or more, and
at least one runs at a time) and `VectorReadersAssumption` (a pool has a context, and there
are addresses for all readers). TLC evaluates each in the runs of its module. `TypeOK` of `IndexFiles`,
`WriterLoops` and `DirectoryLock` and `WriterOwnsTheName` are proved for all instances and are in no run.

*IndexFiles.* `SnapshotsComplete` is not inductive: whether a removal is safe is decided
from what the policy remembers and not from the files. The invariant `IInv` therefore
says how memory and disk are related: `Quiet` (nothing is in memory outside an open
writer but what has been loaded), `OnDisk` (what is referred to as a file is one),
`Apart` (a segment is in memory, a file, or a merge output, and the policy knows of
nothing but files that a commit named), `Fresh` (ids handed out are new), `Ordered`
(epochs identify snapshots and the last one is never retired), `Claimed` (the policy
claims every segment of every complete snapshot, and the last commit covers what the policy
knows of the root), and `Newer` (the last persisted epoch is the newest complete
snapshot). There is one lemma per action, each with one step per conjunct. The hardest are
`CommitSnapshot`, where `Claimed` moves from the old last snapshot to the new one, and
`CleanupSegments`, where `Claimed` and `Apart` together show that what is unneeded is
neither a segment of a complete snapshot nor a file of the root. The readers of other processes
need an invariant each, on top of `IInv`. `Awaited` says what a reader that is looking for a
snapshot knows: whatever it listed and is still complete, it has still to try, and a file that it
cannot open or read any more is not complete; its hard step is the segment file that is
missing, which by `SnapshotsComplete` shows that the snapshot has gone. `Gone` says that the id of a
file that went away before the reader opened it is at most the last id handed out, and is
neither on disk nor in memory: removed ids are what the policy knows, which `Apart` keeps away from
everything in memory.

*IndexWriter.* That no document is live twice says nothing of what a merge that is still being
written will bring. The proofs have two layers. The first is about the operators of `Segments`:
`MergeIs` (a merge copies every live document of what it merges, each once; the numbering of
`Merge` is a bijection), `MergeKeeps` (introducing it changes no content, provided that the
segments it copied, if they are still there, are the same with more deletions), `BatchIsSound`,
`PersistedKeeps`, and `EquivalentKeeps` for the equivalent snapshot of the persister. The second is the
invariant `IInv`, whose part `Identity` shows that the condition of `MergeKeeps` always holds:
an id stands for the same documents in the root, in snapshots, in plans, in merges and on disk
(`OneContent`); nobody knows the id of a segment that has not been introduced (`Fresh`); ids of
what is only in memory and ids of what has a file are never the same (`Apart`, from
which disjoint merges follow); and the root has every deletion that a snapshot or a plan has
(`Grown`). The other parts say that the root, the snapshot in hand and every snapshot file
hold a prefix of the history (`Contents`), that later snapshots hold more (`Order`), and that after a
crash the history ends with the newest of them (`Crashed`), which carries the proof over
`Crash` and `OpenWriter`. There is one lemma per action. TLC checked `IInv` on the
instances of `writer_merges`, `writer_faults` and `writer_crash` before it was proved.

*IndexWriter, on disk.* `IInv` says what a snapshot holds if it can be loaded, and nothing of whether
it can: files are removed by a deletion policy that has its own memory, by failed persists and by
merges that were skipped. `DurabilityProofs` adds `JInv`. `Stored` says that every segment that counts as
persisted, every merge and every segment of a complete snapshot has its file. It is kept because
what `CleanupSegments` and `OpenWriter` take is known to the policy and needed by no complete snapshot
(`Known`, `Retained`: what the policy knows of the root is part of the newest snapshot, which is
never deletable), because a failed persist breaks only files that it was writing itself and that
nothing else refers to (`Writing`), and because a skipped merge removes an id that nobody else
knows (`Fresh`). What the policy knows at open is a recursion over the epochs, oldest first;
`MaxRecursion` and `ToldAtOpen` show what it leaves. `Single` says that the only incomplete snapshot is
the one being written, and that epochs identify the complete ones, so that `OnDisk` changes in
`SnapshotWritten` only, and forwards (`OnDiskKept`, `OnDiskMoves`). On these rest the other parts:
`Told` (who waits for which snapshot, and that what was acknowledged is on disk) and `Callbacks` (the
callbacks called, carried over from failed attempts, of this attempt and of the root are one
increasing sequence). The refinement follows step by step: `IntroduceSegment` is `Apply`
(`BatchApplies`: the content after a batch is the content before it without what the batch updates or
deletes, and what it updates), `SnapshotWritten` is `Save`, `PersistSucceeds` is `Ack`, `Crash` is
`Crash`, and every other step leaves the history, the newest snapshot and the acknowledgements
alone. TLC checked `JInv` on the instances of the same runs before it was proved.

*SegmentHandles.* That what is in use is open is not inductive: a count may fall to 0 for one
user while another is still there. The invariant makes every count a census. `Counted`: a snapshot counts
the readers, the root and the loops that have it (`Users`), and gives up its segments with the
last of them. `Balanced`: a file counts the snapshots it is in, and the places outside snapshots
that have it (`Others`): a loop with a merge no root has, the map that persister and introducer
share, the root that the introducer builds. Both properties follow: whoever uses a snapshot is in
its census, and after Close the census is empty. For the census of a file to be a
number of snapshots and not of occurrences, no snapshot may have a file twice (`Distinct`),
and a merge under way must be nobody else's (`OwnMerges`). A Close that interrupts the persister
between sending and being answered breaks the balance downwards only, so that even then nothing leaks, and `Drains`
says why one that drained cannot: the root that was persisted has no segment in memory, so there
is no map any more for `closeCh` to take away. The lemmas on counting (`OneUserLess`, `OneUserMore` and
those beside them) say what a new or a departing user, a new snapshot or a new file does to the census, and the one for
each action cites them. TLC checked the invariant on 2.8 million states, with a reader, three ids and a
failing operation, before it was proved.

*DirectoryLock.* The invariant says that as long as `unlinked` is false every process that has
a file open has the one the name leads to, so two holders of a lock would hold the same one.

*DurableIndex.* `NothingAckedIsLost` with the types is inductive. Since `IndexWriter`
implements `DurableIndex` (`WriterIsDurable`; `writer_crash` checks it on its instance), what is proved of the latter is what
a caller of the former can rely on.

*WriterLoops.* How a Close ended says nothing about the disk. `Behind` gives the answer of
the persister its meaning: the last epoch it persisted is never ahead of the root, and if it
is the root's then everything is on disk and nothing is in memory; `Taken` says the same of
the snapshot it is working on. `Held` keeps batches out while Close drains, and with it
`Settled` says that what the first answer of the persister established stays true, although
merges go on making new roots. `Draining` says whom a merging merger works for, from which
`Complete` follows: after the second answer of the merger there are no in-memory segments to
introduce and no merge under way, so the root it has planned is the last. `Finite` is there
because the number of introduced segments is a cardinality. TLC checked the invariant on
the instance of `loops` before it was proved.

*WriterFrontend.* That nothing is held when nobody is inside is not inductive: it says nothing
of the states in between. `Accounted` does: the tokens of the admission channel are the calls
that have taken one, the statistics count the calls between the end of `acquireBatch` and the
beginning of `releaseBatch`, and bytes are only counted for those. `OneMoves` says that a call
that moves on enters or leaves these two sets alone, and each action is then a matter of adding an
element to a finite set or removing one. That the vectors follow the text needs the states between the
two writes: `Followed` says that with one batch at a time only the document of the batch that has
written its text and not yet its vectors may be without its vector, that its text is that batch's, and
that the batch still fits the field. The last is why a vector of another shape never leaves a text behind:
what `validateVectorChanges` found true stays true, because by `Accounted` no other call has a
slot meanwhile (`Alone`). TLC checked `Followed` on an instance with three calls and two documents.

*Collection.* After a power loss each name of a directory leads to what it did when it was last
synced or to what it did since, so an invariant of the directory as it is says nothing of the one
that comes back. `Settled` relates the two: every generation that either catalog names is whole in
the directory and has the same files in both, and without a catalog there is no commit
(`PowerLost` shows that any mixture of two such directories is again one). `Promised` says that either
catalog keeps what was acknowledged. `Memory` ties what the owner remembers to the disk while no
write has failed: it is why the re-read before a commit finds nothing changed, why an empty
catalog takes nothing away, and why `Collection.Reader` may pin a generation without
reading a catalog. `Publication` says that the number being published is above all that either
catalog names, so that files written for it are nobody's, and how far it has come, and that what it
carries on drops no acknowledged vector; `Maintenance` that what is doomed is named by neither
catalog and that a space that was swept has no garbage; `Pins` that what a reader has pinned is in
the catalog as it is, by its leases or by the gate before it has them. Most steps only change
files that no catalog names (`Aside`) or take generations out of a catalog that are neither the newest nor
pinned: `Gentle` says so, and `GentleStep` carries the parts of the invariant over such a step. `CreateVectorSpace`,
`PublishCatalog` and `PowerLoss` change catalogs in other ways and are proved by themselves. TLC checked the invariant on the instance of `collection` and on one with two spaces, two
faults and two crashes before it was proved.

*SnapshotPostings.* A search is undisturbed unless it holds an iterator that went backwards
(`rewound`), and that needs more than what it gets. Of the iterators that did not: nobody's is in
the pool, and none is there twice (`Pooled`), no two searches have the same one (`Apart`), and none has
its slices in common with any other that is in use or in the pool (`SlicesApart`); then it is at every
moment what one of its own would be (`OwnIterator`). `AllocatedIs` says that these hold for what is
taken from the pool, `FrontAndLast` what taking does to it. The hard step is `AskRewind`: the copied
iterator keeps its slices while its struct is forgotten, the old one is in the pool and in use at
once, and with it everything that is copied from it later leaves the promise, but nothing else. TLC
checked the invariant on 1 940 000 states, with 4 iterators, before it was proved.

*TextImport.* A chunk is cut where a letter may start, and what makes it so is not in the chunk: in a
valid text a byte that only continues a letter has its first byte before it, so `ValidFrom` says of
a part of a text that no letter in it is cut at either end, `ValidPart` that this is what `utf8.Valid`
finds, and `ValidCut` that a text cut behind `BreakAt` leaves two such parts. Each search in the code
for the least or greatest place of a kind (`PreferredTextBoundary`, `Longest`, the overlap) is a set of
numbers in the model; `LeastNumber` and `GreatestNumber` say that it has one. `CutIsGood` and
`OverlapIsGood` then say of the reader's two decisions that the chunk ends and the next one starts
as they must, and `GoesFurther` that it gets beyond the last one. `Tallied` ties the batch that is being
filled, the index and the result together over failures (`Flush`, `DeleteOld`). TLC checked `TextInv` on
300 000 states before it was proved.

*TopN.* A page is right at the end because what is kept is right all along: `AreBest` says of the kept
documents that they are among those passed (matches before `target`), no more than are wanted, and that a
passed one which is not kept is worse than each of them, of which there are then as many as wanted. A
document that is scored keeps this (`OneIsLeftOut`, `WithEachIs` for all of a range, one after
another), and so does one that the collector does not try, because `outside` was passed and is not kept. The
hard step leaves out a whole range. `BlockHas` says that a term's postings up to the first end of a
block are in the block that `AdvanceShallow` shows, `BoundIs` that none of them scores more than the
bound, and `ScoreIsBounded` that a document's score, the sum over all terms, is at most the sum
of the bounds over the terms that have blocks left; so with equal scores too the kept ones, which have
lower numbers, are better. The lemmas on sums over finite sets (`SumsAre`, `SumsCompare`) rest on `OneByOne`, induction over
numbers stated for a set instead of a predicate: the fold behind `Sum` is a recursive function, so it can be proved about. `BestAreFirst` then shows that the ranking
of what is kept is the beginning of the ranking of all matches, so cutting off the pages before gives the
same. Scores are natural numbers here; how floating-point sums are rounded is not modelled. The proof
found what the run had not: `raw_topn.go` returns at once when nothing is wanted, which the model had left
out and no page of the run had asked for; the run now has such a page. TLC checked `TopInv` on 700 000 states before it was
proved.

*VectorReaders.* The property speaks of native calls; whether one is safe depends on locks that were
taken long before. `Positions` says where a goroutine can be, by what it does and at which kind of
reader; `Locks` that a lock is had by exactly those that are where one has it, so that whoever closes a
collection is alone there; `Sees` what each finds at its reader, above all that the view is ready for
whoever is on its way to a native call, and not shut for a search of a collection; `Once` that a plain
reader is closed once, which is what keeps two calls of destroy apart. `Homes` says whose the
addresses are: a reader with a ready view owns its address, and the gate found there is its own, unless it
is `robbed`. `Census` makes the gate a count of the searches with a permit (`Permitted`) and of what the
one who wants them all has got (`Excluding`), from which it follows that with all permits one is
alone. The hard steps are `Destroy`, after which nobody else may be on the way to a call at that
reader, and `DeleteGate`, which finds at the address what another reader may have put there since:
that reader is then in `robbed`. There is one lemma per action; what a step leaves alone is in lemmas of
its own (`CensusKept`, `HomesKept` and those beside them). TLC checked `ReadersInv` on 310 000 states before it
was proved.

*VectorSidecar.* What an open sidecar finds follows from two comparisons of an invariant that holds also
when it is closed or in the middle of a batch. `Settled` is about the ids whose last batch is through: the
directory has what that batch gave them (`OnDisk`), and the process has it under the same key (`InMemory`).
`Alike` and `Unknown` are about memory and directory: by every key they have the same, except for a
stray, or where a batch that failed or is not through did something with the key; and what a file has without an
index, or an index without an id, is a stray. They are what makes the next batch sound, which may give out a key
or create a field that a file of an earlier, interrupted one has already. `JobOk` is about the batch that is being
applied: `Given` says of each id and field of it that the index has what it will be told, or will have once the
field is saved. `BatchSoFar` shows that a batch starts that way, along its operations (`OneMore` is one
of them): what it has gathered to remove and to add makes of the index what the operations, one after
another, mean. `KeysDiffer` keeps ids apart, also in the manifest of the directory; keys never exceed the
number of ids because each is given out once (`NextKeyDiffers`). `Faultless` adds that without failures
whatever the manifest lists has its file. TLC checked `SidecarInv` on 1 690 000 states with three ids, two
fields, five operations and a failing call before it was proved, and on smaller ones with batches of two.
It is what corrected the ghost `strays` (section 6, *A sidecar after a failure*).

*OfflineWriter.* Until Close has its segments every file is that of one batch (`Building`). In a round of merges
some files have been written and their inputs are still there, others are not begun, and any may fail, so the
invariant follows a place of the round (a segment it started with) to the file that has its documents now:
`Home` is the output of its task once that is written, and the input before. `Rounds` says how far each task
is, that the ids of the round are handed out from `Base` in the order of the tasks, and that the tasks have all
places but a last one that `LeftAlone` leaves out. `Whole` says that the files are the homes and the inputs
that are still to be removed, that the documents of a home rise and come before those of a later one,
and that the homes together have all accepted batches; the property follows. The lemmas beneath are about the
model's operators: `GroupIs` and `GroupHas` about which places a task has, `FlattenRises` about a merge of
sequences that rise from one to the next, `OrderedIs` about sorting the ids. Hard are `WriteMerge`, which moves a
whole group of places to one home, `RemoveInput`, which may not remove a home (ids are given out once),
and `RoundDone`, where the homes become the places of the next round. TLC checked `OfflineInv` on 400 000 states with
7 batches, merges of 3 and two failures.

Only model-checked: in `IndexWriter` that calls return and callbacks are called; in `WriterLoops` that callers and Close return and that
every batch is saved; in `VectorReaders` that nobody is stuck, which is stated with ENABLED; and all
properties of `MergePlan`, `Searchers`, `TermPostings` and `SegmentContent`. Out of the prover's reach and left to TLC:
liveness under fairness and ENABLED, induction over data, and what RECURSIVE operators compute.

## 6. Where the code and its documentation disagree

Four runs expect a violation.

**`Lock` does not exclude everybody** (`lock_exclusion`). `index/directory.go:69`: "Lock
ensures this process has exclusive access to write in this directory". `Unlock` closes
the pid file, which gives up the lock, and removes the name afterwards
(directory_fs.go:217-229). If a second process opens the file before it is closed and
locks it before the name is removed, it has locked an inode without a name, and the
next process to come creates a new pid file and locks that: two writers. `ExclusiveUnlessUnlinked`
states, and `Exclusive` proves, that this is the only way.

**`Close` does not return while merges fail** (`loops_prompt`). README.md:253:
"`Writer.Close()` returns an outstanding background error promptly instead of waiting
through backoff". With `PersisterNapUnderNumFiles` or more files on disk the persister
pauses (persister.go:228-246) until the merger subscribes again, which it does only after a
successful plan (merge.go:74-86, 98). If `Close` has drained the merger and waits in
`syncPersister` at that time, and merges begin to fail, the persister does not get to
its `select`, the request is not received, and `closeCh`, which would end the pause, is
closed only after the request is answered (writer.go:262-283). `CloseReturns` shows
that this pause is the only obstacle for callers that do not wait for the persister; with
callers that wait, these hold `mutationLock` behind the same pause. The default of
`PersisterNapUnderNumFiles` is large, so it takes an index of many files.

**`SetMinShould` is not obeyed without scores** (`search_min`). query.go:142: "SetMinShould
requires that at least minShould of the should Queries must be satisfied." With scores off,
a disjunction of terms of which one has to match is replaced by one iterator over the union
of their bitmaps (search_disjunction.go:52), whose `Min()` is 0 (search_term.go:159). The
boolean searcher above then takes its should clause for optional and finds documents that
satisfy none of it. `FindsFirstMatch` holds for all queries without that replacement.

**Some postings cannot be read** (`postings_gap`). intcoder.go:258 has "Lens -> 0 5 0 5" for
the chunks of a stream: a chunk may be empty. `chunkedIntDecoder.loadChunk` returns an error
for a chunk of length 0 (intDecoder.go:100-102), and an iterator with locations loads the
chunk of locations whether or not a posting in it has any. When the locations of a term are
not in every chunk in which it has postings, that iterator fails, and so does every merge of the
segment, because merges ask for locations.

What follows was met on the way and has no run of its own, as its property is
checked with the exception that it is.

- *A segment is closed that the new root holds.* persister.go:419 says that what the
  persister cleans up are "segments that were prepared but not swapped into the new root".
  If `closeCh` wins the second `select` (persister.go:437), the introducer may be between
  taking segments from the shared map and publishing its root (introducer.go:203-208).
  `LiveIsOpenUnlessInterrupted` excepts a Close that could not drain the loops before.
- *Advance loses score.* query.go:135: documents that also satisfy a should query "will score
  higher". `BooleanSearcher.advanceIfTrailing` advances the should clause although it is
  ahead, and the match it had read is gone: with must in {0, 1, 2} and a disjunction of
  should terms in {2, 3}, `Next` gives 0, and after `Advance(1)` document 2 scores like one
  without should. `ShouldAddsToScore` excepts it with the ghost `overrun`.
- *An iterator that goes backwards is shared.* `postingsIterator.Advance` closes itself
  (postings.go:91), which offers it to other searches of the newest snapshot, and goes on
  using it: the next search in that field gets the same struct, and both read on from where the
  other is. `SearchesDoNotMeet` excepts the iterators to which that happened, and those copied
  from them; all others are checked beside them.
- *A space may be registered twice.* collection.go:89: a specification "is immutable once
  registered". `CreateVectorSpace` that fails after its rename has registered the space on
  disk and not in memory, and a second call with another specification replaces it. What
  was reported done stays (`AckedIsPublished`).
- *A chunk may lie within the last one* in a text that is not valid UTF-8, where
  writer_text.go:268 requires "at least one new rune beyond the previous chunk's end". The
  next call finds the error. `ChunksCoverText` excepts it.
- *The impacts of the empty term.* `prevTerm == nil` (section_inverted_text_index.go:259)
  stays true behind an empty term, so the impact blocks of its first segment are lost when the
  second one starts. It takes 128 documents with an empty term. `MergeIsExact` excepts it.
- *Options that differ between segments.* A segment has the options of all its fields of a name
  (new.go:221), and a merge keeps those that every segment with the field has (merge.go:664). A
  document whose field is stored, indexed or has doc values keeps that until its segment is
  merged with one whose field of that name has not. `ContentIsKept` excepts it with the ghost
  `mixed`, and shows that nothing is kept in part: of a field a document has all values or none.
- *Vectors of different dimensions in one field* are accepted in different batches when they are
  embedded in segments, and every merge of two such segments fails
  (vector_usearch_embedded.go:153). `MergeSegments` is not enabled then.
- *Vectors and text with several batches at a time.* The two indexes share no lock: two
  batches may reach them in different orders, and of two batches that bring the first
  vectors of a field in different shapes the second is refused after its text was
  written. Close closes the vector index without waiting for calls between the two.
  `VectorsFollowText` is stated for one batch at a time and without failures.
- *A gate is removed that is another handle's.* vector_usearch_purego.go:54-60: "every handle
  gets a semaphore sized to its pool so excess callers wait instead of failing". `destroy` frees
  the address before it removes the gate (lines 385-387). A handle that is opened at this address in between has
  its gate removed; whoever has found that gate goes on using it, and the next call makes another, so that more calls come
  to the pool than it has contexts, and one that must be alone is not. `GatesHold` excepts such a reader with
  the ghost `robbed`.
- *A sidecar after a failure.* A call that failed halfway, or a crash between two files,
  leaves vectors under keys of which the manifest does not know; the next new id gets such a
  key and is found with a vector that it never had. A field may come back too: a batch that creates
  it stops between its file and the manifest, its id is then given other vectors without the
  field, a later batch creates the field in memory and fails, and the next one that succeeds lists
  the field in the manifest without having written its file: opened again, the sidecar has in it
  what the first batch left. (This takes three ids and five operations, more than `sidecar` has; the proof
  of `VectorsAreTheirOwn` met it.) A failed call that created a field
  leaves it in the manifest, after which the sidecar cannot be opened. And if replacing the
  manifest fails after the old one was removed, the sidecar opens empty, without an error.
  `SidecarIsTrue` excepts each with a ghost (`strays`, `broken`, `lost`).

## 7. What is left out

- *Documents with the same identifier inside a batch.* `Batch.Insert` may add an
  identifier that is already there; the models have `Update` and `Delete`, for which
  identifiers are unique.
- *Two writers on one directory* at once: `IndexWriter` and `IndexFiles` have one, and
  `DirectoryLock` says when that is so.
- *Power loss* in an index directory. A crash loses the memory and keeps the files; that
  `Directory.Sync` is not called by the writer (directory_fs.go:244) is listed as a hazard
  without a property. Nor are the sidecar's files synced. `Collection` does lose power, except for the
  name of a space's directory, which is never synced in its parent (collection.go:365).
- *Locking a snapshot* that a reader opens is one step with opening it; for segments they
  are two, since what matters there is a removal in between.
- *`NoSegmentIsMistaken`* is stated for one session of the writer. After a reopen ids
  start above the files that are left, so a reader that stalls between reading a snapshot
  and opening its segments is not protected by anything.
- *A skipped in-memory merge*, which only spends an epoch, in `WriterLoops`; and tasks of a single
  segment, which the planner gives out to rewrite a segment with many deletions: its bound
  `2 * tasks <= root.files` has none, since it counts no deletions. They make a new root like
  any task, so loops see no other message, and `MergePlan` has them, where `PlansConverge` says
  that they come to an end.
- *`directory_mem.go`*, whose operations are atomic and which no crash survives; the
  analysis queue; statistics and events.
- *The planner's choice*: `IndexWriter` allows any group, so its properties do not depend on
  what `mergeplan` computes. `MergePlan` counts documents where the code may be told to count bytes, has whole
  numbers for the growth of tiers, and computes plans only while no batch comes in.
- *Collection*: the manifest `collection.json`, the sweep of the root directory, filters of
  a search, and publication on Windows.
- *Two imports of one writer*, which a mutex keeps apart, and `bluge.OfflineWriter`, which
  wraps the one of `index` and only converts documents.
- *Searches*: phrases, ranges, multi-term and geo searchers, `SearchAfter`, other sort
  orders than the score, aggregations and highlighting. In `SnapshotPostings`, iterators
  over bitmaps, which are not recycled; that the lists and iterators of a segment are reused in
  place (zapxtext/dict.go:93-109, posting.go:160-240) is a full reset in `Prepared`. In `TopN`, the
  loop of `TermSearcher.RawTopN` for a single term (search_term.go:167-248), which skips blocks by
  the rule that the one for several terms has.
- *The segment format* besides what is in `TermPostings` and `SegmentContent`: dictionaries (a
  third-party FST), synonyms, nested documents, fields that an update changed, the layout of the file, files that are corrupt. What
  an analyzer makes of a text: words are given. `SegmentContent!Loaded` keeps one chunk for a
  visit where the code keeps one per field, and clones readers only of the fields of the first visit.
- *Vectors*: the kernels, the file of the flat index, filtered search. In `VectorReaders`, a
  collection has one space and a reader one native handle; that a plain reader gives its text
  back before its vectors (reader.go:209) leaves a search of it with hits that it cannot name, and
  nothing is said of that text once its `Close` has begun. In `VectorSidecar`, a batch of more than 4096 rows,
  whose parts `addBatch` flushes one by one: it fails as a whole.
- *Text analysis, numeric and geo encodings*: pure functions, most of them tables. They
  are a large part of the repository's lines (`analysis/` alone has more than the index),
  and a model of them would repeat them.

## 8. Plan

Done: the modules of section 2 and the proofs of section 5. To come, in this order:

1. `Searchers` with phrases, and with searchers that the snapshot's writer replaces.
   Its recursion is by RECURSIVE operators, so it stays with TLC.
2. The flat vector index and its file, filtered search.
