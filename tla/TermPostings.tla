---------------------------- MODULE TermPostings ----------------------------
(***************************************************************************)
(* The postings of one term in one field (internal/zapxtext): how a segment *)
(* stores them in chunks, how a merge of two segments rewrites them, and    *)
(* how an iterator finds its way through them, with a bitmap of document    *)
(* numbers and two streams of details that it has to keep in step.          *)
(*                                                                         *)
(* What is stored of a posting is an item: the kind of its details, and     *)
(* whose they are.  A stream is a sequence of items for each chunk.         *)
(***************************************************************************)
EXTENDS Integers, Sequences, FiniteSets, FiniteSetsExt, SequencesExt, Functions

CONSTANTS Absent,      \* of a document that does not have the term
          Kinds,       \* [freq, norm, locs]: details of a posting
          SegmentDocs, \* documents of the segments that are merged, a sequence
          FreshDocs,   \* documents of a segment that is only read
          ChunkTarget, \* postings of a chunk: 1024
          ImpactBlock, \* impactBlockSize: 64
          MinImpacts,  \* impactMinPostings: 128
          Deletions    \* sets of documents deleted when a segment is read

ASSUME TermPostingsAssumption ==
  /\ Kinds \subseteq [freq : Nat \ {0}, norm : Nat, locs : BOOLEAN]
  /\ SegmentDocs \in Seq(Nat \ {0}) /\ FreshDocs \in Nat \ {0}
  /\ ChunkTarget \in Nat \ {0} /\ ImpactBlock \in Nat \ {0} /\ MinImpacts \in Nat

VARIABLES
  step,     \* "new", "merge", "written", "read", or "broken": a merge that failed
  parts,    \* the segments that are merged: [kinds, drops]
  empty,    \* whether the term is the empty one
  current,  \* which of them is being read; 0 before the first
  output,   \* what the encoders have: [items, locs, impacts, last]
  list,     \* the list that has been written
  iterator,
  sought,   \* Advance's argument, 0 for Next
  upcoming, \* ghost: the documents the iterator still had before the last call
  posting   \* what it returned

postingsVars ==
  <<step, parts, empty, current, output, list, iterator, sought, upcoming, posting>>

Nothing == [doc |-> -1]

-----------------------------------------------------------------------------
(* How a list is stored *)

\* getChunkSize, chunk mode 1026.
ChunkSize(cardinality, n) == n \div (cardinality \div ChunkTarget + 1)

SizeOf(l) == ChunkSize(Cardinality(l.docs), l.n)

Chunks(items, size, n) ==
  [c \in 0 .. (n - 1) \div size |-> SelectSeq(items, LAMBDA x : x.doc \div size = c)]

Located(items) == SelectSeq(items, LAMBDA x : x.kind.locs)

\* addToFrontier: what no other has at least the frequency and at most the norm of.
Covers(k, other) == k.freq >= other.freq /\ k.norm <= other.norm
Frontier(kinds)  == {k \in kinds : \A other \in kinds \ {k} : ~Covers(other, k)}

\* impactCoder: a block for every ImpactBlock postings, and one for the rest.
Blocks(items) ==
  LET Full(b) == Min({b * ImpactBlock, Len(items)})
  IN  [b \in 1 .. (Len(items) + ImpactBlock - 1) \div ImpactBlock |->
         [end      |-> items[Full(b)].doc,
          frontier |-> Frontier({items[k].kind : k \in (b - 1) * ImpactBlock + 1 .. Full(b)})]]

\* writePostings: the bitmap, the streams, and the impacts of a term that is not rare.
\* Nothing is written of a stream without items.
Written(items, locs, impacts, cardinality, n, hit) ==
  LET size == ChunkSize(cardinality, n)
  IN  [n      |-> n, docs |-> {items[k].doc : k \in DOMAIN items}, hit |-> hit,
       freqs  |-> Chunks(items, size, n),
       locs   |-> IF locs = <<>> THEN <<>> ELSE Chunks(locs, size, n),
       blocks |-> IF cardinality >= MinImpacts THEN Blocks(impacts) ELSE <<>>]

\* The list of a segment: a new one has no 1-hit encoding (writeDicts), that of a merge may.
StoredList(items, n, hit) == Written(items, Located(items), items, Len(items), n, hit)

NoList == [n |-> 0, docs |-> {}, hit |-> FALSE, freqs |-> <<>>, locs |-> <<>>, blocks |-> <<>>]

-----------------------------------------------------------------------------
(* The iterator *)

NoIterator ==
  [list |-> NoList, live |-> {}, all |-> {}, clean |-> TRUE, details |-> "none",
   chunk |-> 0, loaded |-> FALSE, freqs |-> <<>>, locs |-> <<>>, failed |-> FALSE]

\* What PostingsList.iterator leaves of an iterator that is used again.
Cleared(old) == NoIterator

OpenIterator(l, except, details, old) ==
  [Cleared(old) EXCEPT !.list = l, !.live = l.docs \ except, !.all = l.docs,
                       !.clean = (except = {}), !.details = details]

Failed(it) == [it EXCEPT !.failed = TRUE]

\* loadChunk, of the iterator and of its decoders: a chunk without bytes is an error.
LoadChunk(it, c) ==
  LET l       == it.list
      located == it.details = "locs" /\ l.locs # <<>>
  IN  IF c \notin DOMAIN l.freqs \/ l.freqs[c] = <<>> \/ (located /\ l.locs[c] = <<>>)
        THEN Failed(it)
        ELSE [it EXCEPT !.chunk = c, !.loaded = TRUE, !.freqs = l.freqs[c],
                        !.locs = IF located THEN l.locs[c] ELSE <<>>]

InChunk(it, c) == IF it.loaded /\ it.chunk = c THEN it ELSE LoadChunk(it, c)

After(items, k) == SubSeq(items, k + 1, Len(items))

\* Mutant: the locations are left where they are.
SkipFreqs(it, k) ==
  IF it.failed \/ Len(it.freqs) < k THEN Failed(it) ELSE [it EXCEPT !.freqs = After(@, k)]

\* currChunkNext, k times: the locations of what is skipped are skipped too.
Skip(it, k) ==
  IF it.failed \/ Len(it.freqs) < k THEN Failed(it)
  ELSE [it EXCEPT !.freqs = After(@, k),
                  !.locs  = IF it.details = "locs"
                              THEN After(@, Len(Located(SubSeq(it.freqs, 1, k)))) ELSE @]

SkipIn(it, c, k) == IF k = 0 THEN it ELSE Skip(InChunk(it, c), k)

\* nextDocNumAtOrAfter: the streams come to stand in front of the details of document n in
\* chunk c.  There are four ways to get there.
Sparse(l) == Cardinality(l.docs) * 2 < l.n

InFront(it, from, n, c) ==
  LET Past(docs) == Cardinality({d \in docs : d >= c * SizeOf(it.list) /\ d < n})
  IN  IF it.list.hit \/ it.details = "none" THEN it
      ELSE IF ~it.clean THEN InChunk(SkipIn(it, c, Past(it.all)), c)
      ELSE IF from = 0 THEN InChunk(it, c)
      ELSE IF Sparse(it.list) THEN InChunk(SkipIn(it, c, Past(it.live)), c)
      ELSE SkipIn(LoadChunk(it, c), c, Past(it.list.docs))

Passed(it, n) == [it EXCEPT !.live = {d \in @ : d > n}, !.all = {d \in @ : d > n}]

Sought(it, from, n) == Passed(InFront(it, from, n, n \div SizeOf(it.list)), n)

\* nextBytes: the details of document n are read, which moves the streams on.
Decoded(it, n) ==
  LET item  == Head(it.freqs)
      whole == it.details = "locs" /\ item.kind.locs
      Got(x, y) == [doc |-> n, freq |-> x, locs |-> y]
  IN  IF it.details = "none" THEN [it |-> it, posting |-> Got({}, {})]
      ELSE IF it.list.hit
        THEN [it |-> it, posting |-> Got({Head(it.list.freqs[0])}, {})]
      ELSE IF it.failed \/ it.freqs = <<>> \/ (whole /\ it.locs = <<>>)
        THEN [it |-> Failed(it), posting |-> Nothing]
      ELSE [it |-> [it EXCEPT !.freqs = Tail(@), !.locs = IF whole THEN Tail(@) ELSE @],
            posting |-> Got({item}, IF whole THEN {Head(it.locs)} ELSE {})]

\* nextAtOrAfter: the first document that is not deleted, at `from` or later.
Read(it, from) ==
  LET rest == {d \in it.live : d >= from}
  IN  IF rest = {} THEN [it |-> [it EXCEPT !.live = {}], posting |-> Nothing]
      ELSE Decoded(Sought(it, from, Min(rest)), Min(rest))

-----------------------------------------------------------------------------
(* Merging *)

Kept(segment) == DOMAIN segment.kinds \ segment.drops

\* mergeStoredAndRemap: the new number of document d of segment k; -1: docDropped.
NewDocNum(k, d) ==
  IF d \in parts[k].drops THEN -1
  ELSE MapThenSumSet(LAMBDA j : Cardinality(Kept(parts[j])), 1 .. k - 1)
       + Cardinality({e \in Kept(parts[k]) : e < d})

NewDocCount == MapThenSumSet(LAMBDA j : Cardinality(Kept(parts[j])), DOMAIN parts)

WithTerm(segment) == {d \in DOMAIN segment.kinds : segment.kinds[d] # Absent}

\* The postings of segment k; `of` is what only the properties know: whose they are.
Items(k) ==
  LET docs == SetToSortSeq(WithTerm(parts[k]), <)
  IN  [j \in DOMAIN docs |->
         [doc |-> docs[j], kind |-> parts[k].kinds[docs[j]], of |-> NewDocNum(k, docs[j])]]

NewCard == MapThenSumSet(LAMBDA j : Cardinality(WithTerm(parts[j]) \ parts[j].drops), DOMAIN parts)

NoOutput == [items |-> <<>>, locs |-> <<>>, impacts |-> <<>>, last |-> [doc |-> 0, freq |-> 0]]

Stored(n, drops) == [kinds : [0 .. n - 1 -> Kinds \cup {Absent}], drops : drops]
ToMerge(n) == Stored(n, SUBSET (0 .. n - 1))

PostingsInit ==
  /\ \/ step = "merge" /\ empty \in BOOLEAN
        /\ \E a \in ToMerge(SegmentDocs[1]), b \in ToMerge(SegmentDocs[2]) : parts = <<a, b>>
     \/ step = "new" /\ empty = FALSE
        /\ \E a \in Stored(FreshDocs, {{}}) : parts = <<a>>
  /\ NewDocCount > 0
  /\ list = NoList /\ current = 0 /\ output = NoOutput /\ iterator = NoIterator
  /\ sought = 0 /\ upcoming = {} /\ posting = Nothing

\* writeDicts: the list of a segment that is not merged.
WriteList ==
  LET items == Items(1)
  IN  /\ step = "new" /\ items # <<>>
      /\ step' = "written" /\ list' = StoredList(items, FreshDocs, FALSE)
      /\ UNCHANGED <<parts, empty, current, output, iterator, sought, upcoming, posting>>

\* Mutant: they start again with each segment.
NoImpactsYet == <<>>

\* The impacts start again with a new term, which is one that differs from prevTerm; and
\* prevTerm stays nil behind an empty one.
ImpactsSoFar == IF empty THEN <<>> ELSE output.impacts

\* mergeAndPersistInvertedSection: the next segment that has the term.
NextSegment ==
  LET k     == current + 1
      items == Items(k)
      Hits  == IF Len(items) = 1 /\ items[1].kind.freq = 1 /\ ~items[1].kind.locs
                 THEN BOOLEAN ELSE {FALSE}
  IN  /\ step = "merge" /\ k <= Len(parts) /\ iterator.live = {}
      /\ current' = k
      /\ \/ items = <<>> /\ UNCHANGED <<output, iterator>>
         \/ /\ items # <<>>
            /\ \E hit \in Hits :
                 iterator' = OpenIterator(StoredList(items, Cardinality(DOMAIN parts[k].kinds), hit),
                                          parts[k].drops, "locs", iterator)
            /\ output' = [output EXCEPT !.impacts = ImpactsSoFar, !.last = NoOutput.last]
      /\ UNCHANGED <<step, parts, empty, list, sought, upcoming, posting>>

\* One posting is written again, under a new number.
Rewritten(got, new) ==
  LET item == CHOOSE x \in got.posting.freq : TRUE
  IN  /\ iterator' = got.it
      /\ IF got.it.failed \/ new = -1 THEN step' = "broken" /\ UNCHANGED output
         ELSE /\ output' = [items   |-> Append(output.items, [item EXCEPT !.doc = new]),
                            locs    |-> output.locs \o SetToSeq({[x EXCEPT !.doc = new] : x \in got.posting.locs}),
                            impacts |-> Append(output.impacts, [item EXCEPT !.doc = new]),
                            last    |-> [doc |-> new, freq |-> item.kind.freq]]
              /\ UNCHANGED step

\* mergeTermFreqNormLocs, mergeTermFreqNormLocsByCopying: the next posting.
RewriteNext(got) == Rewritten(got, NewDocNum(current, got.posting.doc))
MergePosting ==
  /\ step = "merge" /\ iterator.live # {}
  /\ RewriteNext(Read(iterator, 0))
  /\ UNCHANGED <<parts, empty, current, list, sought, upcoming, posting>>

\* use1HitEncoding: the norm is never 0 where the frequency is not.
OneHit ==
  /\ Len(output.items) = 1 /\ output.locs = <<>>
  /\ output.last = [doc |-> output.items[1].doc, freq |-> 1]

\* finishTerm.
FinishTerm ==
  /\ step = "merge" /\ current = Len(parts) /\ iterator.live = {}
  /\ step' = "written"
  /\ list' = IF output.items = <<>> THEN NoList
             ELSE Written(output.items, output.locs, output.impacts, NewCard, NewDocCount, OneHit)
  /\ output' = NoOutput /\ current' = 0 /\ iterator' = NoIterator
  /\ UNCHANGED <<parts, empty, sought, upcoming, posting>>

-----------------------------------------------------------------------------
(* Reading *)

\* PostingsList.Iterator: the segment may have deletions meanwhile.
OpenList(except, details) ==
  /\ step = "written" /\ list # NoList
  /\ step' = "read"
  /\ iterator' = OpenIterator(list, except, details, iterator)
  /\ upcoming' = list.docs \ except
  /\ parts' = <<>> /\ empty' = FALSE /\ list' = NoList
  /\ UNCHANGED <<current, output, sought, posting>>

\* Next, Advance: the latter only forwards, see postingsIterator.Advance.
Answer(got) == iterator' = got.it /\ posting' = got.posting
Seek(from) ==
  /\ step = "read" /\ ~iterator.failed /\ iterator.live # {}
  /\ from = 0 \/ from > posting.doc
  /\ sought' = from /\ upcoming' = iterator.live
  /\ Answer(Read(iterator, from))
  /\ UNCHANGED <<step, parts, empty, current, output, list>>

PostingsNext ==
  \/ WriteList \/ NextSegment \/ MergePosting \/ FinishTerm
  \/ \E except \in Deletions, details \in {"none", "freqs", "locs"} : OpenList(except, details)
  \/ \E from \in 0 .. iterator.list.n : Seek(from)

PostingsSpec == PostingsInit /\ [][PostingsNext]_postingsVars

-----------------------------------------------------------------------------
(* Properties *)

\* A chunk has postings but no locations, while others have some.
Gap(l) == l.locs # <<>> /\ \E c \in DOMAIN l.freqs : l.freqs[c] # <<>> /\ l.locs[c] = <<>>

\* Next and Advance find the next document of the list that is not deleted, with the
\* details it was indexed with; they fail for nothing but a chunk without locations.
ReadsAreExact ==
  LET wanted == {d \in upcoming : d >= sought}
  IN  IF iterator.failed THEN iterator.details = "locs" /\ Gap(iterator.list)
      ELSE step = "read" /\ upcoming # iterator.live =>
        /\ posting.doc = (IF wanted = {} THEN -1 ELSE Min(wanted))
        /\ posting.doc # -1 /\ iterator.details # "none" =>
             \E item \in posting.freq :
               /\ item.of = posting.doc
               /\ {x.of : x \in posting.locs}
                    = IF iterator.details = "locs" /\ item.kind.locs THEN {item.of} ELSE {}

\* A merge keeps the postings of the documents that it keeps, under their new numbers, and
\* its blocks bound the details of all of them; save for the empty term, whose first
\* segment's blocks are lost.
MergeIsExact ==
  step = "written" =>
    LET kept == UNION {{<<k, d>> : d \in WithTerm(parts[k]) \ parts[k].drops} : k \in DOMAIN parts}
        New(p) == NewDocNum(p[1], p[2])
    IN  /\ list.docs = {New(p) : p \in kept} /\ Cardinality(list.docs) = Cardinality(kept)
        /\ ~empty /\ Cardinality(kept) >= MinImpacts =>
             \A p \in kept : \E b \in DOMAIN list.blocks :
               /\ New(p) <= list.blocks[b].end
               /\ b = 1 \/ list.blocks[b - 1].end < New(p)
               /\ \E k \in list.blocks[b].frontier : Covers(k, parts[p[1]].kinds[p[2]])

\* A posting stays that of its document through any merge and any way through the chunks.
PostingsAreTheirOwn == MergeIsExact /\ ReadsAreExact

\* Whatever was stored can be read: "Lens -> 0 5 0 5" (intcoder.go:258) are the lengths of
\* chunks that may well be empty, and posting.go:616 has fields where only some documents
\* have locations.
EveryPostingIsRead == ~iterator.failed
=============================================================================
