--------------------------- MODULE SegmentContent ---------------------------
(* What a segment holds of its documents: how documents are analyzed and built into a      *)
(* segment (internal/blugeidx, internal/zapxtext/new.go), how segments are merged without  *)
(* their deleted documents (merge.go, section_inverted_text_index.go, vector_section.go),  *)
(* and how stored fields and doc values are read back (stored_blocks.go, docvalues.go).    *)
(* A field has one list of options in a segment. Building joins the options of all fields  *)
(* of a name; merging keeps those that every segment with the name has. How the postings   *)
(* of one term are laid out is in TermPostings.                                            *)
EXTENDS Integers, SequencesExt

CONSTANTS
  Sources,      \* what segments are built of: sequences of documents
  StoredBlock,  \* records in a block of stored fields (storedBlockSize)
  ValueChunk,   \* documents in a chunk of doc values
  MaxBuilt,     \* bound: segments built
  MaxDropped    \* bound: documents dropped by one merge

ASSUME SegmentContentAssumption == {StoredBlock, ValueChunk} \subseteq Nat \ {0}

VARIABLES
  held,        \* the segments
  made,        \* how many segments were built or merged: the number of the last
  built,       \* how many were built
  context,     \* the pooled visitDocumentCtx: the decoded block of stored records
  valueReader  \* the docVisitState: the loaded chunk of doc values

contentVars == <<held, made, built, context, valueReader>>

-----------------------------------------------------------------------------
(* Documents. A document is a sequence of fields [name, kind, value, opts], of which the  *)
(* one named 0 is _id. A term is a number: below 20 the full precision of a number, from  *)
(* 20 its coarser prefixes, from 40 words.                                                *)

IdName      == 0
PositionGap == 100

IsNumber(f) == f.kind = "number"
IsFull(t)   == t < 20
Coarse(n)   == 20 + n \div 4

\* Analyze and TokenFrequency: the tokens of the fields that are indexed. A field continues
\* behind the one of its name before it, if that one counted its positions.
Spelled(f) == IF IsNumber(f) THEN 1 ELSE Len(f.value)
Starts(doc) ==
  LET Before(i) == {j \in 1..i-1 : doc[j].name = doc[i].name /\ "index" \in doc[j].opts}
      start[i \in DOMAIN doc] ==
        LET j == Max(Before(i))
        IN IF Before(i) = {} \/ "locations" \notin doc[j].opts THEN 0
           ELSE start[j] + Spelled(doc[j]) + PositionGap
  IN start

OwnTokens(doc, i) ==
  LET f == doc[i]
      Token(t, k) == [term |-> t, field |-> f.name, pos |-> Starts(doc)[i] + k,
                      located |-> "locations" \in f.opts]
  IN CASE "index" \notin f.opts \/ f.kind \in {"all", "vector"} -> <<>>
       [] IsNumber(f) -> <<Token(f.value[1], 1), Token(Coarse(f.value[1]), 1)>>
       [] OTHER -> [k \in DOMAIN f.value |-> Token(f.value[k], k)]

\* A composite field consumes what the others have.
Tokens(doc, i) ==
  IF doc[i].kind = "all"
    THEN FlattenSeq([j \in DOMAIN doc |-> OwnTokens(doc, j)])
    ELSE OwnTokens(doc, i)

\* All tokens of the fields of one name, in the order of the fields.
TokensOf(doc, name) ==
  FlattenSeq([i \in DOMAIN doc |-> IF doc[i].name = name THEN Tokens(doc, i) ELSE <<>>])

TermsIn(doc, name) == {t.term : t \in ToSet(TokensOf(doc, name))}

StoredIn(doc, name) ==
  LET fields == SelectSeq(doc, LAMBDA f : f.name = name /\ "store" \in f.opts)
  IN [i \in DOMAIN fields |-> fields[i].value]

VectorsIn(doc, name) == SelectSeq(doc, LAMBDA f : f.name = name /\ f.kind = "vector")

\* The terms a document must have as doc values: of a number that asks for them its full
\* precision, of any other field all terms.
ValuesAskedIn(doc, name) ==
  UNION {{t.term : t \in {u \in ToSet(Tokens(doc, i)) : IsNumber(doc[i]) => IsFull(u.term)}} :
         i \in {j \in DOMAIN doc : doc[j].name = name /\ "values" \in doc[j].opts}}

-----------------------------------------------------------------------------
(* Segments. Fields are numbered, _id first and the others by name; dictionaries, doc      *)
(* values, statistics and vectors are kept by number, and numbers are what stored records *)
(* and locations refer to.                                                                *)

Upwards(set)  == SelectSeq([n \in 1 .. Max(set \cup {0}) + 1 |-> n - 1], LAMBDA n : n \in set)
Sorted(names) == <<IdName>> \o Upwards(names \ {IdName})
Number(fields, name) == CHOOSE i \in DOMAIN fields : fields[i] = name

NoValues == <<"no values">>
NoVector == [shape |-> "none", docs |-> <<>>, data |-> <<>>]

\* storedBlockWriter and chunkedContentCoder.
InBlocks(records) ==
  [b \in 1..((Len(records) + StoredBlock - 1) \div StoredBlock) |->
     SubSeq(records, (b - 1) * StoredBlock + 1, Min({b * StoredBlock, Len(records)}))]
InChunks(entries, docs) ==
  [k \in 1..((docs - 1) \div ValueChunk + 1) |->
     SelectSeq(entries, LAMBDA e : e.doc \div ValueChunk = k - 1)]

\* What the statistics of a field must be: documents with a term, and all occurrences.
Totals(dict) ==
  [docs  |-> Cardinality(UNION {{p.doc : p \in ToSet(dict[t])} : t \in DOMAIN dict}),
   freqs |-> MapThenSumSet(LAMBDA t : FoldLeft(LAMBDA sum, p : sum + p.freq, 0, dict[t]),
                           DOMAIN dict)]

\* A field has the options of all fields of its name.
OptionsOf(docs, name) ==
  UNION {UNION {doc[i].opts : i \in {j \in DOMAIN doc : doc[j].name = name}} : doc \in ToSet(docs)}
    \cup (IF name = IdName THEN {"index", "store"} ELSE {})

RecordOf(doc, fields) ==
  FlattenSeq([i \in DOMAIN fields |->
                LET stored == StoredIn(doc, fields[i])
                IN [k \in DOMAIN stored |-> <<i, stored[k]>>]])

PostingOf(doc, d, fields, name, t) ==
  LET tokens == TokensOf(doc, name)
      here   == SelectSeq(tokens, LAMBDA u : u.term = t)
      places == SelectSeq(here, LAMBDA u : u.located)
  IN [doc |-> d, freq |-> Len(here), norm |-> Len(tokens),
      locs |-> [k \in DOMAIN places |-> <<Number(fields, places[k].field), places[k].pos>>]]

DictOf(docs, fields, name) ==
  [t \in UNION {TermsIn(doc, name) : doc \in ToSet(docs)} |->
     LET with == Upwards({d \in DOMAIN docs : t \in TermsIn(docs[d], name)})
     IN [k \in DOMAIN with |-> PostingOf(docs[with[k]], with[k] - 1, fields, name, t)]]

\* Doc values hold the terms of the dictionary, without the prefixes of numbers unless
\* a field of the name that is no number has doc values too (DocValueModes).
ValuesOf(docs, dict, name) ==
  LET asking == UNION {{f \in ToSet(doc) : f.name = name /\ "values" \in f.opts} :
                       doc \in ToSet(docs)}
      all    == \E f \in asking : ~IsNumber(f)
      In(d)  == Upwards({t \in DOMAIN dict : (all \/ IsFull(t))
                                             /\ \E p \in ToSet(dict[t]) : p.doc = d})
      entries == SelectSeq([d \in DOMAIN docs |-> [doc |-> d - 1, terms |-> In(d - 1)]],
                           LAMBDA e : e.terms # <<>>)
  IN IF asking = {} THEN NoValues ELSE InChunks(entries, Len(docs))

\* The vectors of a field in a segment, by key: their documents and values. All must
\* have one shape.
VectorsHeld(docs, name) ==
  LET of(d)   == VectorsIn(docs[d], name)
      records == FlattenSeq([d \in DOMAIN docs |->
                   [k \in DOMAIN of(d) |-> <<d - 1, of(d)[k].value>>]])
  IN IF records = <<>> THEN NoVector
     ELSE [shape |-> records[1][2][1],
           docs  |-> [k \in DOMAIN records |-> records[k][1]],
           data  |-> [k \in DOMAIN records |-> records[k][2][2]]]

VectorsFit(docs) ==
  LET vectors == {f \in UNION {ToSet(doc) : doc \in ToSet(docs)} : f.kind = "vector"}
  IN \A f \in vectors : {g.value[1] : g \in {h \in vectors : h.name = f.name}} = {f.value[1]}

SegmentOf(docs, number) ==
  LET fields == Sorted(UNION {{f.name : f \in ToSet(doc)} : doc \in ToSet(docs)})
      dicts  == [i \in DOMAIN fields |-> DictOf(docs, fields, fields[i])]
  IN [number  |-> number,
      size    |-> Len(docs),
      fields  |-> fields,
      options |-> [i \in DOMAIN fields |-> OptionsOf(docs, fields[i])],
      blocks  |-> InBlocks([d \in DOMAIN docs |-> RecordOf(docs[d], fields)]),
      dicts   |-> dicts,
      values  |-> [i \in DOMAIN fields |-> ValuesOf(docs, dicts[i], fields[i])],
      stats   |-> [i \in DOMAIN fields |-> Totals(dicts[i])],
      vectors |-> [i \in DOMAIN fields |-> VectorsHeld(docs, fields[i])],
      origin  |-> docs,   \* ghost: the documents it stands for
      mixed   |-> {}]     \* ghost: the options merges have found to differ, by field

-----------------------------------------------------------------------------
(* Merging *)

HasField(seg, name) == name \in ToSet(seg.fields)
OptionsIn(seg, name) == seg.options[Number(seg.fields, name)]
DictIn(seg, name) == IF HasField(seg, name) THEN seg.dicts[Number(seg.fields, name)] ELSE <<>>
RecordIn(seg, d) == seg.blocks[d \div StoredBlock + 1][(d % StoredBlock) + 1]

\* Every segment numbers the fields as the first one does, and has its options at least.
FieldsSame(inputs) ==
  \A s \in DOMAIN inputs :
    /\ inputs[s].fields = inputs[1].fields
    /\ \A i \in DOMAIN inputs[1].fields : inputs[1].options[i] \subseteq inputs[s].options[i]

\* mergeFields: an option survives if all segments with the field have it.
MergedOptions(inputs, name) ==
  LET with == {seg \in ToSet(inputs) : HasField(seg, name)}
  IN {o \in UNION {OptionsIn(seg, name) : seg \in with} :
        \A seg \in with : o \in OptionsIn(seg, name)}

Differing(inputs) ==
  {<<name, o>> \in UNION {{<<seg.fields[i], o>> : i \in DOMAIN seg.fields,
                           o \in {"index", "store", "values", "locations"}} :
                          seg \in ToSet(inputs)} :
     \E seg, other \in ToSet(inputs) :
       /\ HasField(seg, name) /\ HasField(other, name)
       /\ o \in OptionsIn(seg, name) \ OptionsIn(other, name)}

\* The documents that are left, by segment and number; their order is their new number.
KeptDocs(inputs, drops) ==
  FlattenSeq([s \in DOMAIN inputs |->
    LET left == Upwards((0..inputs[s].size - 1) \ drops[s])
    IN [k \in DOMAIN left |-> <<s, left[k]>>]])
NewNumber(kept, s, d) == (CHOOSE n \in DOMAIN kept : kept[n] = <<s, d>>) - 1
IsKept(kept, s, d) == <<s, d>> \in ToSet(kept)

\* A stored record, copied as it is or taken apart and written with the new numbers.
MergedRecord(inputs, drops, fields, options, s, d) ==
  LET record == RecordIn(inputs[s], d)
      Of(name) == SelectSeq(record, LAMBDA v : inputs[s].fields[v[1]] = name)
  IN IF FieldsSame(inputs) /\ drops[s] = {} THEN record
     ELSE FlattenSeq([i \in DOMAIN fields |->
            IF "store" \notin options[i] THEN <<>>
            ELSE [k \in DOMAIN Of(fields[i]) |-> <<i, Of(fields[i])[k][2]>>]])

\* Postings with new document numbers; locations are copied as bytes when numbers of
\* fields agree, and written anew otherwise.
MergedPostings(inputs, kept, fields, name, t) ==
  FlattenSeq([s \in DOMAIN inputs |->
    LET seg  == inputs[s]
        old  == IF t \in DOMAIN DictIn(seg, name) THEN DictIn(seg, name)[t] ELSE <<>>
        left == SelectSeq(old, LAMBDA p : IsKept(kept, s, p.doc))
        Loc(l) == IF FieldsSame(inputs) THEN l
                  ELSE <<Number(fields, seg.fields[l[1]]), l[2]>>
    IN [k \in DOMAIN left |->
          [left[k] EXCEPT !.doc = NewNumber(kept, s, @),
                          !.locs = [j \in DOMAIN @ |-> Loc(@[j])]]]])

MergedDict(inputs, kept, fields, options, i) ==
  LET terms == IF "index" \in options[i]
                 THEN UNION {DOMAIN DictIn(seg, fields[i]) : seg \in ToSet(inputs)} ELSE {}
      all == [t \in terms |-> MergedPostings(inputs, kept, fields, fields[i], t)]
  IN [t \in {u \in terms : all[u] # <<>>} |-> all[t]]

AddedStats(inputs, options, fields, i) ==
  LET with == SelectSeq(inputs, LAMBDA seg : HasField(seg, fields[i]))
      Of(seg) == seg.stats[Number(seg.fields, fields[i])]
  IN IF "index" \notin options[i] THEN [docs |-> 0, freqs |-> 0]
     ELSE [docs  |-> FoldLeft(LAMBDA sum, seg : sum + Of(seg).docs, 0, with),
           freqs |-> FoldLeft(LAMBDA sum, seg : sum + Of(seg).freqs, 0, with)]

\* Mutant: they are added up whatever is dropped.
StatsWithDropped(inputs, drops, options, dict, fields, i) == AddedStats(inputs, options, fields, i)

\* Statistics are added up, or counted anew when a merge drops documents.
MergedStats(inputs, drops, options, dict, fields, i) ==
  IF \E s \in DOMAIN drops : drops[s] # {} THEN Totals(dict)
  ELSE AddedStats(inputs, options, fields, i)

\* Doc values are taken from the segments whose dictionary of the field has a term.
MergedValues(inputs, kept, fields, options, i) ==
  LET name == fields[i]
      Reader(seg) == seg.values[Number(seg.fields, name)]
      focus == IF {"index", "values"} \subseteq options[i]
                 THEN {s \in DOMAIN inputs : DictIn(inputs[s], name) # <<>>
                                             /\ Reader(inputs[s]) # NoValues} ELSE {}
      Entries(s) ==
        LET left == SelectSeq(FlattenSeq(Reader(inputs[s])), LAMBDA e : IsKept(kept, s, e.doc))
        IN [k \in DOMAIN left |-> [left[k] EXCEPT !.doc = NewNumber(kept, s, @)]]
  IN IF focus = {} THEN NoValues
     ELSE InChunks(FlattenSeq([s \in DOMAIN inputs |-> IF s \in focus THEN Entries(s) ELSE <<>>]),
                   Len(kept))

PayloadIn(seg, name) ==
  IF HasField(seg, name) THEN seg.vectors[Number(seg.fields, name)] ELSE NoVector

ShapesIn(inputs, name) == {PayloadIn(seg, name).shape : seg \in ToSet(inputs)} \ {NoVector.shape}
MergedVector(inputs, kept, name) ==
  LET payload(t) == PayloadIn(inputs[t], name)
      left == FlattenSeq([t \in DOMAIN inputs |->
                SelectSeq([k \in DOMAIN payload(t).docs |-> <<t, k>>],
                          LAMBDA at : IsKept(kept, t, payload(t).docs[at[2]]))])
  IN IF left = <<>> THEN NoVector
     ELSE [shape |-> CHOOSE v \in ShapesIn(inputs, name) : TRUE,
           docs  |-> [n \in DOMAIN left |->
                       NewNumber(kept, left[n][1], payload(left[n][1]).docs[left[n][2]])],
           data  |-> [n \in DOMAIN left |-> payload(left[n][1]).data[left[n][2]]]]

\* Payloads of different shapes cannot be merged.
PayloadsFit(inputs) ==
  \A name \in UNION {ToSet(seg.fields) : seg \in ToSet(inputs)} :
    Cardinality(ShapesIn(inputs, name)) <= 1

\* A merge that keeps no document writes the fields and no section.
MergeOf(inputs, drops, number) ==
  LET kept    == KeptDocs(inputs, drops)
      fields  == Sorted(UNION {ToSet(seg.fields) : seg \in ToSet(inputs)})
      options == [i \in DOMAIN fields |-> MergedOptions(inputs, fields[i])]
      dicts   == [i \in DOMAIN fields |-> MergedDict(inputs, kept, fields, options, i)]
      Each(section(_), none) ==
        [i \in DOMAIN fields |-> IF kept = <<>> THEN none ELSE section(i)]
  IN [number  |-> number,
      size    |-> Len(kept),
      fields  |-> fields,
      options |-> options,
      blocks  |-> InBlocks([n \in DOMAIN kept |->
                    MergedRecord(inputs, drops, fields, options, kept[n][1], kept[n][2])]),
      dicts   |-> dicts,
      values  |-> Each(LAMBDA i : MergedValues(inputs, kept, fields, options, i), NoValues),
      stats   |-> Each(LAMBDA i : MergedStats(inputs, drops, options, dicts[i], fields, i),
                       [docs |-> 0, freqs |-> 0]),
      vectors |-> Each(LAMBDA i : MergedVector(inputs, kept, fields[i]), NoVector),
      origin  |-> [n \in DOMAIN kept |-> inputs[kept[n][1]].origin[kept[n][2] + 1]],
      mixed   |-> UNION {seg.mixed : seg \in ToSet(inputs)} \cup Differing(inputs)]

-----------------------------------------------------------------------------
(* Reading. A visit of stored fields takes a context from the pool, with the block that    *)
(* was decoded into it last; a reader of doc values keeps the chunk it loaded last.        *)

NoContext == [segment |-> 0, block |-> 0, records |-> <<>>]
NoReader  == [segment |-> 0, chunk |-> 0, loaded |-> <<>>]

\* getDocStoredMetaAndData: the context after it.
DecodedBlock(seg, d) ==
  LET block == d \div StoredBlock
  IN IF context.segment = seg.number /\ context.block = block THEN context
     ELSE [segment |-> seg.number, block |-> block, records |-> seg.blocks[block + 1]]

StoredRecord(seg, d) == DecodedBlock(seg, d).records[(d % StoredBlock) + 1]

\* VisitDocValues: the reader after it, every field's chunk loaded.
Loaded(seg, d) ==
  LET chunk == d \div ValueChunk
  IN IF valueReader.segment = seg.number /\ valueReader.chunk = chunk THEN valueReader
     ELSE [segment |-> seg.number, chunk |-> chunk,
           loaded |-> [i \in DOMAIN seg.fields |->
                         IF seg.values[i] = NoValues THEN <<>> ELSE seg.values[i][chunk + 1]]]

DocValues(seg, d, i) ==
  UNION {ToSet(e.terms) : e \in {f \in ToSet(Loaded(seg, d).loaded[i]) : f.doc = d}}

-----------------------------------------------------------------------------

ContentInit ==
  held = <<>> /\ made = 0 /\ built = 0 /\ context = NoContext /\ valueReader = NoReader

\* New: a batch whose vectors do not fit is refused.
NewSegment(docs) ==
  /\ built < MaxBuilt
  /\ VectorsFit(docs)
  /\ made' = made + 1 /\ built' = built + 1
  /\ held' = Append(held, SegmentOf(docs, made'))
  /\ UNCHANGED <<context, valueReader>>

\* The documents of two segments that a merge drops.
Dropped(m, n) ==
  LET Few(size) == UNION {kSubset(k, 0..size - 1) : k \in 0..MaxDropped}
  IN {drops \in Few(m) \X Few(n) :
        Cardinality(drops[1]) + Cardinality(drops[2]) <= MaxDropped}

\* Merge of two segments; the result takes the place of the first.
MergeSegments(a, b, drops) ==
  /\ a < b
  /\ KeptDocs(<<held[a], held[b]>>, drops) # <<>> => PayloadsFit(<<held[a], held[b]>>)
  /\ made' = made + 1
  /\ LET inputs == <<held[a], held[b]>>
         kept   == KeptDocs(inputs, drops)
         last   == Last(kept)
     IN /\ held' = RemoveAt([held EXCEPT ![a] = MergeOf(inputs, drops, made')], b)
        /\ context' = IF kept = <<>> THEN context ELSE DecodedBlock(inputs[last[1]], last[2])
  /\ UNCHANGED <<built, valueReader>>

Visit(s, d) ==
  /\ context' = DecodedBlock(held[s], d)
  /\ valueReader' = Loaded(held[s], d)
  /\ UNCHANGED <<held, made, built>>

ContentNext ==
  \/ \E docs \in Sources : NewSegment(docs)
  \/ \E a, b \in DOMAIN held : \E gone \in Dropped(held[a].size, held[b].size) :
       MergeSegments(a, b, gone)
  \/ \E s \in DOMAIN held : \E d \in 0..held[s].size - 1 : Visit(s, d)

ContentSpec == ContentInit /\ [][ContentNext]_contentVars

-----------------------------------------------------------------------------
(* Properties *)

\* Through any builds and merges, what documents ask to keep can be read: stored values
\* with the names and in the order they came, postings with their frequencies and
\* locations, doc values, vectors; nothing of a dropped or of another document is there,
\* whatever block or chunk was read before, and the statistics of scoring count what the
\* dictionaries hold. An option that some merge found to differ between segments with the
\* field (mergeFields clears it, though a field is built with the options of all
\* documents) takes what it stood for with it, as a whole or not at all.
ContentIsKept ==
  \A seg \in ToSet(held) : \A i \in DOMAIN seg.fields :
    LET name     == seg.fields[i]
        Sure(o)  == <<name, o>> \notin seg.mixed
        dict     == seg.dicts[i]
        Stored(d) == LET mine == SelectSeq(StoredRecord(seg, d), LAMBDA v : v[1] = i)
                     IN [k \in DOMAIN mine |-> mine[k][2]]
        Found(d, t) == IF t \in DOMAIN dict THEN {p \in ToSet(dict[t]) : p.doc = d} ELSE {}
    IN /\ \A d \in 0..seg.size - 1 :
            LET doc    == seg.origin[d + 1]
                stored == Stored(d)
                values == DocValues(seg, d, i)
            IN /\ \/ stored = StoredIn(doc, name)
                  \/ ~Sure("store") /\ stored = <<>>
               /\ \A t \in TermsIn(doc, name) \cup DOMAIN dict :
                    \/ Found(d, t) = {PostingOf(doc, d, seg.fields, name, t)}
                    \/ Found(d, t) = {} /\ (t \in TermsIn(doc, name) => ~Sure("index"))
               /\ values \subseteq TermsIn(doc, name)
               /\ Sure("values") /\ Sure("index") =>
                    ValuesAskedIn(doc, name) \subseteq values
       /\ seg.stats[i] = Totals(dict)
       /\ seg.vectors[i] = VectorsHeld(seg.origin, name)

=============================================================================
