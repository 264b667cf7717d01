------------------------------ MODULE MCParts ------------------------------
(* Small instances of the parts that do not interact with one another, side by side: *)
(* every behaviour is one of one part, while the others stay where they start.        *)
EXTENDS DirectoryLock, SegmentHandles, WriterFrontend, OfflineWriter, MergePlan, TextImport,
        Searchers, TopN, MCTermPostings, SegmentContent, SnapshotPostings, VectorSidecar,
        VectorReaders, TLC

VARIABLE part

\* Bytes of one letter: a control character, a space, a newline, a letter of four bytes,
\* and a byte that only continues one.
Letters == {<<"c">>, <<"s">>, <<"n">>, <<"w", "t", "t", "t">>, <<"t">>}

\* Bound: five of them.
SomeTexts == {FlattenSeq(letters) : letters \in SeqOf(Letters, 5)}

\* Documents 0 and 1, and 2 and 3; those of two terms.
SomeOffsets == <<0, 2>>
SomeTerms   == <<{0, 1, 3}, {2, 3}>>

\* The terms have no order: of two inputs that only exchange them, one is enough.
OneOrder ==
  LET Hits(t) == Cardinality(DOMAIN scores[t])
      some == CHOOSE t \in Terms : TRUE
  IN  \A t \in Terms : Hits(some) <= Hits(t)

\* The collector does not look at segments, and a page of nothing at nothing: one is enough.
OneCut == way = "collect" \/ page = <<0, 0>> => ends = {LastDoc} /\ bare = {}

\* One segment, or two.
SomeCuts == {{3}, {1, 3}}

\* One document, two with one before, and none.
SomePages == {<<1, 0>>, <<1, 1>>, <<0, 0>>}

\* A plain reader and one of a collection; the callers of one handle.
TwoReaders == {<<"plain", "collection">>, <<"bare">>}

\* Documents with repeated and composite fields, numbers and vectors, and with options that
\* are not those of the same field elsewhere. Names 0 to 5: _id, a composite, a text, a
\* number, a vector, another text.
Id(n) == [name |-> 0, kind |-> "text", value |-> <<90 + n>>, opts |-> {"index", "store", "values"}]
Words(name, words, opts) == [name |-> name, kind |-> "text", value |-> words, opts |-> opts]
Numeral(n, opts) == [name |-> 3, kind |-> "number", value |-> <<n>>, opts |-> opts]
Composite == [name |-> 1, kind |-> "all", value |-> <<>>, opts |-> {"index"}]
Vector(form, n) == [name |-> 4, kind |-> "vector", value |-> <<form, n>>, opts |-> {"index"}]

Placed   == {"index", "store", "locations"}
Sortable == {"index", "values"}

SomeSources ==
  {<< <<Id(1), Words(2, <<40, 41, 40>>, Placed), Words(2, <<40>>, Placed)>>,
      <<Id(2), Numeral(1, {"store"}), Vector("a", 1)>> >>,
   << <<Id(4), Words(2, <<40>>, {"index"}), Numeral(5, Sortable), Words(3, <<44>>, Sortable)>> >>,
   << <<Id(7), Composite, Words(2, <<41, 40>>, Placed)>>,
      <<Id(8), Numeral(9, Sortable), Numeral(5, Sortable), Vector("a", 2)>> >>,
   << <<Id(9), Vector("b", 3), Words(5, <<40>>, Placed \cup {"values"})>> >>}

-----------------------------------------------------------------------------
(* Where the parts with many initial states stay *)

NoImport ==
  /\ input = <<>> /\ options = [max |-> 4, overlap |-> 0, batch |-> 1]
  /\ cutter = [start |-> 0, end |-> 0] /\ chunks = <<>> /\ pending = {}
  /\ result = [deleted |-> FALSE, chunks |-> 0, end |-> 0]
  /\ indexed = {-1} /\ importing = "cutting"

NoSearch ==
  /\ query = [must |-> <<{3}>>, should |-> <<>>, mustNot |-> <<>>, min |-> 0, score |-> "",
              heap |-> FALSE, bitmaps |-> FALSE]
  /\ searcher = Boolean(query) /\ asked = 0 /\ from = 0 /\ answer = Nil

NoTop ==
  /\ scores = [t \in Terms |-> 0 :> 1] /\ ends = {LastDoc} /\ bare = {} /\ page = <<1, 0>>
  /\ way = "raw"
  /\ cursors = Terms /\ target = 0 /\ best = {} /\ outside = -1 /\ found = "none"

NoPostings ==
  /\ step = "new" /\ empty = FALSE /\ parts = <<>> /\ list = NoList /\ current = 0
  /\ output = NoOutput /\ iterator = NoIterator /\ sought = 0 /\ upcoming = {}
  /\ posting = Nothing

NoReaders == ReadersInit /\ kinds = <<"bare">>

PartsInit ==
  /\ part \in {"lock", "readers", "failures", "front", "offline", "plan", "import", "search",
               "top", "postings", "content", "iterators", "sidecar", "vectors"}
  /\ Init /\ HandlesInit /\ PlanInit
  /\ FrontInit /\ (part # "front" => limit = 0)
  /\ OfflineInit /\ (part # "offline" => ~concurrent)
  /\ IF part = "import" THEN TextInit ELSE NoImport
  /\ IF part = "search" THEN SearchInit ELSE NoSearch
  /\ IF part = "top" THEN scores \in [Terms -> Partial] /\ OneOrder /\ TopInit /\ OneCut ELSE NoTop
  /\ IF part = "postings" THEN PostingsInit ELSE NoPostings
  /\ ContentInit /\ IteratorsInit /\ SidecarInit
  /\ IF part = "vectors" THEN ReadersInit ELSE NoReaders

-----------------------------------------------------------------------------

PartsNext ==
  \/ /\ part = "lock" /\ Next
     /\ UNCHANGED <<part, handlesVars, frontVars, offlineVars, planVars, textVars,
                    searchVars, topVars, postingsVars, contentVars, iteratorsVars, sidecarVars,
                    readersVars>>
  \/ /\ part = "readers" /\ HandlesNext /\ UNCHANGED faults
     /\ UNCHANGED <<part, vars, frontVars, offlineVars, planVars, textVars, searchVars,
                    topVars, postingsVars, contentVars, iteratorsVars, sidecarVars,
                    readersVars>>
  \/ /\ part = "failures" /\ HandlesNext /\ UNCHANGED reader
     /\ UNCHANGED <<part, vars, frontVars, offlineVars, planVars, textVars, searchVars,
                    topVars, postingsVars, contentVars, iteratorsVars, sidecarVars,
                    readersVars>>
  \/ /\ part = "front" /\ FrontNext
     /\ UNCHANGED <<part, vars, handlesVars, offlineVars, planVars, textVars, searchVars,
                    topVars, postingsVars, contentVars, iteratorsVars, sidecarVars,
                    readersVars>>
  \/ /\ part = "offline" /\ OfflineNext
     /\ UNCHANGED <<part, vars, handlesVars, frontVars, planVars, textVars, searchVars,
                    topVars, postingsVars, contentVars, iteratorsVars, sidecarVars,
                    readersVars>>
  \/ /\ part = "plan" /\ PlanNext
     /\ UNCHANGED <<part, vars, handlesVars, frontVars, offlineVars, textVars, searchVars,
                    topVars, postingsVars, contentVars, iteratorsVars, sidecarVars,
                    readersVars>>
  \/ /\ part = "import" /\ TextNext
     /\ UNCHANGED <<part, vars, handlesVars, frontVars, offlineVars, planVars, searchVars,
                    topVars, postingsVars, contentVars, iteratorsVars, sidecarVars,
                    readersVars>>
  \/ /\ part = "search" /\ SearchNext
     /\ UNCHANGED <<part, vars, handlesVars, frontVars, offlineVars, planVars, textVars,
                    topVars, postingsVars, contentVars, iteratorsVars, sidecarVars,
                    readersVars>>
  \/ /\ part = "top" /\ TopNext
     /\ UNCHANGED <<part, vars, handlesVars, frontVars, offlineVars, planVars, textVars,
                    searchVars, postingsVars, contentVars, iteratorsVars, sidecarVars,
                    readersVars>>
  \/ /\ part = "postings" /\ PostingsNext
     /\ UNCHANGED <<part, vars, handlesVars, frontVars, offlineVars, planVars, textVars,
                    searchVars, topVars, contentVars, iteratorsVars, sidecarVars,
                    readersVars>>
  \/ /\ part = "content" /\ ContentNext
     /\ UNCHANGED <<part, vars, handlesVars, frontVars, offlineVars, planVars, textVars,
                    searchVars, topVars, postingsVars, iteratorsVars, sidecarVars,
                    readersVars>>
  \/ /\ part = "iterators" /\ IteratorsNext
     /\ UNCHANGED <<part, vars, handlesVars, frontVars, offlineVars, planVars, textVars,
                    searchVars, topVars, postingsVars, contentVars, sidecarVars, readersVars>>
  \/ /\ part = "sidecar" /\ SidecarNext
     /\ UNCHANGED <<part, vars, handlesVars, frontVars, offlineVars, planVars, textVars,
                    searchVars, topVars, postingsVars, contentVars, iteratorsVars, readersVars>>
  \/ /\ part = "vectors" /\ ReadersNext
     /\ UNCHANGED <<part, vars, handlesVars, frontVars, offlineVars, planVars, textVars,
                    searchVars, topVars, postingsVars, contentVars, iteratorsVars,
                    sidecarVars>>

allVars == <<part, vars, handlesVars, frontVars, offlineVars, planVars, textVars,
             searchVars, topVars, postingsVars, contentVars, iteratorsVars, sidecarVars,
             readersVars>>

PartsSpec == PartsInit /\ [][PartsNext]_allVars

=============================================================================
