-------------------------------- MODULE TopN --------------------------------
(***************************************************************************)
(* The best matches of a search: the collector (search/collector) that      *)
(* looks at every match of a searcher, and the shortcut for a disjunction   *)
(* of terms (search/searcher/raw_topn.go) that leaves out whole blocks of   *)
(* postings by the impacts stored with them, which the postings iterator of *)
(* a snapshot puts together from those of its segments.                     *)
(*                                                                         *)
(* A term's score in a document is a number, the score of a document their  *)
(* sum; a document does better with a higher score, or the lower number.    *)
(***************************************************************************)
EXTENDS Integers, Sequences, FiniteSets, FiniteSetsExt

CONSTANTS Terms,
          LastDoc,   \* bound: documents are 0 .. LastDoc
          MaxScore,  \* bound: scores of a term in a document
          BlockSize, \* impactBlockSize: postings of a block
          Cuts,      \* ways to cut the documents into segments: their last documents
          MaxBare,   \* bound: terms and segments without impacts
          Pages      \* pairs of size and from

ASSUME TopNAssumption ==
  /\ IsFiniteSet(Terms) /\ LastDoc \in Nat /\ MaxScore \in Nat /\ BlockSize \in Nat \ {0}
  /\ Pages \subseteq Nat \X Nat
  /\ \A cut \in Cuts : cut \subseteq 0 .. LastDoc /\ LastDoc \in cut

VARIABLES
  scores,   \* of each term, in the documents that have it
  ends,     \* the last documents of the segments
  bare,     \* terms and segments without impacts: rare ones have none
  page,
  way,      \* "raw" or "collect"
  cursors,  \* the terms that still have blocks
  target,   \* the first document not looked at yet
  best,     \* rawTopNHeap, or the collector's store
  outside,  \* lowestMatchOutsideResults: a document, or -1
  found     \* the result, a sequence of documents, or "none" before

topVars == <<scores, ends, bare, page, way, cursors, target, best, outside, found>>
given   == <<scores, ends, bare, page, way>>

-----------------------------------------------------------------------------

Documents      == 0 .. LastDoc
HasTerm(t, d) == d \in DOMAIN scores[t]

Sum(f) == MapThenSumSet(LAMBDA t : f[t], DOMAIN f)

Share(d) == [t \in Terms |-> IF HasTerm(t, d) THEN scores[t][d] ELSE 0]
Score(d) == Sum(Share(d))

Better(c, d) == Score(c) > Score(d) \/ (Score(c) = Score(d) /\ c < d)
Worst(some)  == CHOOSE d \in some : \A c \in some \ {d} : Better(c, d)

\* The best first: a document's place is after those that are better.
Nth(some, n)  == {d \in some : Cardinality({c \in some : Better(c, d)}) = n - 1}
Ranking(some) == [n \in 1 .. Cardinality(some) |-> CHOOSE d \in Nth(some, n) : TRUE]

Wanted == page[1] + page[2]

\* The segment of a document, named by its last document.
Segment(d)  == Min({e \in ends : e >= d})
Segments(t) == {Segment(d) : d \in DOMAIN scores[t]}

-----------------------------------------------------------------------------
(* Blocks: postingsIterator.AdvanceShallow *)

\* A block ends with every BlockSize-th posting of a segment, and with its last one.
Ends(t, e) ==
  LET docs == {d \in DOMAIN scores[t] : Segment(d) = e}
  IN  {d \in docs : d = Max(docs) \/ Cardinality({c \in docs : c <= d}) % BlockSize = 0}

\* The ends of blocks a term offers: without impacts the rest of a segment is one.
BlockEnds(t) ==
  UNION {IF <<t, e>> \in bare THEN {e} ELSE Ends(t, e) : e \in Segments(t)}

Exists(t)   == \E e \in BlockEnds(t) : e >= target
BlockEnd(t) == Min({e \in BlockEnds(t) : e >= target})

\* What of the block's segment is behind the last block's end.
InBlock(t, d) ==
  /\ HasTerm(t, d) /\ d <= BlockEnd(t) /\ Segment(d) = Segment(BlockEnd(t))
  /\ \A e \in BlockEnds(t) : e < BlockEnd(t) => e < d

Unbounded(t) == <<t, Segment(BlockEnd(t))>> \in bare
Bound(t)     == Max({scores[t][d] : d \in {c \in Documents : InBlock(t, c)}})

\* Mutant: a document is taken to have one of the terms only.
HighestBound(some) == Max({Bound(t) : t \in some})

UpperBound(some) == Sum([t \in some |-> Bound(t)])

-----------------------------------------------------------------------------

Partial == UNION {[some -> 1 .. MaxScore] : some \in SUBSET Documents}

TopInit ==
  /\ scores \in [Terms -> Partial]
  /\ ends \in Cuts
  /\ bare \in {b \in SUBSET (Terms \X ends) : Cardinality(b) <= MaxBare}
  /\ page \in Pages /\ way \in {"raw", "collect"}
  /\ way = "raw" => \A t \in Terms : {e \in Segments(t) : <<t, e>> \notin bare} # {}
  /\ cursors = Terms /\ target = 0 /\ best = {} /\ outside = -1 /\ found = "none"

\* rawTopNAdd, for documents in ascending order.
WithEach(docs) ==
  LET Add(d, some) == IF Cardinality(some) < Wanted THEN some \cup {d}
                      ELSE IF Better(d, Worst(some)) THEN (some \ {Worst(some)}) \cup {d}
                      ELSE some
      after[n \in 0 .. LastDoc + 1] ==
        IF n = 0 THEN best
        ELSE IF n - 1 \in docs THEN Add(n - 1, after[n - 1]) ELSE after[n - 1]
  IN  after[LastDoc + 1]

\* rawTopNDisjunction: up to where the first of the terms' blocks ends nothing can be as
\* good as what there is already, or every document is scored.
RawBlock ==
  LET active   == {t \in cursors : Exists(t)}
      rangeEnd == Min({BlockEnd(t) : t \in active})
      hopeless == /\ \A t \in active : ~Unbounded(t)
                  /\ Cardinality(best) = Wanted /\ UpperBound(active) <= Score(Worst(best))
      these    == {d \in target .. rangeEnd : \E t \in active : HasTerm(t, d)}
  IN  /\ way = "raw" /\ found = "none" /\ Wanted > 0 /\ active # {}
      /\ cursors' = active /\ target' = rangeEnd + 1
      /\ best' = IF hopeless THEN best ELSE WithEach(these)
      /\ UNCHANGED <<given, outside, found>>

\* TopNCollector.collectSingle: what is no better than something already dropped is not
\* even tried.
CollectSingle ==
  LET hits == {d \in Documents : d >= target /\ Score(d) > 0}
      d    == Min(hits)
      all  == best \cup {d}
  IN  /\ way = "collect" /\ found = "none" /\ hits # {}
      /\ target' = d + 1
      /\ IF outside # -1 /\ ~Better(d, outside) THEN UNCHANGED <<best, outside>>
         ELSE IF Cardinality(all) <= Wanted THEN best' = all /\ UNCHANGED outside
         ELSE /\ best' = all \ {Worst(all)}
              /\ outside' = IF outside = -1 \/ Better(Worst(all), outside) THEN Worst(all)
                                                                          ELSE outside
      /\ UNCHANGED <<given, cursors, found>>

\* finishRawTopN, finalizeResults: the best first, without those of the pages before.
Finish ==
  /\ found = "none"
  /\ IF way = "raw" THEN Wanted = 0 \/ \A t \in cursors : ~Exists(t)
                    ELSE \A d \in Documents : d >= target => Score(d) = 0
  /\ found' = SubSeq(Ranking(best), page[2] + 1, Cardinality(best))
  /\ UNCHANGED <<given, cursors, target, best, outside>>

TopNext == RawBlock \/ CollectSingle \/ Finish

TopSpec == TopInit /\ [][TopNext]_topVars

-----------------------------------------------------------------------------
(* Properties *)

\* A page has the documents that are at its places among all that match, in their order,
\* whichever way they were found: no block that was left out had one of them, and with
\* equal scores both ways prefer the same documents, so pages neither overlap nor miss any.
PageIsExact ==
  found # "none" =>
    LET matches == {d \in Documents : Score(d) > 0}
    IN  found = SubSeq(Ranking(matches), page[2] + 1, Min({Wanted, Cardinality(matches)}))
=============================================================================
