----------------------------- MODULE Searchers -----------------------------
(***************************************************************************)
(* How a boolean query is evaluated over a snapshot: the iterators of       *)
(* search/searcher (term, conjunction, disjunction as a slice and as a      *)
(* heap, boolean) on top of the postings iterators of index, with the       *)
(* replacements query.go and index/optimize.go make for them.               *)
(*                                                                         *)
(* A searcher is a record with what it keeps between calls.  Asked for its  *)
(* next match, or for the first one at or behind a number, it gives the     *)
(* match and what it has become.  A term found in a document scores 1, and  *)
(* composites add up.  A collector, or the searcher above, calls Next first *)
(* and then Next and Advance in any order, Advance always for a document    *)
(* behind the last one it got.                                              *)
(***************************************************************************)
EXTENDS Integers, Sequences, FiniteSets, FiniteSetsExt, SequencesExt

CONSTANTS Docs,       \* document numbers of the snapshot, 0 .. n
          Postings,   \* bound: the sets of documents a term may be in
          MaxClauses, \* bound: clauses of a query
          Scores      \* values of SearchOptions.Score: "" and "none"

ASSUME SearchersAssumption ==
  Docs \subseteq Nat /\ IsFiniteSet(Docs) /\ Postings \subseteq SUBSET Docs /\ MaxClauses \in Nat

VARIABLES
  query,     \* [must, should, mustNot, min] and the options
  searcher,  \* its searcher
  asked,     \* the first document it was asked for last
  from,      \* the first one it may be asked for next
  answer     \* what it found

searchVars == <<query, searcher, asked, from, answer>>

NEXT == -1
Nil  == [n |-> -1, score |-> 0]

-----------------------------------------------------------------------------
(* Postings *)

\* Documents before pos are consumed; curr is the last one given; a restart reads again.
Term(docs, again) == [kind |-> "term", docs |-> docs, again |-> again, pos |-> 0, curr |-> -1]

\* postingsIteratorAll
All == [kind |-> "all", docs |-> Docs, again |-> Docs, pos |-> 0, curr |-> -1]

\* To seek backwards an iterator is opened again, by its term; the one over all documents
\* has no such provision.
Restarted(s, n) ==
  IF s.kind = "term" /\ s.curr >= n /\ s.curr # -1 THEN Term(s.again, s.again) ELSE s

TermAsked(s, n) ==
  LET t    == IF n = NEXT THEN s ELSE Restarted(s, n)
      at   == Max({t.pos, n})
      left == {d \in t.docs : d >= at}
  IN  IF left = {} THEN [to |-> [t EXCEPT !.pos = at], hit |-> Nil]
      ELSE [to  |-> [t EXCEPT !.pos = Min(left) + 1, !.curr = Min(left)],
            hit |-> [n |-> Min(left), score |-> 1]]

-----------------------------------------------------------------------------
(* Composite searchers: children and, for each, the match it is at *)

RECURSIVE Asked(_, _)

\* Some of the children are asked.
Moved(s, some, n) ==
  FoldSet(LAMBDA c, t : LET result == Asked(t.children[c], n)
                        IN  [t EXCEPT !.children[c] = result.to, !.currs[c] = result.hit],
          s, some)

\* initSearchers
Ready(s) ==
  IF s.ready THEN s ELSE [Moved(s, DOMAIN s.children, NEXT) EXCEPT !.ready = TRUE]

Behind(s, n) == {c \in DOMAIN s.children : s.currs[c].n < n}

Together(s, some) == [n     |-> s.currs[CHOOSE c \in some : TRUE].n,
                      score |-> MapThenSumSet(LAMBDA c : s.currs[c].score, some)]

\* ConjunctionSearcher.Next: those that lag are advanced to the one that is ahead.
RECURSIVE Agreed(_)
Agreed(s) ==
  LET top  == s.currs[s.max].n
      off  == {c \in DOMAIN s.children : s.currs[c].n # top}
      c    == Min(off)
  IN  IF top = -1 THEN [to |-> s, hit |-> Nil]
      ELSE IF off = {} THEN [to  |-> Moved(s, DOMAIN s.children, NEXT),
                             hit |-> Together(s, DOMAIN s.children)]
      ELSE IF s.currs[c] = Nil THEN [to |-> s, hit |-> Nil]
      ELSE IF s.currs[c].n > top
           THEN Agreed(Moved([s EXCEPT !.max = c], 1 .. c - 1, s.currs[c].n))
      ELSE Agreed(Moved(s, {c}, top))

ConjunctionAsked(s, n) ==
  LET t == Ready(s)
  IN  Agreed(IF n = NEXT THEN t ELSE Moved(t, Behind(t, n), n))

Alive(s) == {c \in DOMAIN s.children : s.currs[c] # Nil}

\* Mutant: the first of them.
FirstMatching(s) ==
  {c \in Alive(s) : \A d \in Alive(s) \ {c} :
                      \/ s.currs[c].n < s.currs[d].n
                      \/ s.currs[c].n = s.currs[d].n /\ c < d}

\* updateMatches
Matching(s) ==
  {c \in Alive(s) : \A d \in Alive(s) : s.currs[c].n <= s.currs[d].n}

RECURSIVE Some(_)
Some(s) ==
  IF Matching(s) = {} THEN [to |-> s, hit |-> Nil]
  ELSE LET t == Moved(s, Matching(s), NEXT)
       IN  IF Cardinality(Matching(s)) < s.min THEN Some(t)
           ELSE [to |-> t, hit |-> Together(s, Matching(s))]

\* A child without a match has left the heap; in the slice it is asked again.
DisjunctionAsked(s, n) ==
  LET t    == Ready(s)
      late == {c \in Behind(t, n) : t.heap => t.currs[c] # Nil}
  IN  Some(IF n = NEXT THEN t ELSE Moved(t, late, n))

-----------------------------------------------------------------------------
(* BooleanSearcher *)

Has(s, c) == c \in DOMAIN s.children

\* The clause whose matches are the candidates.
Primary(s)   == IF Has(s, "must") THEN "must" ELSE "should"
Candidate(s) == s.currs[Primary(s)]

\* One of the others, brought up to the candidate.
CaughtUp(s, c) ==
  IF s.currs[c] # Nil /\ s.currs[c].n < Candidate(s).n THEN Moved(s, {c}, Candidate(s).n) ELSE s

MinOf(s) == IF s.kind = "disjunction" THEN s.min ELSE 0

Excluded(s) == s.currs["mustNot"].n = Candidate(s).n

\* nextInternal
RECURSIVE Accepted(_)
Accepted(s) ==
  IF Candidate(s) = Nil THEN [to |-> [s EXCEPT !.done = TRUE], hit |-> Nil]
  ELSE LET t        == CaughtUp(s, "mustNot")
           u        == IF Excluded(t) THEN t ELSE CaughtUp(t, "should")
           next     == Moved(u, {Primary(u)}, NEXT)
           both     == u.currs["should"].n = Candidate(u).n
           optional == ~Has(u, "should") \/ MinOf(u.children["should"]) = 0
       IN  IF ~Excluded(t) /\ (both \/ optional)
           THEN [to  |-> next,
                 hit |-> Together(u, IF both THEN {Primary(u), "should"} ELSE {Primary(u)})]
           ELSE Accepted(next)

\* Mutant: the clause that excludes is advanced like the others.
AllOfThem(s, n) == DOMAIN s.children

\* advanceIfTrailing moves must and should wherever they are, and mustNot when it trails.
\* (That a should clause may have been ahead is remembered.)
Trailing(s, n) == DOMAIN s.children \ (IF s.currs["mustNot"].n >= n THEN {"mustNot"} ELSE {})

BooleanAsked(s, n) ==
  IF s.done THEN [to |-> s, hit |-> Nil]
  ELSE LET t == Ready(s)
       IN  IF n = NEXT \/ Candidate(t).n >= n THEN Accepted(t)
           ELSE Accepted([Moved(t, Trailing(t, n), n) EXCEPT
                            !.overrun = @ \/ t.currs["should"].n >= n])

Asked(s, n) ==
  CASE s.kind \in {"term", "all"}   -> TermAsked(s, n)
    [] s.kind = "conjunction"       -> ConjunctionAsked(s, n)
    [] s.kind = "disjunction"       -> DisjunctionAsked(s, n)
    [] s.kind = "boolean"           -> BooleanAsked(s, n)

-----------------------------------------------------------------------------
(* Making the searchers of a query *)

Unread(children) == [c \in DOMAIN children |-> Nil]

\* Without scores a conjunction of terms is computed at once; with them the terms' bitmaps
\* are replaced by what they have in common, until one of them is opened again.
Conjunction(q) ==
  LET common == {d \in Docs : \A c \in DOMAIN q.must : d \in q.must[c]}
      many   == Len(q.must) > 1
      terms  == [c \in DOMAIN q.must |->
                   Term(IF many /\ q.bitmaps THEN common ELSE q.must[c], q.must[c])]
  IN  IF many /\ q.score = "none" THEN Term(common, {})
      ELSE [kind |-> "conjunction", children |-> terms, currs |-> Unread(terms), max |-> 1,
            ready |-> FALSE]

\* Without scores a disjunction of which one has to match is, too.
Disjunction(q, clauses, min) ==
  LET terms == [c \in DOMAIN clauses |-> Term(clauses[c], clauses[c])]
  IN  IF Len(clauses) > 1 /\ min <= 1 /\ q.score = "none"
      THEN Term(UNION ToSet(clauses), {})
      ELSE [kind |-> "disjunction", children |-> terms, currs |-> Unread(terms), min |-> min,
            heap |-> q.heap, ready |-> FALSE]

\* A query that only excludes starts from all documents.
Boolean(q) ==
  LET kinds == {k \in {"must", "should", "mustNot"} : q[k] # <<>>}
      used  == IF kinds \subseteq {"mustNot"} THEN kinds \cup {"must"} ELSE kinds
      children == [k \in used |-> CASE k = "must"    -> IF q.must = <<>> THEN All ELSE Conjunction(q)
                                    [] k = "should"  -> Disjunction(q, q.should, q.min)
                                    [] k = "mustNot" -> Disjunction(q, q.mustNot, 1)]
  IN  [kind |-> "boolean", children |-> children,
       currs |-> [k \in {"must", "should", "mustNot"} |-> Nil],
       ready |-> FALSE, done |-> FALSE, overrun |-> FALSE]

\* The constructors sort the clauses by the number of their documents.
Clauses(k) ==
  {c \in [1 .. k -> Postings] : k = 2 => Cardinality(c[1]) <= Cardinality(c[2])}

-----------------------------------------------------------------------------

SearchInit ==
  /\ \E m, s, x \in 0 .. 2 :
       /\ m + s + x \in 1 .. MaxClauses /\ x <= 1
       /\ \E must \in Clauses(m), should \in Clauses(s), mustNot \in Clauses(x),
            min \in 0 .. IF s = 0 THEN 0 ELSE s + 1, score \in Scores,
            heap \in IF s = 0 THEN {FALSE} ELSE BOOLEAN,
            bitmaps \in IF m = 2 THEN BOOLEAN ELSE {FALSE} :
              query = [must |-> must, should |-> should, mustNot |-> mustNot, min |-> min,
                       score |-> score, heap |-> heap, bitmaps |-> bitmaps]
  /\ searcher = Boolean(query) /\ asked = 0 /\ from = 0 /\ answer = Nil

Ask(n) ==
  LET result == Asked(searcher, n)
  IN  /\ searcher' = result.to /\ answer' = result.hit
      /\ asked' = Max({n, from})
      /\ from' = IF result.hit = Nil THEN Max(Docs) + 1 ELSE result.hit.n + 1
      /\ UNCHANGED query

NextMatch == from <= Max(Docs) /\ Ask(NEXT)

Advance(n) == searcher.ready /\ n >= from /\ Ask(n)

SearchNext == NextMatch \/ \E n \in Docs : Advance(n)

SearchSpec == SearchInit /\ [][SearchNext]_searchVars

-----------------------------------------------------------------------------
(* Properties *)

Found(clauses, d) == {c \in DOMAIN clauses : d \in clauses[c]}

\* "Result documents must satisfy ALL of the must Queries" and "NONE of the must not
\* Queries", and "at least minShould of the should Queries" (query.go).
Matches(d) ==
  /\ Found(query.must, d) = DOMAIN query.must /\ Found(query.mustNot, d) = {}
  /\ Cardinality(Found(query.should, d)) >= query.min
  /\ query.must = <<>> /\ query.should # <<>> => Found(query.should, d) # {}

FirstMatch == LET those == {d \in Docs : d >= asked /\ Matches(d)}
              IN  IF those = {} THEN -1 ELSE Min(those)

\* SetMinShould's comment, with and without scores: whatever it was asked before, the
\* searcher finds the first document that satisfies all clauses, and no other.
MinShouldHolds == searcher.ready => answer.n = FirstMatch

\* The same for the queries whose should clause is a disjunction still: across laggards,
\* restarts, pushed-down bitmaps, exhausted children and a heap no match is skipped, none
\* is given twice, and what mustNot excludes stays excluded.
FindsFirstMatch ==
  (Has(searcher, "should") => searcher.children["should"].kind = "disjunction") => MinShouldHolds

\* "Result documents that ALSO satisfy any of the should Queries will score higher": a
\* match scores one for each of its clauses.  Only Advance may lose some of it, when it
\* moves a should clause that was ahead already and so beyond a match it had read.
ShouldAddsToScore ==
  (query.score = "" /\ ~searcher.overrun /\ answer # Nil) =>
    answer.score = (IF query.must = <<>> /\ query.should = <<>> THEN 1 ELSE Len(query.must))
                     + Cardinality(Found(query.should, answer.n))

\* Next and Advance find the matches of a query, each once, with the score of its clauses.
MatchesAreExact == FindsFirstMatch /\ ShouldAddsToScore
=============================================================================
