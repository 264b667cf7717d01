------------------------- MODULE IndexWriterProofs -------------------------
(***************************************************************************)
(* What the writer keeps, for every set of keys, callers, batches and       *)
(* bounds: MergesAreDisjoint, OneLiveDocument and RootHoldsHistory.         *)
(*                                                                         *)
(* The inductive invariant IInv is about where a segment may be: an id      *)
(* stands for one sequence of documents wherever it is (OneContent), nobody *)
(* knows the id of a segment before it is introduced (Fresh), what is only  *)
(* in memory has no file (Apart), and the root has every deletion that a    *)
(* snapshot or a merge of it has (Grown).  From these a merge that comes in *)
(* late finds the segments it copied, or finds them gone, and MergeKeeps    *)
(* applies.                                                                *)
(***************************************************************************)
EXTENDS IndexWriter, FiniteSetTheorems, WellFoundedInduction, TLAPS

-----------------------------------------------------------------------------
(* What the operators of Segments do to the documents. *)

\* No segment comes twice.
UniqueIds(segs) == \A s, t \in segs : s.id = t.id => s = t

\* OneLiveDocument, with segments in the place of their ids.
OneLive(segs) ==
  \A s, t \in segs : \A m \in Live(s), n \in Live(t) :
    s.docs[m][1] = t.docs[n][1] => s = t /\ m = n

\* The segments of a root, a snapshot or a merge.
Sound(segs) ==
  /\ segs \subseteq SegmentSnapshots
  /\ IsFiniteSet(segs)
  /\ UniqueIds(segs)
  /\ OneLive(segs)
  /\ \A s \in segs : Live(s) # {}

\* One document of the content.
Holds(segs, d) == \E s \in segs : \E n \in Live(s) : d = s.docs[n]

\* The segment an id names is the one that has it.
LEMMA SegmentIs ==
  ASSUME NEW segs, UniqueIds(segs), NEW s \in segs
  PROVE  Segment(segs, s.id) = s
  BY DEF UniqueIds, Segment

\* The places of a set of segments are those of its segments.
LEMMA PlacesAre ==
  ASSUME NEW segs, NEW p
  PROVE  p \in Places(segs) <=> \E s \in segs : \E n \in Live(s) : p = <<s.id, n>>
  BY DEF Places

\* What is at a place is what its segment has there.
LEMMA DocIs ==
  ASSUME NEW segs, UniqueIds(segs), NEW s \in segs, NEW n
  PROVE  DocAt(segs, <<s.id, n>>) = s.docs[n]
  BY SegmentIs DEF DocAt

\* The content, segment by segment.
LEMMA ContentIs ==
  ASSUME NEW segs, UniqueIds(segs), NEW d
  PROVE  d \in Content(segs) <=> Holds(segs, d)
<1>1. ASSUME d \in Content(segs) PROVE Holds(segs, d)
  <2>1. PICK p \in Places(segs) : d = DocAt(segs, p)
    BY <1>1 DEF Content
  <2>2a. PICK s \in segs : \E n \in Live(s) : p = <<s.id, n>>
    BY PlacesAre
  <2>2. PICK n \in Live(s) : p = <<s.id, n>>
    BY <2>2a
  <2> QED
    BY <2>1, <2>2, DocIs DEF Holds
<1>2. ASSUME Holds(segs, d) PROVE d \in Content(segs)
  <2>1a. PICK s \in segs : \E n \in Live(s) : d = s.docs[n]
    BY <1>2 DEF Holds
  <2>1. PICK n \in Live(s) : d = s.docs[n]
    BY <2>1a
  <2>2. <<s.id, n>> \in Places(segs) /\ DocAt(segs, <<s.id, n>>) = d
    BY <2>1, PlacesAre, DocIs
  <2> QED
    BY <2>2 DEF Content
<1> QED
  BY <1>1, <1>2

\* Two sets of segments that hold the same documents have the same content.
LEMMA SameContent ==
  ASSUME NEW a, NEW b, UniqueIds(a), UniqueIds(b), \A d : Holds(a, d) <=> Holds(b, d)
  PROVE  Content(a) = Content(b)
<1>1. \A d : d \in Content(a) <=> d \in Content(b)
  BY ContentIs
<1> QED
  BY <1>1

\* A part of a sound set is sound.
LEMMA PartIsSound ==
  ASSUME NEW segs, Sound(segs), NEW part \in SUBSET segs
  PROVE  Sound(part)
<1>1. IsFiniteSet(part)
  BY FS_Subset DEF Sound
<1> QED
  BY <1>1 DEF Sound, UniqueIds, OneLive

\* No segments, no documents.
LEMMA NothingIsSound == Sound({}) /\ Content({}) = {}
  BY FS_EmptySet DEF Sound, UniqueIds, OneLive, Content, Places

\* OneLiveDocument is what soundness says.
LEMMA SoundIsOneLive ==
  ASSUME NEW segs, Sound(segs), NEW p \in Places(segs), NEW q \in Places(segs),
         DocAt(segs, p)[1] = DocAt(segs, q)[1]
  PROVE  p = q
<1>1a. PICK s \in segs : \E n \in Live(s) : p = <<s.id, n>>
  BY PlacesAre
<1>1. PICK n \in Live(s) : p = <<s.id, n>>
  BY <1>1a
<1>2a. PICK t \in segs : \E m \in Live(t) : q = <<t.id, m>>
  BY PlacesAre
<1>2. PICK m \in Live(t) : q = <<t.id, m>>
  BY <1>2a
<1>3. DocAt(segs, p) = s.docs[n] /\ DocAt(segs, q) = t.docs[m]
  BY <1>1, <1>2, DocIs DEF Sound
<1> QED
  BY <1>1, <1>2, <1>3 DEF Sound, OneLive

-----------------------------------------------------------------------------
(* Persisting *)

\* What WithPersisted makes of one segment.
Kept(s, ids) == IF s.id \in ids THEN [s EXCEPT !.persisted = TRUE] ELSE s

LEMMA KeptIs ==
  ASSUME NEW s \in SegmentSnapshots, NEW ids
  PROVE  /\ Kept(s, ids) \in SegmentSnapshots
         /\ Kept(s, ids).id = s.id
         /\ Kept(s, ids).docs = s.docs
         /\ Kept(s, ids).deleted = s.deleted
         /\ Kept(s, ids).persisted <=> (s.persisted \/ s.id \in ids)
         /\ Live(Kept(s, ids)) = Live(s)
  BY DEF Kept, SegmentSnapshots, Live

LEMMA WithPersistedIs ==
  ASSUME NEW segs, NEW ids
  PROVE  WithPersisted(segs, ids) = {Kept(s, ids) : s \in segs}
  BY DEF WithPersisted, Kept

\* introducePersist changes neither what is live nor the documents.
LEMMA PersistedKeeps ==
  ASSUME NEW segs, Sound(segs), NEW ids
  PROVE  /\ Sound(WithPersisted(segs, ids))
         /\ Content(WithPersisted(segs, ids)) = Content(segs)
<1> DEFINE new == WithPersisted(segs, ids)
<1>1. segs \subseteq SegmentSnapshots /\ IsFiniteSet(segs) /\ UniqueIds(segs) /\ OneLive(segs)
  BY DEF Sound
<1>2. new = {Kept(s, ids) : s \in segs}
  BY WithPersistedIs
<1> HIDE DEF new
<1>3. IsFiniteSet(new)
  <2> DEFINE f == [s \in segs |-> Kept(s, ids)]
  <2>1. f \in Surjection(segs, new)
    BY <1>2 DEF Surjection
  <2> QED
    BY <1>1, <2>1, FS_Surjection
<1>4. \A k \in new : k \in SegmentSnapshots /\ Live(k) # {}
  BY <1>1, <1>2, KeptIs DEF Sound
<1>5. UniqueIds(new)
  BY <1>1, <1>2, KeptIs DEF UniqueIds
<1>6. OneLive(new)
  <2> SUFFICES ASSUME NEW s \in segs, NEW t \in segs,
                      NEW m \in Live(Kept(s, ids)), NEW n \in Live(Kept(t, ids)),
                      Kept(s, ids).docs[m][1] = Kept(t, ids).docs[n][1]
               PROVE  Kept(s, ids) = Kept(t, ids) /\ m = n
    BY <1>2 DEF OneLive
  <2>1. m \in Live(s) /\ n \in Live(t) /\ s.docs[m][1] = t.docs[n][1]
    BY <1>1, KeptIs
  <2> QED
    BY <1>1, <2>1 DEF OneLive
<1>7. Sound(new)
  BY <1>3, <1>4, <1>5, <1>6 DEF Sound
<1>8. \A d : Holds(new, d) <=> Holds(segs, d)
  <2>1. \A s \in segs : \A n : \A d : n \in Live(s) /\ d = s.docs[n]
                                 <=> n \in Live(Kept(s, ids)) /\ d = Kept(s, ids).docs[n]
    BY <1>1, KeptIs
  <2>2. ASSUME NEW d, Holds(new, d) PROVE Holds(segs, d)
    <3>1. PICK t \in new : \E n \in Live(t) : d = t.docs[n]
      BY <2>2 DEF Holds
    <3>2. PICK s \in segs : t = Kept(s, ids)
      BY <1>2
    <3> QED
      BY <2>1, <3>1, <3>2 DEF Holds
  <2>3. ASSUME NEW d, Holds(segs, d) PROVE Holds(new, d)
    <3>1. PICK s \in segs : \E n \in Live(s) : d = s.docs[n]
      BY <2>3 DEF Holds
    <3>2. Kept(s, ids) \in new
      BY <1>2
    <3> QED
      BY <2>1, <3>1, <3>2 DEF Holds
  <2> QED
    BY <2>2, <2>3
<1> QED
  BY <1>1, <1>5, <1>7, <1>8, SameContent DEF new

-----------------------------------------------------------------------------
(* Batches *)

\* What a batch makes of one segment when the lookup saw what is in it.
Obsoleting(s, terms) == [s EXCEPT !.deleted = @ \cup DocsMatching(s, terms)]

LEMMA ObsoletingIs ==
  ASSUME NEW s \in SegmentSnapshots, NEW terms
  PROVE  /\ Obsoleting(s, terms) \in SegmentSnapshots
         /\ Obsoleting(s, terms).id = s.id
         /\ Obsoleting(s, terms).docs = s.docs
         /\ Obsoleting(s, terms).persisted = s.persisted
         /\ s.deleted \subseteq Obsoleting(s, terms).deleted
         /\ \A n : n \in Live(Obsoleting(s, terms)) <=> n \in Live(s) /\ s.docs[n][1] \notin terms
<1>1. DOMAIN s.docs \subseteq Nat /\ DocsMatching(s, terms) \subseteq DOMAIN s.docs
  BY DEF SegmentSnapshots, DocsMatching
<1> QED
  BY <1>1 DEF Obsoleting, SegmentSnapshots, Live, DocsMatching

\* A batch worked out its obsoletes from these documents.
SeesWhatIs(in, segs) ==
  \A s \in segs : s.id \in DOMAIN in.obsoletes => in.obsoletes[s.id] = DocsMatching(s, in.terms)

LEMMA WithBatchIs ==
  ASSUME NEW segs, NEW in, NEW new, SeesWhatIs(in, segs)
  PROVE  WithBatch(segs, in, new) =
           {t \in {Obsoleting(s, in.terms) : s \in segs} : Live(t) # {}} \cup new
  BY DEF WithBatch, NonEmpty, Obsoleting, SeesWhatIs

\* The segment of a batch has its documents, each once.
LEMMA NewSegmentIs ==
  ASSUME NEW in, in.id \in Nat, in.upd \subseteq Keys, IsFiniteSet(in.upd), NEW n \in Nat,
         NEW s \in NewSegment(in, n)
  PROVE  /\ s \in SegmentSnapshots /\ s.id = in.id /\ ~s.persisted /\ Live(s) # {}
         /\ \A k \in Live(s) : s.docs[k][1] \in in.upd
         /\ \A k, m \in Live(s) : s.docs[k][1] = s.docs[m][1] => k = m
         /\ NewSegment(in, n) = {s}
<1> DEFINE docs == in.upd \X {n}
<1>1. in.upd # {} /\ s = [id |-> in.id, docs |-> SetToSeq(docs), deleted |-> {}, persisted |-> FALSE]
      /\ NewSegment(in, n) = {s}
  BY DEF NewSegment
<1>2. IsFiniteSet(docs) /\ docs # {}
  <2>1. IsFiniteSet({n})
    BY FS_Singleton
  <2>2. IsFiniteSet(docs)
    BY <2>1, FS_Product
  <2>3. \A u \in in.upd : <<u, n>> \in docs
    OBVIOUS
  <2> QED
    BY <1>1, <2>2, <2>3
<1>3. Cardinality(docs) \in Nat /\ Cardinality(docs) # 0
  BY <1>2, FS_CardinalityType, FS_EmptySet
<1>4. /\ SetToSeq(docs) \in [1 .. Cardinality(docs) -> docs]
      /\ \A k, m \in 1 .. Cardinality(docs) : SetToSeq(docs)[k] = SetToSeq(docs)[m] => k = m
  <2>1. ExistsBijection(1 .. Cardinality(docs), docs)
    BY <1>2, FS_CardinalityType
  <2> QED
    BY <2>1 DEF SetToSeq, IsInjective, ExistsBijection, Bijection, Injection
<1> HIDE DEF docs
<1>5. docs \subseteq Keys \X Nat /\ (\A d \in docs : d[1] \in in.upd)
      /\ (\A d, e \in docs : d[1] = e[1] => d = e)
  BY DEF docs
<1>6. SetToSeq(docs) \in Seq(Keys \X Nat) /\ DOMAIN SetToSeq(docs) = 1 .. Cardinality(docs)
  BY <1>3, <1>4, <1>5
<1>7. Live(s) = 1 .. Cardinality(docs) /\ s.docs = SetToSeq(docs)
  BY <1>1, <1>6 DEF Live
<1>8. s \in SegmentSnapshots /\ s.id = in.id /\ ~s.persisted
  BY <1>1, <1>6 DEF SegmentSnapshots
<1>9. Live(s) # {}
  BY <1>3, <1>7
<1>10. \A k \in Live(s) : s.docs[k] \in docs
  BY <1>4, <1>7
<1>11. \A k \in Live(s) : s.docs[k][1] \in in.upd
  BY <1>5, <1>10
<1>12. \A k, m \in Live(s) : s.docs[k][1] = s.docs[m][1] => k = m
  <2>1. \A k, m \in Live(s) : s.docs[k] = s.docs[m] => k = m
    BY <1>4, <1>7
  <2> QED
    BY <1>5, <1>10, <2>1
<1> QED
  BY <1>1, <1>8, <1>9, <1>11, <1>12

\* introduceSegment leaves no identifier live twice.
LEMMA BatchIsSound ==
  ASSUME NEW segs, Sound(segs), NEW in, NEW n \in Nat,
         in.id \in Nat, in.upd \subseteq Keys, IsFiniteSet(in.upd), in.upd \subseteq in.terms,
         SeesWhatIs(in, segs), in.id \notin Ids(segs)
  PROVE  Sound(WithBatch(segs, in, NewSegment(in, n)))
<1> DEFINE old  == {Obsoleting(s, in.terms) : s \in segs}
           kept == {t \in old : Live(t) # {}}
           new  == NewSegment(in, n)
<1>1. WithBatch(segs, in, new) = kept \cup new
  BY WithBatchIs
<1>2. segs \subseteq SegmentSnapshots /\ IsFiniteSet(segs) /\ UniqueIds(segs) /\ OneLive(segs)
  BY DEF Sound
<1>3. IsFiniteSet(kept \cup new)
  <2> DEFINE f == [s \in segs |-> Obsoleting(s, in.terms)]
  <2>1. f \in Surjection(segs, old)
    BY DEF Surjection
  <2>2. IsFiniteSet(kept)
    BY <1>2, <2>1, FS_Surjection, FS_Subset
  <2>3. IsFiniteSet(new)
    BY FS_EmptySet, FS_Singleton DEF NewSegment
  <2> QED
    BY <2>2, <2>3, FS_Union
<1>4. \A t \in kept : \E s \in segs : t = Obsoleting(s, in.terms)
  OBVIOUS
<1> HIDE DEF new
<1>5. \A t \in new : /\ t \in SegmentSnapshots /\ t.id = in.id /\ Live(t) # {}
                     /\ \A k \in Live(t) : t.docs[k][1] \in in.terms
                     /\ \A k, m \in Live(t) : t.docs[k][1] = t.docs[m][1] => k = m
                     /\ new = {t}
  BY NewSegmentIs DEF new
<1>6. \A t \in kept : /\ t \in SegmentSnapshots /\ t.id # in.id /\ Live(t) # {}
                      /\ \A k \in Live(t) : t.docs[k][1] \notin in.terms
  BY <1>2, <1>4, ObsoletingIs DEF Ids
<1>7. UniqueIds(kept)
  BY <1>2, <1>4, ObsoletingIs DEF UniqueIds
<1>8. OneLive(kept)
  <2> SUFFICES ASSUME NEW s \in segs, NEW t \in segs,
                      NEW k \in Live(Obsoleting(s, in.terms)), NEW m \in Live(Obsoleting(t, in.terms)),
                      Obsoleting(s, in.terms).docs[k][1] = Obsoleting(t, in.terms).docs[m][1]
               PROVE  Obsoleting(s, in.terms) = Obsoleting(t, in.terms) /\ k = m
    BY <1>4 DEF OneLive
  <2>1. k \in Live(s) /\ m \in Live(t) /\ s.docs[k][1] = t.docs[m][1]
    BY <1>2, ObsoletingIs
  <2> QED
    BY <1>2, <2>1 DEF OneLive
<1> HIDE DEF kept
<1>9. UniqueIds(kept \cup new)
  BY <1>5, <1>6, <1>7 DEF UniqueIds
<1>10. OneLive(kept \cup new)
  <2> SUFFICES ASSUME NEW s \in kept \cup new, NEW t \in kept \cup new,
                      NEW k \in Live(s), NEW m \in Live(t), s.docs[k][1] = t.docs[m][1]
               PROVE  s = t /\ k = m
    BY DEF OneLive
  <2>1. CASE s \in kept /\ t \in kept
    BY <1>8, <2>1 DEF OneLive
  <2>2. CASE s \in new /\ t \in new
    BY <1>5, <2>2
  <2>3. ~(s \in kept /\ t \in new)
    BY <1>5, <1>6
  <2>4. ~(s \in new /\ t \in kept)
    BY <1>5, <1>6
  <2> QED
    BY <2>1, <2>2, <2>3, <2>4
<1>11. kept \cup new \subseteq SegmentSnapshots /\ \A t \in kept \cup new : Live(t) # {}
  BY <1>5, <1>6
<1> QED
  BY <1>1, <1>3, <1>9, <1>10, <1>11 DEF Sound, new

-----------------------------------------------------------------------------
(* Merges *)

\* The order in which a merge numbers the documents it copies.
NotAfter(p, q) == p[1] < q[1] \/ (p[1] = q[1] /\ p[2] <= q[2])

Rank(S) == [p \in S |-> Cardinality({q \in S : NotAfter(q, p)})]

\* The new numbers run from 1 to the number of documents and none comes twice.
LEMMA RankIsBijection ==
  ASSUME NEW S \in SUBSET (Nat \X Nat), IsFiniteSet(S)
  PROVE  Rank(S) \in Bijection(S, 1 .. Cardinality(S))
<1> DEFINE below(p) == {q \in S : NotAfter(q, p)}
<1>1. \A p \in S : /\ IsFiniteSet(below(p)) /\ Cardinality(below(p)) <= Cardinality(S)
                   /\ Cardinality(below(p)) \in Nat /\ p \in below(p)
  <2> TAKE p \in S
  <2>1. below(p) \in SUBSET S
    OBVIOUS
  <2>2. IsFiniteSet(below(p)) /\ Cardinality(below(p)) <= Cardinality(S)
    BY <2>1, FS_Subset
  <2>3. p \in below(p)
    BY DEF NotAfter
  <2> QED
    BY <2>2, <2>3, FS_CardinalityType
<1>2. Cardinality(S) \in Nat
  BY FS_CardinalityType
<1>3. \A p \in S : Rank(S)[p] \in 1 .. Cardinality(S)
  <2> TAKE p \in S
  <2>1. Cardinality(below(p)) # 0
    BY <1>1, FS_EmptySet
  <2> QED
    BY <1>1, <1>2, <2>1 DEF Rank
<1>4. ASSUME NEW p \in S, NEW q \in S, NotAfter(p, q), p # q
      PROVE  Cardinality(below(p)) # Cardinality(below(q))
  <2>1. below(p) \in SUBSET below(q)
    BY <1>4 DEF NotAfter
  <2>2. q \notin below(p)
    BY <1>4 DEF NotAfter
  <2>3. below(p) # below(q)
    BY <1>1, <2>2
  <2> HIDE DEF below
  <2> QED
    BY <1>1, <2>1, <2>3, FS_Subset
<1>5. ASSUME NEW p \in S, NEW q \in S, p # q
      PROVE  Rank(S)[p] # Rank(S)[q]
  <2>1. NotAfter(p, q) \/ NotAfter(q, p)
    BY DEF NotAfter
  <2>2. Rank(S)[p] = Cardinality(below(p)) /\ Rank(S)[q] = Cardinality(below(q))
    BY DEF Rank
  <2> QED
    BY <1>4, <1>5, <2>1, <2>2
<1>6. Rank(S) \in Injection(S, 1 .. Cardinality(S))
  <2>1. Rank(S) = [p \in S |-> Rank(S)[p]]
    BY DEF Rank
  <2>2. Rank(S) \in [S -> 1 .. Cardinality(S)]
    BY <1>3, <2>1
  <2> QED
    BY <1>5, <2>2 DEF Injection, IsInjective
<1>7. IsFiniteSet(1 .. Cardinality(S)) /\ Cardinality(1 .. Cardinality(S)) = Cardinality(S)
  BY <1>2, FS_Interval
<1> QED
  BY <1>6, <1>7, FS_Injection DEF Bijection

\* A merge as Merge makes it: the live documents of old, each once.
IsMerge(m) ==
  /\ Sound(m.old)
  /\ m.docs \in Seq(Keys \X Nat)
  /\ m.num \in Bijection(Places(m.old), DOMAIN m.docs)
  /\ \A s \in m.old : \A n \in Live(s) : m.docs[m.num[<<s.id, n>>]] = s.docs[n]

\* The places of sound segments can be counted.
LEMMA PlacesAreFinite ==
  ASSUME NEW segs, Sound(segs)
  PROVE  IsFiniteSet(Places(segs)) /\ Places(segs) \in SUBSET (Nat \X Nat)
<1>1. \A s \in segs : s.id \in Nat /\ Live(s) \subseteq Nat /\ IsFiniteSet(Live(s))
  <2> TAKE s \in segs
  <2>1. s.id \in Nat /\ s.docs \in Seq(Keys \X Nat)
    BY DEF Sound, SegmentSnapshots
  <2>2. Len(s.docs) \in Nat /\ DOMAIN s.docs = 1 .. Len(s.docs)
    BY <2>1
  <2>3. Live(s) \in SUBSET (1 .. Len(s.docs))
    BY <2>2 DEF Live
  <2>4. IsFiniteSet(1 .. Len(s.docs))
    BY <2>2, FS_Interval
  <2> QED
    BY <2>1, <2>3, <2>4, FS_Subset
<1> DEFINE f == [s \in segs |-> {s.id} \X Live(s)]
           parts == {{s.id} \X Live(s) : s \in segs}
<1>2. IsFiniteSet(parts)
  <2>1. f \in Surjection(segs, parts)
    BY DEF Surjection
  <2>2. IsFiniteSet(segs)
    BY DEF Sound
  <2> HIDE DEF f, parts
  <2> QED
    BY <2>1, <2>2, FS_Surjection
<1>3. \A p \in parts : IsFiniteSet(p)
  <2> SUFFICES ASSUME NEW s \in segs PROVE IsFiniteSet({s.id} \X Live(s))
    OBVIOUS
  <2>1. IsFiniteSet({s.id}) /\ IsFiniteSet(Live(s))
    BY <1>1, FS_Singleton
  <2> QED
    BY <2>1, FS_Product
<1>4. IsFiniteSet(UNION parts)
  <2> HIDE DEF parts
  <2> QED
    BY <1>2, <1>3, FS_UNION
<1>5. Places(segs) \in SUBSET (Nat \X Nat)
  BY <1>1 DEF Places
<1> QED
  BY <1>4, <1>5 DEF Places

\* Merge copies every live document and nothing else (merge.go, the segment plugin's merger).
LEMMA MergeIs ==
  ASSUME NEW id, NEW old, Sound(old)
  PROVE  /\ IsMerge(Merge(id, old))
         /\ Merge(id, old).id = id /\ Merge(id, old).old = old
<1> DEFINE m == Merge(id, old)
           S == Places(old)
           N == Cardinality(S)
<1>1. IsFiniteSet(S) /\ S \in SUBSET (Nat \X Nat) /\ N \in Nat
  BY PlacesAreFinite, FS_CardinalityType
<1>2. Rank(S) \in Bijection(S, 1 .. N)
  BY <1>1, RankIsBijection
<1>3. /\ m.id = id /\ m.old = old /\ m.num = Rank(S)
      /\ m.docs = [k \in 1 .. N |-> DocAt(old, CHOOSE p \in S : Rank(S)[p] = k)]
  BY DEF Merge, Rank, NotAfter
<1> HIDE DEF m
<1>4. \A s \in old : \A n \in Live(s) : <<s.id, n>> \in S /\ DocAt(old, <<s.id, n>>) = s.docs[n]
  BY PlacesAre, DocIs DEF Sound
<1>5. \A p \in S : DocAt(old, p) \in Keys \X Nat
  <2> TAKE p \in S
  <2>1. PICK s \in old : \E n \in Live(s) : p = <<s.id, n>>
    BY PlacesAre
  <2>2. PICK n \in Live(s) : p = <<s.id, n>>
    BY <2>1
  <2>3. s.docs \in Seq(Keys \X Nat) /\ n \in DOMAIN s.docs
    BY DEF Sound, SegmentSnapshots, Live
  <2> QED
    BY <1>4, <2>2, <2>3
<1> HIDE DEF S
<1>6. \A p \in S : Rank(S)[p] \in 1 .. N /\ (CHOOSE q \in S : Rank(S)[q] = Rank(S)[p]) = p
  BY <1>2 DEF Bijection, Injection, IsInjective
<1>7. \A k \in 1 .. N : (CHOOSE q \in S : Rank(S)[q] = k) \in S
  BY <1>2 DEF Bijection, Surjection
<1>8. \A k \in 1 .. N : m.docs[k] \in Keys \X Nat
  BY <1>3, <1>5, <1>7
<1> HIDE DEF N
<1>9. m.docs \in [1 .. N -> Keys \X Nat] /\ DOMAIN m.docs = 1 .. N
  BY <1>3, <1>8
<1>10. m.docs \in Seq(Keys \X Nat)
  BY <1>1, <1>9 DEF N
<1>11. \A p \in S : m.docs[Rank(S)[p]] = DocAt(old, p)
  BY <1>3, <1>6
<1> QED
  BY <1>2, <1>3, <1>4, <1>9, <1>10, <1>11 DEF IsMerge, m, S

\* The merge is of segments the set has or had, with what was deleted since or less.
Follows(segs, m) ==
  \A o \in m.old, s \in segs : o.id = s.id => o.docs = s.docs /\ o.deleted \subseteq s.deleted

Gone(segs, m) == DeletedSince(segs, m) \cup Vanished(segs, m)

\* What is live in the merged segment is what is live in the segments it replaces.
LEMMA MergedIs ==
  ASSUME NEW segs, Sound(segs), NEW m, IsMerge(m), Follows(segs, m)
  PROVE  /\ Gone(segs, m) \subseteq DOMAIN m.docs
         /\ \A k \in DOMAIN m.docs \ Gone(segs, m) :
              \E s \in segs : s.id \in Ids(m.old) /\ \E n \in Live(s) : k = m.num[<<s.id, n>>]
         /\ \A s \in segs : s.id \in Ids(m.old) => \A n \in Live(s) :
              /\ m.num[<<s.id, n>>] \in DOMAIN m.docs \ Gone(segs, m)
              /\ m.docs[m.num[<<s.id, n>>]] = s.docs[n]
<1> DEFINE S == Places(m.old)
<1>1. /\ \A p \in S : m.num[p] \in DOMAIN m.docs
      /\ \A p, q \in S : m.num[p] = m.num[q] => p = q
      /\ \A k \in DOMAIN m.docs : \E p \in S : k = m.num[p]
      /\ DOMAIN m.num = S
  BY DEF IsMerge, Bijection, Injection, Surjection, IsInjective
<1>2. \A k : k \in Gone(segs, m) <=>
        \E q \in S : /\ k = m.num[q]
                     /\ \/ \E s \in segs : s.id = q[1] /\ q[2] \in s.deleted
                        \/ q[1] \notin Ids(segs)
  BY <1>1 DEF Gone, DeletedSince, Vanished
<1>3. \A p \in S : m.num[p] \in Gone(segs, m) <=>
        (\E s \in segs : s.id = p[1] /\ p[2] \in s.deleted) \/ p[1] \notin Ids(segs)
  BY <1>1, <1>2
<1>4. ASSUME NEW s \in segs, s.id \in Ids(m.old), NEW n \in Live(s)
      PROVE  /\ m.num[<<s.id, n>>] \in DOMAIN m.docs \ Gone(segs, m)
             /\ m.docs[m.num[<<s.id, n>>]] = s.docs[n]
  <2>1. PICK o \in m.old : o.id = s.id
    BY <1>4 DEF Ids
  <2>2. o.docs = s.docs /\ n \in Live(o)
    BY <2>1 DEF Follows, Live
  <2>3. <<s.id, n>> \in S
    BY <2>1, <2>2, PlacesAre
  <2>4. \A t \in segs : t.id = s.id => t = s
    BY DEF Sound, UniqueIds
  <2>5. m.num[<<s.id, n>>] \notin Gone(segs, m)
    BY <1>3, <2>3, <2>4 DEF Live, Ids
  <2> QED
    BY <1>1, <2>1, <2>2, <2>3, <2>5 DEF IsMerge
<1>5. ASSUME NEW k \in DOMAIN m.docs \ Gone(segs, m)
      PROVE  \E s \in segs : s.id \in Ids(m.old) /\ \E n \in Live(s) : k = m.num[<<s.id, n>>]
  <2>1. PICK p \in S : k = m.num[p]
    BY <1>1
  <2>2. PICK o \in m.old : \E n \in Live(o) : p = <<o.id, n>>
    BY PlacesAre
  <2>3. PICK n \in Live(o) : p = <<o.id, n>>
    BY <2>2
  <2>4. PICK s \in segs : s.id = o.id /\ n \notin s.deleted
    BY <1>3, <2>1, <2>3 DEF Ids
  <2>5. n \in Live(s)
    BY <2>4 DEF Follows, Live
  <2> QED
    BY <2>1, <2>3, <2>4, <2>5 DEF Ids
<1>6. Gone(segs, m) \subseteq DOMAIN m.docs
  BY <1>1, <1>2
<1> QED
  BY <1>4, <1>5, <1>6

\* The segment that a merge brings.
Whole(m, deleted) == [id |-> m.id, docs |-> m.docs, deleted |-> deleted, persisted |-> TRUE]

\* It comes in when something of it is live.
LEMMA MergedComes ==
  ASSUME NEW segs, Sound(segs), NEW m, IsMerge(m), Follows(segs, m)
  PROVE  Merged(segs, m) = IF Live(Whole(m, Gone(segs, m))) # {} THEN {Whole(m, Gone(segs, m))} ELSE {}
<1> DEFINE N == Len(m.docs)
           gone == Gone(segs, m)
<1>1. N \in Nat /\ DOMAIN m.docs = 1 .. N
  BY DEF IsMerge
<1>2. gone \in SUBSET (1 .. N)
  BY <1>1, MergedIs
<1>3. Merged(segs, m) = IF N > Cardinality(gone) THEN {Whole(m, gone)} ELSE {}
  BY DEF Merged, Gone, Whole
<1>4. Live(Whole(m, gone)) = (1 .. N) \ gone
  BY <1>1 DEF Live, Whole
<1> HIDE DEF gone
<1>5. /\ IsFiniteSet(1 .. N) /\ Cardinality(1 .. N) = N
      /\ Cardinality(gone) <= N /\ (Cardinality(gone) = N => gone = 1 .. N)
      /\ Cardinality(gone) \in Nat
  <2>1. IsFiniteSet(1 .. N) /\ Cardinality(1 .. N) = N
    BY <1>1, FS_Interval
  <2>2. IsFiniteSet(gone) /\ Cardinality(gone) <= N /\ (N = Cardinality(gone) => gone = 1 .. N)
    BY <1>2, <2>1, FS_Subset
  <2> QED
    BY <2>1, <2>2, FS_CardinalityType
<1>6. N > Cardinality(gone) <=> (1 .. N) \ gone # {}
  <2>1. N = Cardinality(gone) <=> gone = 1 .. N
    BY <1>5
  <2>2. gone = 1 .. N <=> (1 .. N) \ gone = {}
    BY <1>2
  <2> QED
    BY <1>1, <1>5, <2>1, <2>2
<1> QED
  BY <1>3, <1>4, <1>6 DEF gone

\* introduceMerge stores the documents another way and changes none of them.
LEMMA MergeKeeps ==
  ASSUME NEW segs, Sound(segs), NEW m, IsMerge(m), Follows(segs, m),
         m.id \in Nat, m.id \notin Ids(segs)
  PROVE  /\ Sound(WithMerge(segs, m))
         /\ Content(WithMerge(segs, m)) = Content(segs)
<1> DEFINE new  == Whole(m, Gone(segs, m))
           rest == {s \in segs : s.id \notin Ids(m.old)}
           all  == WithMerge(segs, m)
<1>1. all = rest \cup Merged(segs, m)
  BY DEF WithMerge, NonEmpty, Sound
<1>2. \A t : t \in all <=> t \in rest \/ (t = new /\ Live(new) # {})
  BY <1>1, MergedComes
<1>3. Sound(rest) /\ \A s \in rest : s.id # m.id /\ s.id \notin Ids(m.old)
  BY PartIsSound DEF Ids
<1>4. /\ new.id = m.id /\ new.docs = m.docs /\ new \in SegmentSnapshots
      /\ Live(new) = DOMAIN m.docs \ Gone(segs, m)
  <2>1. Gone(segs, m) \subseteq DOMAIN m.docs
    BY MergedIs
  <2>2. m.docs \in Seq(Keys \X Nat) /\ DOMAIN m.docs \subseteq Nat
    BY DEF IsMerge
  <2> QED
    BY <2>1, <2>2 DEF Whole, SegmentSnapshots, Live
<1>5. \A k \in Live(new) : \E s \in segs : /\ s.id \in Ids(m.old)
        /\ \E n \in Live(s) : k = m.num[<<s.id, n>>] /\ new.docs[k] = s.docs[n]
  BY <1>4, MergedIs
<1>6. \A s \in segs : s.id \in Ids(m.old) => \A n \in Live(s) :
        /\ m.num[<<s.id, n>>] \in Live(new)
        /\ new.docs[m.num[<<s.id, n>>]] = s.docs[n]
  BY <1>4, MergedIs
<1> HIDE DEF new, rest, all
<1>7. IsFiniteSet(all)
  <2>1. all = rest \/ all = rest \cup {new}
    BY <1>2
  <2> QED
    BY <1>3, <2>1, FS_AddElement DEF Sound
<1>8. UniqueIds(all)
  BY <1>2, <1>3, <1>4 DEF UniqueIds, Sound
<1>9. ASSUME NEW k \in Live(new), NEW t \in rest, NEW n \in Live(t), new.docs[k][1] = t.docs[n][1]
      PROVE  FALSE
  <2>1. PICK s \in segs : s.id \in Ids(m.old) /\ \E i \in Live(s) : new.docs[k] = s.docs[i]
    BY <1>5
  <2>2. s = t
    BY <1>9, <2>1 DEF rest, Sound, OneLive
  <2> QED
    BY <1>3, <2>1, <2>2
<1>10. ASSUME NEW k \in Live(new), NEW l \in Live(new), new.docs[k][1] = new.docs[l][1]
       PROVE  k = l
  <2>1. PICK s \in segs : /\ s.id \in Ids(m.old)
          /\ \E i \in Live(s) : k = m.num[<<s.id, i>>] /\ new.docs[k] = s.docs[i]
    BY <1>5
  <2>2. PICK t \in segs : /\ t.id \in Ids(m.old)
          /\ \E i \in Live(t) : l = m.num[<<t.id, i>>] /\ new.docs[l] = t.docs[i]
    BY <1>5
  <2> QED
    BY <1>10, <2>1, <2>2 DEF Sound, OneLive
<1>11. OneLive(all)
  <2> SUFFICES ASSUME NEW s \in all, NEW t \in all, NEW k \in Live(s), NEW n \in Live(t),
                      s.docs[k][1] = t.docs[n][1]
               PROVE  s = t /\ k = n
    BY DEF OneLive
  <2>1. CASE s \in rest /\ t \in rest
    BY <1>3, <2>1 DEF Sound, OneLive
  <2>2. CASE s = new /\ t = new
    BY <1>10, <2>2
  <2>3. CASE s = new /\ t \in rest
    BY <1>9, <2>3
  <2>4. CASE s \in rest /\ t = new
    BY <1>9, <2>4
  <2> QED
    BY <1>2, <2>1, <2>2, <2>3, <2>4
<1>12. Sound(all)
  BY <1>2, <1>3, <1>4, <1>7, <1>8, <1>11 DEF Sound
<1>13. ASSUME NEW d, Holds(segs, d) PROVE Holds(all, d)
  <2>1. PICK s \in segs : \E n \in Live(s) : d = s.docs[n]
    BY <1>13 DEF Holds
  <2>2. CASE s.id \in Ids(m.old)
    <3>1. new \in all /\ \E k \in Live(new) : d = new.docs[k]
      BY <1>2, <1>6, <2>1, <2>2
    <3> QED
      BY <3>1 DEF Holds
  <2>3. CASE s.id \notin Ids(m.old)
    <3>1. s \in all
      BY <1>2, <2>3 DEF rest
    <3> QED
      BY <2>1, <3>1 DEF Holds
  <2> QED
    BY <2>2, <2>3
<1>14. ASSUME NEW d, Holds(all, d) PROVE Holds(segs, d)
  <2>1. PICK t \in all : \E n \in Live(t) : d = t.docs[n]
    BY <1>14 DEF Holds
  <2>2. CASE t \in rest
    BY <2>1, <2>2 DEF rest, Holds
  <2>3. CASE t = new
    <3>1. PICK k \in Live(new) : d = new.docs[k]
      BY <2>1, <2>3
    <3>2. PICK s \in segs : \E n \in Live(s) : new.docs[k] = s.docs[n]
      BY <1>5
    <3> QED
      BY <3>1, <3>2 DEF Holds
  <2> QED
    BY <1>2, <2>2, <2>3
<1>15. Content(all) = Content(segs)
  BY <1>8, <1>13, <1>14, SameContent DEF Sound
<1> QED
  BY <1>12, <1>15 DEF all

\* The equivalent snapshot of persistSnapshotMaybeMerge: the persisted segments and the
\* merge of all the others.
LEMMA EquivalentKeeps ==
  ASSUME NEW segs, Sound(segs), NEW m, IsMerge(m), m.old = Unpersisted(segs), m.old # {},
         m.id \in Nat, m.id \notin Ids(segs)
  PROVE  /\ Sound({s \in segs : s.persisted} \cup {Whole(m, {})})
         /\ Content({s \in segs : s.persisted} \cup {Whole(m, {})}) = Content(segs)
<1>1. \A s, t \in segs : s.id = t.id => s = t
  BY DEF Sound, UniqueIds
<1>2. Follows(segs, m)
  BY <1>1 DEF Follows, Unpersisted
<1>3. Gone(segs, m) = {}
  <2>1. ASSUME NEW q \in DOMAIN m.num
        PROVE  q[1] \in Ids(segs) /\ ~\E s \in segs : s.id = q[1] /\ q[2] \in s.deleted
    <3>1. q \in Places(m.old)
      BY DEF IsMerge, Bijection, Injection
    <3>2. PICK o \in m.old : \E n \in Live(o) : q = <<o.id, n>>
      BY <3>1, PlacesAre
    <3> QED
      BY <1>1, <3>2 DEF Unpersisted, Live, Ids
  <2> QED
    BY <2>1 DEF Gone, DeletedSince, Vanished
<1>4. Live(Whole(m, {})) # {}
  <2>1. PICK o \in m.old : TRUE
    OBVIOUS
  <2>2. PICK n \in Live(o) : TRUE
    BY DEF IsMerge, Sound
  <2>3. <<o.id, n>> \in Places(m.old)
    BY PlacesAre
  <2>4. m.num[<<o.id, n>>] \in DOMAIN m.docs
    BY <2>3 DEF IsMerge, Bijection, Injection
  <2> QED
    BY <2>4 DEF Whole, Live
<1>5. Merged(segs, m) = {Whole(m, {})}
  BY <1>2, <1>3, <1>4, MergedComes
<1>6. NonEmpty({s \in segs : s.id \notin Ids(m.old)}) = {s \in segs : s.persisted}
  <2>1. \A s \in segs : s.id \in Ids(m.old) <=> ~s.persisted
    BY <1>1 DEF Ids, Unpersisted
  <2> QED
    BY <2>1 DEF NonEmpty, Sound
<1>7. WithMerge(segs, m) = {s \in segs : s.persisted} \cup {Whole(m, {})}
  BY <1>5, <1>6 DEF WithMerge
<1> QED
  BY <1>2, <1>7, MergeKeeps

-----------------------------------------------------------------------------
(* Numbers *)

\* Every set of numbers has a least one, and a greatest one when it is bounded.
LEMMA LeastOf ==
  ASSUME NEW S \in SUBSET Nat, S # {}
  PROVE  \E n \in S : \A i \in S : n <= i
<1> DEFINE R == {ss \in Nat \X Nat : ss[1] < ss[2]}
<1>1. IsWellFoundedOn(R, Nat)
  BY NatLessThanWellFounded DEF OpToRel
<1>2. \A i, n \in Nat : i < n => <<i, n>> \in R
  OBVIOUS
<1> HIDE DEF R
<1>3. PICK n \in S : \A i \in S : <<i, n>> \notin R
  BY <1>1, WFMin
<1>4. \A i \in S : i \in Nat /\ ~(i < n)
  BY <1>2, <1>3
<1>5. \A i \in S : n <= i
  BY <1>4
<1> QED
  BY <1>5

LEMMA GreatestOf ==
  ASSUME NEW S \in SUBSET Nat, S # {}, NEW B \in Nat, \A i \in S : i <= B
  PROVE  \E n \in S : \A i \in S : i <= n
<1> DEFINE T == {B - i : i \in S}
<1>1. T \in SUBSET Nat /\ T # {}
  <2>1. \A i \in S : B - i \in Nat
    OBVIOUS
  <2> QED
    BY <2>1
<1> HIDE DEF T
<1>2. PICK d \in T : \A e \in T : d <= e
  BY <1>1, LeastOf
<1> USE DEF T
<1>3. PICK n \in S : d = B - n
  OBVIOUS
<1>4. \A i \in S : B - n <= B - i
  BY <1>2, <1>3
<1>5. \A i \in S : i <= n
  BY <1>4
<1> QED
  BY <1>5

-----------------------------------------------------------------------------
(* Which segments there are, in memory and on disk. *)

Senders == {w \in Writers : writer[w].pc = "sending"}
Snaps   == root.segs \cup persister.snap.segs
Merges  == persister.merge \cup merger.merge

\* What the merger works on.
Planned == merger.segs \cup UNION {m.old : m \in merger.merge}
Views   == Snaps \cup Planned

\* The file of a segment, and every content that some id stands for.
File(s) == [id |-> s.id, docs |-> s.docs]
Written == segFiles \cup {File(s) : s \in Views \cup Merges}

\* The ids that complete and other snapshots name, and those batches looked up.
Named     == UNION {Ids(f.segs) : f \in snapFiles}
Obsoleted == UNION {DOMAIN writer[w].in.obsoletes : w \in Senders}

\* The ids of segments that are in memory only, and of those that have a file.
Mem   == Ids({s \in Snaps : ~s.persisted}) \cup {writer[w].in.id : w \in Senders}
Filed == Ids({s \in Snaps : s.persisted}) \cup Ids(Planned \cup Merges) \cup Named

\* An id stands for the same documents wherever it is.
OneContent == \A a, b \in Written : a.id = b.id => a = b

\* The next id is new.
Bounded == up => UNION {Ids(Written), Named, Obsoleted, Mem} \subseteq 0 .. nextSegmentID

\* Nobody else knows the id of a segment before it is introduced.
Fresh ==
  /\ \A m \in Merges : m.id \notin Ids(Views) \cup Obsoleted
  /\ \A m \in persister.merge, n \in merger.merge : m.id # n.id
  /\ \A w \in Senders : writer[w].in.id \notin Ids(Written) \cup Obsoleted
  /\ \A v, w \in Senders : writer[v].in.id = writer[w].in.id => v = w

\* What the persister merges has no file, what the merger merges has one.
Apart == Mem \cap Filed = {}

\* The root has every deletion that a snapshot or a plan of it has.
Grown == \A o \in Views, s \in root.segs : o.id = s.id => o.deleted \subseteq s.deleted

\* A batch that waits for the introducer.
Prepared ==
  \A w \in Senders :
    /\ writer[w].in.id \in Nat
    /\ writer[w].in.upd \subseteq Keys
    /\ IsFiniteSet(writer[w].in.upd)
    /\ writer[w].in.upd \subseteq writer[w].in.terms
    /\ SeesWhatIs(writer[w].in, root.segs)

Identity == OneContent /\ Bounded /\ Fresh /\ Apart /\ Grown /\ Prepared

\* Every id of a segment stands for something.
LEMMA IdsWritten ==
  ASSUME NEW s \in Views \cup Merges
  PROVE  s.id \in Ids(Written)
<1>1. File(s) \in Written /\ File(s).id = s.id
  BY DEF Written, File
<1> QED
  BY <1>1 DEF Ids

\* A step that only forgets, or moves what is there.
NothingNew ==
  /\ root'.segs \subseteq root.segs
  /\ persister'.snap.segs \subseteq Snaps
  /\ merger'.segs \subseteq merger.segs \cup {s \in root.segs : s.persisted}
  /\ persister'.merge \subseteq persister.merge
  /\ merger'.merge \subseteq merger.merge
  /\ \A w \in Senders' : w \in Senders /\ writer'[w] = writer[w]
  /\ segFiles' \subseteq Written
  /\ Named' \subseteq Filed
  /\ up' => up /\ nextSegmentID <= nextSegmentID'

LEMMA NothingNewKeeps ==
  ASSUME Identity, nextSegmentID \in Nat, nextSegmentID' \in Nat, NothingNew
  PROVE  Identity'
<1>1. Snaps' \subseteq Snaps /\ Merges' \subseteq Merges
  BY DEF NothingNew, Snaps, Merges
<1>2. Planned' \subseteq Planned \cup {s \in root.segs : s.persisted}
  BY DEF NothingNew, Planned
<1>3. Views' \subseteq Views
  BY <1>1, <1>2 DEF Views, Snaps
<1>4. Written' \subseteq Written
  BY <1>1, <1>3 DEF NothingNew, Written
<1>5. Obsoleted' \subseteq Obsoleted
  BY DEF NothingNew, Obsoleted
<1>6. Mem' \subseteq Mem
  BY <1>1 DEF NothingNew, Mem, Ids
<1>7. Filed' \subseteq Filed
  <2>1. Ids({s \in Snaps : s.persisted})' \subseteq Filed
    BY <1>1 DEF Filed, Ids
  <2>2. Ids(Planned \cup Merges)' \subseteq Filed
    BY <1>1, <1>2 DEF Filed, Ids, Snaps
  <2>3. Named' \subseteq Filed
    BY DEF NothingNew
  <2> QED
    BY <2>1, <2>2, <2>3 DEF Filed
<1>8. OneContent'
  BY <1>4 DEF Identity, OneContent
<1>9. Named' \subseteq Ids(Written) \cup Named
  <2>1. Ids({s \in Snaps : s.persisted}) \cup Ids(Planned \cup Merges) \subseteq Ids(Written)
    BY IdsWritten DEF Ids, Views
  <2> QED
    BY <2>1 DEF NothingNew, Filed
<1>10. Bounded'
  <2> SUFFICES ASSUME up' PROVE UNION {Ids(Written), Named, Obsoleted, Mem}' \subseteq 0 .. nextSegmentID'
    BY DEF Bounded
  <2>1. up /\ 0 .. nextSegmentID \subseteq 0 .. nextSegmentID'
    BY DEF NothingNew
  <2>2. Ids(Written)' \subseteq Ids(Written)
    BY <1>4 DEF Ids
  <2> QED
    BY <1>5, <1>6, <1>9, <2>1, <2>2 DEF Identity, Bounded
<1>11. Fresh'
  <2>1. Ids(Written)' \subseteq Ids(Written) /\ Ids(Views)' \subseteq Ids(Views)
    BY <1>3, <1>4 DEF Ids
  <2> QED
    BY <1>1, <1>5, <2>1 DEF Identity, Fresh, NothingNew
<1>12. Apart'
  BY <1>6, <1>7 DEF Identity, Apart
<1>13. Grown'
  BY <1>3 DEF Identity, Grown, NothingNew
<1>14. Prepared'
  BY DEF Identity, Prepared, NothingNew, SeesWhatIs
<1> QED
  BY <1>8, <1>10, <1>11, <1>12, <1>13, <1>14 DEF Identity

-----------------------------------------------------------------------------
(* The rest of the invariant. *)

Snapshots == [epoch : Nat, segs : SUBSET SegmentSnapshots, upto : Nat]
Files     == [id : Nat, docs : Seq(Keys \X Nat)]
SnapFiles == [epoch : Nat, upto : Nat, complete : BOOLEAN,
              segs : SUBSET [id : Nat, deleted : SUBSET Nat]]

\* What the variables are.  Of persister, merger and writer, which have fields no
\* property here is about, only which fields there are.
Shape ==
  /\ writer = [w \in Writers |-> writer[w]]
  /\ persister = [pc |-> persister.pc, last |-> persister.last, carried |-> persister.carried,
                  snap |-> persister.snap, chans |-> persister.chans,
                  callbacks |-> persister.callbacks, fresh |-> persister.fresh,
                  merge |-> persister.merge]
  /\ merger = [pc |-> merger.pc, segs |-> merger.segs, merge |-> merger.merge]

Typed ==
  /\ up \in BOOLEAN
  /\ root \in Snapshots
  /\ nextEpoch \in Nat /\ nextSegmentID \in Nat
  /\ persister.snap \in Snapshots /\ persister.last \in Nat
  /\ merger.segs \subseteq SegmentSnapshots
  /\ segFiles \subseteq Files
  /\ snapFiles \subseteq SnapFiles
  /\ history \in Seq(SUBSET (Keys \X Nat)) /\ Len(history) > 0

\* Nothing runs in a process that is gone.
Down ==
  ~up => /\ root = NoSnap /\ Senders = {}
         /\ persister = Resting(0, <<>>) /\ merger = ResetMerger

Active == persister.pc \notin {"idle", "cleaning"}

\* Where the persister and the merger are.
Steps ==
  /\ persister.pc # "merging" => persister.merge = {}
  /\ merger.pc # "merging" => merger.merge = {}
  /\ persister.pc \in {"snapshot", "committed"} => \A s \in persister.snap.segs : s.persisted
  /\ Active => persister.snap.epoch > persister.last

\* The merges that are being introduced.
Merging ==
  /\ \A m \in persister.merge :
       IsMerge(m) /\ m.old = Unpersisted(persister.snap.segs) /\ m.old # {}
  /\ \A m \in merger.merge : IsMerge(m)
  /\ Sound(merger.segs)

\* These segments hold what the first n batches left.
Reaches(segs, n) == Sound(segs) /\ n \in 0 .. Batched /\ Content(segs) = history[n + 1]

\* Opening this snapshot file gives a prefix of the history.
Restores(f) ==
  f.complete => f.upto <= Batched /\ (Loadable(f) => Reaches(Loaded(f), f.upto))

Contents ==
  /\ history[1] = {}
  /\ up => Reaches(root.segs, root.upto) /\ root.upto = Batched
  /\ Reaches(persister.snap.segs, persister.snap.upto)
  /\ \A f \in snapFiles : Restores(f)

\* Later snapshots hold more, and the one in hand holds most.
Order ==
  /\ \A f, g \in snapFiles : f.complete /\ g.complete /\ f.epoch <= g.epoch => f.upto <= g.upto
  /\ up => \A f \in snapFiles : f.complete =>
       /\ \/ f.epoch <= persister.last
          \/ persister.pc = "committed" /\ f.epoch = persister.snap.epoch
       /\ Active => f.upto <= persister.snap.upto

\* After a crash the history is what the newest snapshot holds, and there is a newest one
\* and a highest id.
Crashed ==
  ~up => /\ Len(history) = OnDisk.upto + 1
         /\ \E n \in Nat : /\ \A f \in segFiles : f.id <= n
                           /\ \A f \in snapFiles : f.complete => f.epoch <= n

IInv == /\ Shape /\ Typed /\ Identity /\ Down /\ Steps
        /\ Merging /\ Contents /\ Order /\ Crashed

-----------------------------------------------------------------------------
(* The steps that bring no segment. *)

USE DEF Resting, ResetMerger, NoSnap, Idle

\* What is written is what is found.
LEMMA FileIs ==
  ASSUME OneContent, NEW g \in segFiles
  PROVE  FileOf(g.id) = g
  BY DEF OneContent, Written, FileOf

\* A snapshot file keeps its content while nothing is written under the ids it names.
LEMMA RestoresKept ==
  ASSUME Typed, OneContent, OneContent', NEW f \in SnapFiles, Restores(f),
         \A g \in segFiles' : g.id \in Ids(f.segs) => g \in segFiles,
         Len(history') \in Nat, f.complete => f.upto <= Batched',
         \A n \in 1 .. f.upto + 1 : history'[n] = history[n]
  PROVE  Restores(f)'
<1> SUFFICES ASSUME f.complete, Loadable(f)' PROVE Reaches(Loaded(f), f.upto)'
  BY DEF Restores
<1>1. \A s \in f.segs : HasFile(s.id) /\ FileOf(s.id)' = FileOf(s.id)
  <2> TAKE s \in f.segs
  <2>1. PICK g \in segFiles' : g.id = s.id
    BY DEF Loadable, HasFile
  <2>2. g \in segFiles
    BY <2>1 DEF Ids
  <2>3. FileOf(s.id) = g
    BY <2>1, <2>2, FileIs
  <2>4. FileOf(s.id)' = g
    BY <2>1 DEF OneContent, Written, FileOf
  <2> QED
    BY <2>1, <2>2, <2>3, <2>4 DEF HasFile
<1>2. Loaded(f)' = Loaded(f)
  BY <1>1 DEF Loaded
<1>3. Reaches(Loaded(f), f.upto)
  BY <1>1 DEF Restores, Loadable
<1>4. f.upto \in Nat
  BY DEF SnapFiles
<1> QED
  BY <1>2, <1>3, <1>4 DEF Reaches, Restores, Batched

\* The same when no batch comes or goes.
LEMMA RestoresStill ==
  ASSUME IInv, OneContent', history' = history, NEW f \in SnapFiles, Restores(f),
         \A g \in segFiles' : g.id \in Ids(f.segs) => g \in segFiles
  PROVE  Restores(f)'
<1>1. Typed /\ OneContent
  BY DEF IInv, Identity
<1>2. Len(history') \in Nat /\ (f.complete => f.upto <= Batched')
  BY DEF Restores, Batched, IInv, Typed
<1> QED
  BY <1>1, <1>2, RestoresKept

LEMMA SnapshotsKept ==
  ASSUME IInv, OneContent', history' = history,
         \A f \in snapFiles' : f.complete => f \in snapFiles,
         \A g \in segFiles' : g \in segFiles \/ g.id \notin Named
  PROVE  \A f \in snapFiles' : Restores(f)'
<1> SUFFICES ASSUME NEW f \in snapFiles', f.complete PROVE Restores(f)'
  BY DEF Restores
<1>1. f \in snapFiles /\ f \in SnapFiles /\ Restores(f)
  BY DEF IInv, Typed, Contents
<1>2. \A g \in segFiles' : g.id \in Ids(f.segs) => g \in segFiles
  BY <1>1 DEF Named
<1> QED
  BY <1>1, <1>2, RestoresStill

\* Which of the rest a step cannot disturb.
LEMMA Undisturbed ==
  ASSUME IInv, up, up'
  PROVE  Down' /\ Crashed'
  BY DEF Down, Crashed

LEMMA TakeKeeps ==
  ASSUME IInv, PersisterTake
  PROVE  IInv'
<1>1. /\ persister'.snap = root /\ persister'.merge = persister.merge
      /\ persister'.pc = "taken" /\ persister'.last = persister.last
      /\ UNCHANGED <<up, root, nextEpoch, merger, writer, segFiles, snapFiles, nextSegmentID, history>>
      /\ up /\ persister.pc = "idle" /\ root.epoch > persister.last
      /\ Shape'
  BY DEF PersisterTake, IInv, Shape, disk, ghosts
<1>2. Typed'
  BY <1>1 DEF IInv, Typed
<1>3. Identity'
  <2>1. NothingNew
    BY <1>1 DEF NothingNew, Snaps, Named, Filed, Senders, Written, IInv, Typed
  <2> QED
    BY <1>1, <1>2, <2>1, NothingNewKeeps DEF IInv, Typed
<1>4. Steps' /\ Merging'
  BY <1>1 DEF IInv, Steps, Merging, Active
<1>5. Contents'
  BY <1>1, <1>3, SnapshotsKept DEF IInv, Contents, Reaches, Batched, Identity
<1>6. Order'
  <2>1. \A f \in snapFiles : f.complete => f.upto <= root.upto /\ f.epoch <= persister.last
    BY <1>1 DEF IInv, Order, Contents, Restores
  <2> QED
    BY <1>1, <2>1 DEF IInv, Order
<1> QED
  BY <1>1, <1>2, <1>3, <1>4, <1>5, <1>6, Undisturbed DEF IInv

\* A step of the persister by itself, which leaves what it has in hand.
LEMMA PersistSegmentKeeps ==
  ASSUME IInv, PersistSegment
  PROVE  IInv'
<1>1. PICK s \in NextToWrite :
        /\ segFiles' = segFiles \cup {File(s)}
        /\ persister' = [persister EXCEPT !.pc = "writing", !.fresh = @ \cup {s.id}]
  BY DEF PersistSegment, File
<1>2. /\ UNCHANGED <<persister.snap, persister.merge, persister.last>>
      /\ persister'.pc = "writing" /\ persister.pc \in {"taken", "writing"}
      /\ UNCHANGED <<up, root, nextEpoch, merger, writer, snapFiles, nextSegmentID, history>>
      /\ Shape'
  BY <1>1 DEF PersistSegment, IInv, Shape, disk, ghosts
<1>3. up /\ up'
  BY <1>2 DEF IInv, Down, Typed
<1>4. s \in persister.snap.segs /\ ~s.persisted /\ s \in SegmentSnapshots
  BY DEF NextToWrite, Unpersisted, IInv, Typed, Snapshots
<1>5. Typed'
  <2>1. File(s) \in Files
    BY <1>4 DEF File, Files, SegmentSnapshots
  <2> QED
    BY <1>1, <1>2, <2>1 DEF IInv, Typed
<1>6. Identity'
  <2>1. File(s) \in Written
    BY <1>4 DEF Written, Views, Snaps
  <2>2. segFiles' \subseteq Written /\ Named' = Named
    BY <1>1, <1>2, <2>1 DEF Written, Named
  <2>3. NothingNew
    BY <1>2, <2>2 DEF NothingNew, Snaps, Filed, Senders, IInv, Typed
  <2> QED
    BY <1>2, <1>5, <2>3, NothingNewKeeps DEF IInv, Typed
<1>7. Steps' /\ Merging'
  BY <1>2 DEF IInv, Steps, Merging, Active
<1>8. Contents'
  <2>1. File(s).id = s.id /\ s.id \in Mem
    BY <1>4 DEF File, Mem, Ids, Snaps
  <2>2. s.id \notin Named
    BY <2>1 DEF IInv, Identity, Apart, Filed
  <2>3. \A f \in snapFiles' : Restores(f)'
    BY <1>1, <1>2, <1>6, <2>1, <2>2, SnapshotsKept DEF Identity
  <2> QED
    BY <1>2, <2>3 DEF IInv, Contents, Reaches, Batched
<1>9. Order'
  BY <1>2, <1>3 DEF IInv, Order, Active
<1> QED
  BY <1>2, <1>3, <1>5, <1>6, <1>7, <1>8, <1>9, Undisturbed DEF IInv

\* Creating the snapshot file under its final name: it names what has files.
LEMMA SnapshotCreateKeeps ==
  ASSUME IInv, SnapshotCreate
  PROVE  IInv'
<1>0. PICK f : f = SnapshotFile(FALSE)
  OBVIOUS
<1>1. /\ UNCHANGED <<persister.snap, persister.merge, persister.last>>
      /\ persister'.pc = "snapshot" /\ persister.pc \in {"taken", "writing"}
      /\ UNCHANGED <<up, root, nextEpoch, merger, writer, segFiles, nextSegmentID, history>>
      /\ snapFiles' = snapFiles \cup {f}
      /\ Shape'
  BY <1>0 DEF SnapshotCreate, IInv, Shape, disk, ghosts
<1>2. \A s \in persister.snap.segs : s.persisted
  BY DEF SnapshotCreate, Unpersisted
<1>3. /\ f.epoch = persister.snap.epoch /\ f.upto = persister.snap.upto /\ f.complete = FALSE
      /\ f.segs = {[id |-> s.id, deleted |-> s.deleted] : s \in persister.snap.segs}
      /\ f \in SnapFiles
  BY <1>0 DEF SnapshotFile, SnapFiles, IInv, Typed, Snapshots, SegmentSnapshots
<1>4. up /\ up'
  BY <1>1 DEF IInv, Down, Typed
<1>5. Typed'
  BY <1>1, <1>3 DEF IInv, Typed
<1>6. Identity'
  <2>1. Ids(f.segs) \subseteq Filed
    BY <1>2, <1>3 DEF Ids, Filed, Snaps
  <2>2. Named' \subseteq Filed
    BY <1>1, <2>1 DEF Named, Filed
  <2>3. NothingNew
    BY <1>1, <2>2 DEF NothingNew, Snaps, Senders, Written, IInv, Typed
  <2> QED
    BY <1>1, <1>5, <2>3, NothingNewKeeps DEF IInv, Typed
<1>7. Steps' /\ Merging'
  BY <1>1, <1>2 DEF IInv, Steps, Merging, Active
<1>8. Contents'
  BY <1>1, <1>3, <1>6, SnapshotsKept DEF IInv, Contents, Reaches, Batched, Identity
<1>9. Order'
  BY <1>1, <1>3, <1>4 DEF IInv, Order, Active
<1> QED
  BY <1>1, <1>4, <1>5, <1>6, <1>7, <1>8, <1>9, Undisturbed DEF IInv

\* The file is complete and holds what the snapshot holds.
LEMMA SnapshotWrittenKeeps ==
  ASSUME IInv, SnapshotWritten
  PROVE  IInv'
<1>0. PICK f : f = SnapshotFile(TRUE)
  OBVIOUS
<1>1. /\ UNCHANGED <<persister.snap, persister.merge, persister.last>>
      /\ persister'.pc = "committed" /\ persister.pc = "snapshot"
      /\ UNCHANGED <<up, root, nextEpoch, merger, writer, segFiles, nextSegmentID, history>>
      /\ snapFiles' = (snapFiles \ {SnapshotFile(FALSE)}) \cup {f}
      /\ Shape'
  BY <1>0 DEF SnapshotWritten, IInv, Shape, disk, ghosts
<1>2. \A s \in persister.snap.segs : s.persisted
  BY <1>1 DEF IInv, Steps
<1>3. /\ f.epoch = persister.snap.epoch /\ f.upto = persister.snap.upto /\ f.complete
      /\ f.segs = {[id |-> s.id, deleted |-> s.deleted] : s \in persister.snap.segs}
      /\ f \in SnapFiles
  BY <1>0 DEF SnapshotFile, SnapFiles, IInv, Typed, Snapshots, SegmentSnapshots
<1>4. up /\ up'
  BY <1>1 DEF IInv, Down, Typed
<1>5. Typed'
  BY <1>1, <1>3 DEF IInv, Typed
<1>6. Identity'
  <2>1. Ids(f.segs) \subseteq Filed
    BY <1>2, <1>3 DEF Ids, Filed, Snaps
  <2>2. Named' \subseteq Filed
    BY <1>1, <2>1 DEF Named, Filed
  <2>3. NothingNew
    BY <1>1, <2>2 DEF NothingNew, Snaps, Senders, Written, IInv, Typed
  <2> QED
    BY <1>1, <1>5, <2>3, NothingNewKeeps DEF IInv, Typed
<1>7. Steps' /\ Merging'
  BY <1>1, <1>2 DEF IInv, Steps, Merging, Active
<1>e. /\ \A s \in persister.snap.segs : \E e \in f.segs : e.id = s.id /\ e.deleted = s.deleted
      /\ \A e \in f.segs : \E s \in persister.snap.segs : e.id = s.id /\ e.deleted = s.deleted
  <2>1. ASSUME NEW s \in persister.snap.segs
        PROVE  \E e \in f.segs : e.id = s.id /\ e.deleted = s.deleted
    <3>1. [id |-> s.id, deleted |-> s.deleted] \in f.segs
      BY <1>3
    <3> QED
      BY <3>1
  <2>2. ASSUME NEW e \in f.segs
        PROVE  \E s \in persister.snap.segs : e.id = s.id /\ e.deleted = s.deleted
    <3>1. PICK s \in persister.snap.segs : e = [id |-> s.id, deleted |-> s.deleted]
      BY <1>3
    <3> QED
      BY <3>1
  <2> QED
    BY <2>1, <2>2
<1>8. Loadable(f) => Loaded(f) = persister.snap.segs
  <2> SUFFICES ASSUME Loadable(f) PROVE Loaded(f) = persister.snap.segs
    OBVIOUS
  <2>1. \A s \in persister.snap.segs :
          s = [id |-> s.id, docs |-> FileOf(s.id).docs, deleted |-> s.deleted, persisted |-> TRUE]
    <3> TAKE s \in persister.snap.segs
    <3>1. PICK g \in segFiles : g.id = s.id
      BY <1>e DEF Loadable, HasFile
    <3>2. File(s) \in Written /\ g \in Written
      BY DEF Written, Views, Snaps
    <3>3. g = File(s)
      BY <3>1, <3>2 DEF IInv, Identity, OneContent, File
    <3>4. FileOf(s.id) = g
      BY <3>1, FileIs DEF IInv, Identity
    <3> QED
      BY <1>2, <3>3, <3>4 DEF File, IInv, Typed, Snapshots, SegmentSnapshots
  <2>2. \A e \in f.segs : \A s \in persister.snap.segs : e.id = s.id /\ e.deleted = s.deleted =>
          s = [id |-> e.id, docs |-> FileOf(e.id).docs, deleted |-> e.deleted, persisted |-> TRUE]
    BY <2>1
  <2>3. persister.snap.segs \subseteq Loaded(f)
    BY <1>e, <2>2 DEF Loaded
  <2>4. Loaded(f) \subseteq persister.snap.segs
    <3> SUFFICES ASSUME NEW e \in f.segs
                 PROVE  [id |-> e.id, docs |-> FileOf(e.id).docs, deleted |-> e.deleted,
                         persisted |-> TRUE] \in persister.snap.segs
      BY DEF Loaded
    <3>1. PICK s \in persister.snap.segs : e.id = s.id /\ e.deleted = s.deleted
      BY <1>e
    <3> QED
      BY <2>2, <3>1
  <2> QED
    BY <2>3, <2>4
<1>9. Contents'
  <2>1. Restores(f)
    BY <1>3, <1>8 DEF Restores, IInv, Contents, Reaches, Batched, Typed
  <2>2. \A g \in segFiles' : g.id \in Ids(f.segs) => g \in segFiles
    BY <1>1
  <2>3. Restores(f)'
    BY <1>1, <1>3, <1>6, <2>1, <2>2, RestoresStill DEF Identity
  <2>4. \A g \in snapFiles : Restores(g)'
    <3> SUFFICES ASSUME NEW g \in snapFiles PROVE Restores(g)'
      OBVIOUS
    <3>1. g \in SnapFiles /\ Restores(g)
      BY DEF IInv, Contents, Typed
    <3> QED
      BY <1>1, <1>6, <3>1, RestoresStill DEF Identity
  <2>5. \A g \in snapFiles' : Restores(g)'
    BY <1>1, <2>3, <2>4
  <2> QED
    BY <1>1, <2>5 DEF IInv, Contents, Reaches, Batched
<1>10. Order'
  <2>1. \A g \in snapFiles : g.complete => g.epoch <= persister.last /\ g.upto <= f.upto
    BY <1>1, <1>3, <1>4 DEF IInv, Order, Active
  <2>2. persister.last < f.epoch /\ persister.last \in Nat /\ f.epoch \in Nat /\ f.upto \in Nat
    BY <1>1, <1>3 DEF IInv, Steps, Active, Typed, SnapFiles
  <2>3. \A g \in snapFiles : g.epoch \in Nat
    BY DEF IInv, Typed, SnapFiles
  <2>4. \A g \in snapFiles : g.complete => ~(f.epoch <= g.epoch)
    BY <2>1, <2>2, <2>3
  <2>5. \A g, h \in snapFiles' : g.complete /\ h.complete /\ g.epoch <= h.epoch => g.upto <= h.upto
    <3> SUFFICES ASSUME NEW g \in snapFiles', NEW h \in snapFiles', g.complete, h.complete,
                        g.epoch <= h.epoch
                 PROVE  g.upto <= h.upto
      OBVIOUS
    <3>1. CASE g \in snapFiles /\ h \in snapFiles
      BY <3>1 DEF IInv, Order
    <3>2. CASE g = f /\ h = f
      BY <2>2, <3>2
    <3>3. CASE g \in snapFiles /\ h = f
      BY <2>1, <3>3
    <3>4. CASE g = f /\ h \in snapFiles
      BY <2>4, <3>4
    <3> QED
      BY <1>1, <3>1, <3>2, <3>3, <3>4
  <2>6. \A g \in snapFiles' : g.complete =>
          /\ g.epoch <= persister'.last \/ g.epoch = persister'.snap.epoch
          /\ g.upto <= persister'.snap.upto
    <3> SUFFICES ASSUME NEW g \in snapFiles', g.complete
                 PROVE  /\ g.epoch <= persister'.last \/ g.epoch = persister'.snap.epoch
                        /\ g.upto <= persister'.snap.upto
      OBVIOUS
    <3>1. CASE g \in snapFiles
      BY <1>1, <1>3, <2>1, <3>1
    <3>2. CASE g = f
      BY <1>1, <1>3, <2>2, <3>2
    <3> QED
      BY <1>1, <3>1, <3>2
  <2> QED
    BY <1>1, <1>4, <2>5, <2>6 DEF Order
<1> QED
  BY <1>1, <1>4, <1>5, <1>6, <1>7, <1>9, <1>10, Undisturbed DEF IInv

\* The persister comes back to its loop, with or without success.
LEMMA RestingKeeps ==
  ASSUME IInv, up, NEW l \in Nat, NEW c, persister' = Resting(l, c),
         UNCHANGED <<up, root, nextEpoch, merger, history>>,
         segFiles' \subseteq segFiles, snapFiles' \subseteq snapFiles,
         NEW chans, writer' = Returned(chans),
         nextSegmentID' \in Nat, nextSegmentID <= nextSegmentID',
         \A f \in snapFiles' : f.complete => f.epoch <= l
  PROVE  IInv'
<1>1. /\ persister'.pc = "idle" /\ persister'.last = l /\ persister'.merge = {}
      /\ persister'.snap = NoSnap /\ Shape'
  BY DEF Shape, Returned, IInv
<1>2. Typed'
  BY <1>1 DEF IInv, Typed, Snapshots
<1>3. Identity'
  <2>1. Named' \subseteq Named
    BY DEF Named
  <2>2. \A w \in Senders' : w \in Senders /\ writer'[w] = writer[w]
    BY DEF Senders, Returned
  <2>3. NothingNew
    BY <1>1, <2>1, <2>2 DEF NothingNew, Snaps, Filed, Written, IInv, Typed
  <2> QED
    BY <1>2, <2>3, NothingNewKeeps DEF IInv, Typed
<1>4. Steps' /\ Merging'
  BY <1>1 DEF IInv, Steps, Merging, Active
<1>5. Contents'
  <2>1. Reaches({}, 0)'
    <3>1. Batched' \in Nat /\ history'[0 + 1] = {}
      BY DEF Batched, IInv, Contents, Typed
    <3>2. 0 \in 0 .. Batched'
      BY <3>1
    <3> QED
      BY <3>1, <3>2, NothingIsSound DEF Reaches
  <2>2. \A f \in snapFiles' : Restores(f)'
    BY <1>3, SnapshotsKept DEF Identity
  <2> QED
    BY <1>1, <2>1, <2>2 DEF IInv, Contents, Reaches, Batched
<1>6. Order'
  BY <1>1 DEF IInv, Order, Active
<1> QED
  BY <1>1, <1>2, <1>3, <1>4, <1>5, <1>6, Undisturbed DEF IInv

LEMMA PersistSucceedsKeeps ==
  ASSUME IInv, PersistSucceeds
  PROVE  IInv'
<1>1. /\ persister.pc = "committed"
      /\ persister' = Resting(persister.snap.epoch, <<>>)
      /\ writer' = Returned(persister.chans)
      /\ UNCHANGED <<up, root, nextEpoch, merger, history, segFiles, snapFiles, nextSegmentID>>
  BY DEF PersistSucceeds, disk
<1>2. up
  BY <1>1 DEF IInv, Down
<1>3. persister.snap.epoch \in Nat /\ nextSegmentID \in Nat
  BY DEF IInv, Typed, Snapshots
<1>4. \A f \in snapFiles : f.complete => f.epoch <= persister.snap.epoch
  <2>1. persister.last <= persister.snap.epoch /\ persister.last \in Nat
    BY <1>1, <1>3 DEF IInv, Typed, Steps, Active
  <2>2. \A f \in snapFiles : f.epoch \in Nat
    BY DEF IInv, Typed, SnapFiles
  <2> QED
    BY <1>2, <1>3, <2>1, <2>2 DEF IInv, Order
<1> QED
  BY <1>1, <1>2, <1>3, <1>4, RestingKeeps

LEMMA PersistFailsKeeps ==
  ASSUME IInv, PersistFails
  PROVE  IInv'
<1>1. /\ persister.pc \in {"taken", "writing", "snapshot"}
      /\ persister' = Resting(persister.last, persister.carried \o persister.callbacks)
      /\ writer' = Returned(persister.chans)
      /\ UNCHANGED <<up, root, nextEpoch, merger, history>>
      /\ segFiles' \subseteq segFiles /\ snapFiles' \subseteq snapFiles
      /\ nextSegmentID' = nextSegmentID \/ nextSegmentID' = nextSegmentID + 1
  BY DEF PersistFails, Without
<1>2. up
  BY <1>1 DEF IInv, Down
<1>3. persister.last \in Nat /\ nextSegmentID' \in Nat /\ nextSegmentID <= nextSegmentID'
  BY <1>1 DEF IInv, Typed
<1>4. \A f \in snapFiles' : f.complete => f.epoch <= persister.last
  BY <1>1, <1>2 DEF IInv, Order
<1> QED
  BY <1>1, <1>2, <1>3, <1>4, RestingKeeps

\* Files are removed, and the persister is between two rounds.
LEMMA FilesGoKeeps ==
  ASSUME IInv, up, persister.pc \in {"idle", "cleaning"},
         \E pc \in {"idle", "cleaning"} : persister' = [persister EXCEPT !.pc = pc],
         UNCHANGED <<up, root, nextEpoch, nextSegmentID, writer, merger, history>>,
         segFiles' \subseteq segFiles, snapFiles' \subseteq snapFiles
  PROVE  IInv'
<1>1. /\ UNCHANGED <<persister.snap, persister.merge, persister.last>>
      /\ persister'.pc \in {"idle", "cleaning"} /\ Shape'
  BY DEF IInv, Shape
<1>2. Typed'
  BY <1>1 DEF IInv, Typed
<1>3. Identity'
  <2>1. Named' \subseteq Named
    BY DEF Named
  <2>2. NothingNew
    BY <1>1, <2>1 DEF NothingNew, Snaps, Filed, Written, Senders, IInv, Typed
  <2> QED
    BY <1>2, <2>2, NothingNewKeeps DEF IInv, Typed
<1>4. Steps' /\ Merging'
  BY <1>1 DEF IInv, Steps, Merging, Active
<1>5. Contents'
  <2>1. \A f \in snapFiles' : Restores(f)'
    BY <1>3, SnapshotsKept DEF Identity
  <2> QED
    BY <1>1, <2>1 DEF IInv, Contents, Reaches, Batched
<1>6. Order'
  BY <1>1 DEF IInv, Order, Active
<1> QED
  BY <1>1, <1>2, <1>3, <1>4, <1>5, <1>6, Undisturbed DEF IInv

LEMMA CleanupKeeps ==
  ASSUME IInv, CleanupSnapshots \/ CleanupSegments
  PROVE  IInv'
<1>1. CASE CleanupSnapshots
  <2>1. /\ up /\ persister.pc = "idle" /\ persister' = [persister EXCEPT !.pc = "cleaning"]
        /\ snapFiles' \subseteq snapFiles
        /\ UNCHANGED <<up, root, nextEpoch, nextSegmentID, writer, merger, history, segFiles>>
    BY <1>1 DEF CleanupSnapshots
  <2> QED
    BY <2>1, FilesGoKeeps
<1>2. CASE CleanupSegments
  <2>1. /\ persister.pc = "cleaning" /\ persister' = [persister EXCEPT !.pc = "idle"]
        /\ segFiles' \subseteq segFiles
        /\ UNCHANGED <<up, root, nextEpoch, nextSegmentID, writer, merger, history, snapFiles>>
    BY <1>2 DEF CleanupSegments, Without
  <2>2. up
    BY <2>1 DEF IInv, Down
  <2> QED
    BY <2>1, <2>2, FilesGoKeeps
<1> QED
  BY <1>1, <1>2

\* The merger plans with segments of the root that have files.
LEMMA MergerPlanKeeps ==
  ASSUME IInv, MergerPlan
  PROVE  IInv'
<1>1. /\ up /\ merger.pc = "idle"
      /\ merger'.pc = "planned" /\ merger'.merge = merger.merge
      /\ merger'.segs = root.segs \ Unpersisted(root.segs)
      /\ UNCHANGED <<up, root, nextEpoch, persister, writer, segFiles, snapFiles, nextSegmentID, history>>
      /\ Shape'
  BY DEF MergerPlan, IInv, Shape, disk, ghosts
<1>2. merger'.segs = {s \in root.segs : s.persisted} /\ merger'.segs \subseteq root.segs
  BY <1>1 DEF Unpersisted
<1>3. Sound(merger'.segs)
  BY <1>1, <1>2, PartIsSound DEF IInv, Contents, Reaches
<1>4. Typed'
  BY <1>1, <1>3 DEF IInv, Typed, Sound
<1>5. Identity'
  <2>1. NothingNew
    BY <1>1, <1>2 DEF NothingNew, Snaps, Senders, Written, Named, Filed, IInv, Typed
  <2> QED
    BY <1>1, <1>4, <2>1, NothingNewKeeps DEF IInv, Typed
<1>6. Steps' /\ Merging'
  BY <1>1, <1>3 DEF IInv, Steps, Merging, Active
<1>7. Contents'
  <2>1. \A f \in snapFiles' : Restores(f)'
    BY <1>1, <1>5, SnapshotsKept DEF Identity
  <2> QED
    BY <1>1, <2>1 DEF IInv, Contents, Reaches, Batched
<1>8. Order'
  BY <1>1 DEF IInv, Order, Active
<1> QED
  BY <1>1, <1>4, <1>5, <1>6, <1>7, <1>8, Undisturbed DEF IInv

LEMMA MergerRestKeeps ==
  ASSUME IInv, MergerRest
  PROVE  IInv'
<1>1. /\ merger.pc = "planned"
      /\ merger'.pc = "idle" /\ merger'.merge = {} /\ merger'.segs = {}
      /\ UNCHANGED <<up, root, nextEpoch, persister, writer, segFiles, snapFiles, history>>
      /\ nextSegmentID' = nextSegmentID \/ nextSegmentID' = nextSegmentID + 1
      /\ Shape'
  BY DEF MergerRest, IInv, Shape, disk, ghosts
<1>2. up
  BY <1>1 DEF IInv, Down
<1>3. Typed' /\ nextSegmentID <= nextSegmentID'
  BY <1>1 DEF IInv, Typed
<1>4. Identity'
  <2>1. NothingNew
    BY <1>1, <1>3 DEF NothingNew, Snaps, Senders, Written, Named, Filed
  <2> QED
    BY <1>1, <1>3, <2>1, NothingNewKeeps DEF IInv, Typed
<1>5. Steps' /\ Merging'
  BY <1>1, NothingIsSound DEF IInv, Steps, Merging, Active
<1>6. Contents'
  <2>1. \A f \in snapFiles' : Restores(f)'
    BY <1>1, <1>4, SnapshotsKept DEF Identity
  <2> QED
    BY <1>1, <2>1 DEF IInv, Contents, Reaches, Batched
<1>7. Order'
  BY <1>1 DEF IInv, Order, Active
<1> QED
  BY <1>1, <1>2, <1>3, <1>4, <1>5, <1>6, <1>7, Undisturbed DEF IInv

LEMMA IntroduceFailsKeeps ==
  ASSUME IInv, NEW w \in Writers, IntroduceFails(w)
  PROVE  IInv'
<1>1. /\ writer[w].pc = "sending" /\ writer' = [writer EXCEPT ![w] = Idle]
      /\ UNCHANGED <<up, root, nextSegmentID, persister, merger, segFiles, snapFiles, history>>
      /\ nextEpoch' = nextEpoch + 1
      /\ Shape'
  BY DEF IntroduceFails, IInv, Shape, disk, ghosts
<1>2. up
  BY <1>1 DEF IInv, Down, Senders
<1>3. Typed'
  BY <1>1 DEF IInv, Typed
<1>4. Identity'
  <2>1. \A v \in Senders' : v \in Senders /\ writer'[v] = writer[v]
    BY <1>1 DEF Senders, IInv, Shape
  <2>2. NothingNew
    BY <1>1, <2>1 DEF NothingNew, Snaps, Written, Named, Filed, IInv, Typed
  <2> QED
    BY <1>1, <1>3, <2>2, NothingNewKeeps DEF IInv, Typed
<1>5. Steps' /\ Merging'
  BY <1>1 DEF IInv, Steps, Merging, Active
<1>6. Contents'
  <2>1. \A f \in snapFiles' : Restores(f)'
    BY <1>1, <1>4, SnapshotsKept DEF Identity
  <2> QED
    BY <1>1, <2>1 DEF IInv, Contents, Reaches, Batched
<1>7. Order'
  BY <1>1 DEF IInv, Order, Active
<1> QED
  BY <1>1, <1>2, <1>3, <1>4, <1>5, <1>6, <1>7, Undisturbed DEF IInv

-----------------------------------------------------------------------------
(* The newest snapshot, a crash and opening again. *)

\* There is a highest number of a segment file and of a complete snapshot.
LEMMA DiskIsBounded ==
  ASSUME IInv
  PROVE  \E n \in Nat : /\ \A f \in segFiles : f.id <= n
                        /\ \A f \in snapFiles : f.complete => f.epoch <= n
<1>1. CASE up
  <2> DEFINE n == nextSegmentID + persister.last + persister.snap.epoch
  <2>1. /\ nextSegmentID \in Nat /\ persister.last \in Nat /\ persister.snap.epoch \in Nat
        /\ \A f \in segFiles : f.id \in Nat
        /\ \A f \in snapFiles : f.epoch \in Nat
    BY DEF IInv, Typed, Snapshots, Files, SnapFiles
  <2>2. \A f \in segFiles : f.id <= nextSegmentID
    <3>1. \A f \in segFiles : f.id \in Ids(Written)
      BY DEF Written, Ids
    <3> QED
      BY <1>1, <3>1 DEF IInv, Identity, Bounded
  <2>3. \A f \in snapFiles : f.complete => f.epoch <= persister.last \/ f.epoch <= persister.snap.epoch
    BY <1>1, <2>1 DEF IInv, Order
  <2>4. n \in Nat /\ (\A f \in segFiles : f.id <= n) /\ (\A f \in snapFiles : f.complete => f.epoch <= n)
    BY <2>1, <2>2, <2>3
  <2> QED
    BY <2>4
<1>2. CASE ~up
  BY <1>2 DEF IInv, Crashed
<1> QED
  BY <1>1, <1>2

\* OnDisk is the newest complete snapshot, and holds what any of them holds.
LEMMA OnDiskIs ==
  ASSUME IInv
  PROVE  /\ \/ OnDisk \in snapFiles /\ OnDisk.complete
            \/ /\ OnDisk.epoch = 0 /\ OnDisk.segs = {} /\ OnDisk.upto = 0
               /\ \A f \in snapFiles : ~f.complete
         /\ \A f \in snapFiles : f.complete => f.epoch <= OnDisk.epoch /\ f.upto <= OnDisk.upto
         /\ OnDisk.upto \in 0 .. Batched /\ OnDisk.epoch \in Nat
<1> DEFINE complete == {f \in snapFiles : f.complete}
<1>1. Batched \in Nat
  BY DEF IInv, Typed, Batched
<1>2. CASE complete = {}
  BY <1>1, <1>2 DEF OnDisk
<1>3. CASE complete # {}
  <2>1. OnDisk = Newest(complete)
    BY <1>3 DEF OnDisk
  <2>2. {f.epoch : f \in complete} \in SUBSET Nat /\ {f.epoch : f \in complete} # {}
    BY <1>3 DEF IInv, Typed, SnapFiles
  <2>3. PICK n \in Nat : \A e \in {f.epoch : f \in complete} : e <= n
    BY DiskIsBounded
  <2>4. PICK top \in {f.epoch : f \in complete} : \A e \in {f.epoch : f \in complete} : e <= top
    BY <2>2, <2>3, GreatestOf
  <2>5. \E f \in complete : \A g \in complete : g.epoch <= f.epoch
    BY <2>4
  <2>6. OnDisk \in complete /\ \A g \in complete : g.epoch <= OnDisk.epoch
    BY <2>1, <2>5 DEF Newest
  <2>7. \A g \in complete : g.upto <= OnDisk.upto
    BY <2>6 DEF IInv, Order
  <2>8. OnDisk.epoch \in Nat /\ OnDisk.upto \in Nat /\ OnDisk.upto <= Batched
    BY <2>6 DEF IInv, Typed, SnapFiles, Contents, Restores
  <2> QED
    BY <1>1, <2>6, <2>7, <2>8
<1> QED
  BY <1>2, <1>3

\* The first elements of a sequence.
LEMMA PrefixIs ==
  ASSUME NEW T, NEW h \in Seq(T), NEW n \in 0 .. Len(h) - 1
  PROVE  /\ SubSeq(h, 1, n + 1) \in Seq(T)
         /\ Len(SubSeq(h, 1, n + 1)) = n + 1
         /\ \A i \in 1 .. n + 1 : SubSeq(h, 1, n + 1)[i] = h[i]
<1>1. Len(h) \in Nat /\ n \in Nat /\ n + 1 <= Len(h)
  OBVIOUS
<1> QED
  BY <1>1

\* After a crash the history is what the newest snapshot holds.
LEMMA CrashKeeps ==
  ASSUME IInv, Crash
  PROVE  IInv'
<1>1. /\ up' = FALSE /\ root' = NoSnap /\ nextEpoch' = 1 /\ nextSegmentID' = 1
      /\ writer' = [w \in Writers |-> Idle] /\ persister' = Resting(0, <<>>) /\ merger' = ResetMerger
      /\ history' = SubSeq(history, 1, OnDisk.upto + 1)
      /\ UNCHANGED <<segFiles, snapFiles>>
  BY DEF Crash, disk
<1>2. /\ Len(history') = OnDisk.upto + 1
      /\ history' \in Seq(SUBSET (Keys \X Nat))
      /\ \A n \in 1 .. OnDisk.upto + 1 : history'[n] = history[n]
      /\ OnDisk.upto \in Nat
  <2>1. history \in Seq(SUBSET (Keys \X Nat)) /\ Len(history) \in Nat
    BY DEF IInv, Typed
  <2>2. OnDisk.upto \in 0 .. Len(history) - 1 /\ OnDisk.upto \in Nat
    BY <2>1, OnDiskIs DEF Batched
  <2> QED
    BY <1>1, <2>1, <2>2, PrefixIs
<1>3. Shape' /\ Steps' /\ Merging'
  BY <1>1, NothingIsSound DEF Shape, Steps, Merging, Active
<1>4. Typed'
  <2>1. NoSnap \in Snapshots
    BY DEF Snapshots
  <2>2. root' \in Snapshots /\ persister'.snap \in Snapshots /\ persister'.last \in Nat
    BY <1>1, <2>1
  <2>3. merger'.segs = {} /\ up' \in BOOLEAN /\ nextEpoch' \in Nat /\ nextSegmentID' \in Nat
    BY <1>1
  <2>4. Len(history') > 0
    BY <1>2
  <2> QED
    BY <1>1, <1>2, <2>2, <2>3, <2>4 DEF IInv, Typed
<1>5. Down' /\ Senders' = {}
  BY <1>1 DEF Down, Senders
<1>6. Identity'
  <2>1. NothingNew
    BY <1>1, <1>5 DEF NothingNew, Snaps, Written, Named, Filed
  <2> QED
    BY <1>4, <2>1, NothingNewKeeps DEF IInv, Typed
<1>7. Contents'
  <2>1. Batched' = OnDisk.upto /\ history'[1] = {} /\ history'[0 + 1] = {} /\ 0 \in 0 .. Batched'
    BY <1>2 DEF Batched, IInv, Contents
  <2>2. Reaches({}, 0)'
    BY <2>1, NothingIsSound DEF Reaches
  <2>3. \A f \in snapFiles : Restores(f)'
    <3> SUFFICES ASSUME NEW f \in snapFiles, f.complete PROVE Restores(f)'
      BY DEF Restores
    <3>1. f \in SnapFiles /\ Restores(f) /\ f.upto <= OnDisk.upto /\ f.upto \in Nat
      BY OnDiskIs DEF IInv, Typed, Contents, SnapFiles
    <3>2. \A n \in 1 .. f.upto + 1 : history'[n] = history[n]
      BY <1>2, <3>1
    <3>3. Typed /\ OneContent /\ OneContent'
      BY <1>6 DEF IInv, Identity
    <3>4. Len(history') \in Nat /\ (f.complete => f.upto <= Batched')
      BY <1>2, <2>1, <3>1
    <3>5. \A g \in segFiles' : g.id \in Ids(f.segs) => g \in segFiles
      BY <1>1
    <3> QED
      BY <3>1, <3>2, <3>3, <3>4, <3>5, RestoresKept
  <2> QED
    BY <1>1, <2>1, <2>2, <2>3 DEF Contents
<1>8. Order'
  BY <1>1 DEF IInv, Order
<1>9. Crashed'
  <2>1. OnDisk' = OnDisk
    BY <1>1 DEF OnDisk, Newest
  <2> QED
    BY <1>1, <1>2, <2>1, DiskIsBounded DEF Crashed
<1> QED
  BY <1>3, <1>4, <1>5, <1>6, <1>7, <1>8, <1>9 DEF IInv

-----------------------------------------------------------------------------
(* The steps that bring a segment. *)

\* Which ids have a content or are named.
LEMMA FiledIsWritten == Filed \subseteq Ids(Written) \cup Named
<1>1. Ids({s \in Snaps : s.persisted}) \cup Ids(Planned \cup Merges) \subseteq Ids(Written)
  BY IdsWritten DEF Ids, Views
<1> QED
  BY <1>1 DEF Filed

\* The next id is nobody's.
LEMMA NextIdIsNew ==
  ASSUME Bounded, up, nextSegmentID \in Nat
  PROVE  nextSegmentID + 1 \notin UNION {Ids(Written), Named, Obsoleted, Mem, Filed}
<1>1. nextSegmentID + 1 \notin 0 .. nextSegmentID
  OBVIOUS
<1> QED
  BY <1>1, FiledIsWritten DEF Bounded

\* Batch takes an id and looks up what it obsoletes in the root of the moment.
LEMMA PrepareKeeps ==
  ASSUME IInv, NEW w \in Writers, Prepare(w)
  PROVE  IInv'
<1>1. PICK in : /\ writer' = [writer EXCEPT ![w] = Sending(in)]
                /\ in.id = nextSegmentID + 1
                /\ in.upd \subseteq Keys /\ IsFiniteSet(in.upd) /\ in.upd \subseteq in.terms
                /\ in.obsoletes = [i \in Ids(root.segs) |->
                                     DocsMatching(Segment(root.segs, i), in.terms)]
  <2> DEFINE batch(b) == [id        |-> nextSegmentID + 1,
                          upd       |-> b.upd,
                          terms     |-> b.upd \cup b.del,
                          obsoletes |-> [i \in Ids(root.segs) |->
                                           DocsMatching(Segment(root.segs, i), b.upd \cup b.del)]]
  <2>1. PICK b \in Batches : writer' = [writer EXCEPT ![w] = Sending(batch(b))]
    BY DEF Prepare
  <2>2. PICK in : in = batch(b)
    OBVIOUS
  <2>3. writer' = [writer EXCEPT ![w] = Sending(in)]
    BY <2>1, <2>2
  <2>4. /\ in.id = nextSegmentID + 1 /\ in.upd = b.upd /\ in.terms = b.upd \cup b.del
        /\ in.obsoletes = [i \in Ids(root.segs) |-> DocsMatching(Segment(root.segs, i), in.terms)]
    BY <2>2
  <2>5. in.upd \subseteq Keys /\ IsFiniteSet(in.upd) /\ in.upd \subseteq in.terms
    BY <2>4, IndexWriterAssumption
  <2> QED
    BY <2>3, <2>4, <2>5
<1>2. /\ up /\ writer[w].pc = "idle" /\ nextSegmentID' = nextSegmentID + 1
      /\ UNCHANGED <<up, root, nextEpoch, persister, merger, segFiles, snapFiles, history>>
  BY DEF Prepare, disk, ghosts
<1>3. /\ Senders' = Senders \cup {w} /\ w \notin Senders
      /\ writer'[w].in = in
      /\ \A v \in Senders : writer'[v] = writer[v]
      /\ Shape'
  BY <1>1, <1>2 DEF IInv, Shape, Senders, Sending
<1>4. Typed' /\ nextSegmentID \in Nat
  BY <1>2 DEF IInv, Typed
<1>5. /\ Views' = Views /\ Merges' = Merges /\ Written' = Written /\ Named' = Named
      /\ Snaps' = Snaps /\ Filed' = Filed
  BY <1>2 DEF Views, Merges, Written, Named, Snaps, Planned, Filed
<1>6. Identity'
  <2>1. OneContent' /\ Grown'
    BY <1>2, <1>5 DEF IInv, Identity, OneContent, Grown
  <2>2. Mem' = Mem \cup {nextSegmentID + 1}
    <3>1. {writer[v].in.id : v \in Senders}' = {writer[v].in.id : v \in Senders} \cup {nextSegmentID + 1}
      BY <1>1, <1>3
    <3> QED
      BY <1>5, <3>1 DEF Mem
  <2>3. Obsoleted' = Obsoleted \cup Ids(root.segs)
    <3>1. DOMAIN writer'[w].in.obsoletes = Ids(root.segs)
      BY <1>1, <1>3
    <3>2. {DOMAIN writer[v].in.obsoletes : v \in Senders}'
            = {DOMAIN writer[v].in.obsoletes : v \in Senders} \cup {Ids(root.segs)}
      BY <1>3, <3>1
    <3> QED
      BY <3>2 DEF Obsoleted
  <2>4. Ids(root.segs) \subseteq Ids(Views) /\ Ids(Views) \subseteq Ids(Written)
    BY IdsWritten DEF Ids, Views, Snaps
  <2>5. nextSegmentID + 1 \notin UNION {Ids(Written), Named, Obsoleted, Mem, Filed}
    BY <1>2, <1>4, NextIdIsNew DEF IInv, Identity
  <2>6. Bounded'
    <3>1. 0 .. nextSegmentID \cup {nextSegmentID + 1} \subseteq 0 .. nextSegmentID'
      BY <1>2, <1>4
    <3> QED
      BY <1>2, <1>5, <2>2, <2>3, <2>4, <3>1 DEF IInv, Identity, Bounded
  <2>7. Fresh'
    <3>1. \A v \in Senders : writer[v].in.id \in Mem
      BY DEF Mem
    <3>2. \A v \in Senders : writer[v].in.id # nextSegmentID + 1
      BY <2>5, <3>1
    <3>3. \A m \in Merges' : m.id \notin Ids(Views)' \cup Obsoleted'
      BY <1>5, <2>3, <2>4 DEF IInv, Identity, Fresh
    <3>4. \A m \in persister'.merge, n \in merger'.merge : m.id # n.id
      BY <1>2 DEF IInv, Identity, Fresh
    <3>5. \A v \in Senders' : writer'[v].in.id \notin Ids(Written)' \cup Obsoleted'
      BY <1>1, <1>3, <1>5, <2>3, <2>4, <2>5 DEF IInv, Identity, Fresh
    <3>6. \A u, v \in Senders' : writer'[u].in.id = writer'[v].in.id => u = v
      BY <1>1, <1>3, <3>2 DEF IInv, Identity, Fresh
    <3> QED
      BY <3>3, <3>4, <3>5, <3>6 DEF Fresh
  <2>8. Apart'
    BY <1>5, <2>2, <2>5 DEF IInv, Identity, Apart
  <2>9. Prepared'
    <3>1. SeesWhatIs(in, root.segs)
      <4> SUFFICES ASSUME NEW s \in root.segs
                   PROVE  in.obsoletes[s.id] = DocsMatching(s, in.terms)
        BY DEF SeesWhatIs
      <4>1. Segment(root.segs, s.id) = s
        BY <1>2, SegmentIs DEF IInv, Contents, Reaches, Sound
      <4>2. s.id \in Ids(root.segs)
        BY DEF Ids
      <4> QED
        BY <1>1, <4>1, <4>2
    <3> QED
      BY <1>1, <1>2, <1>3, <1>4, <3>1 DEF IInv, Identity, Prepared
  <2> QED
    BY <2>1, <2>6, <2>7, <2>8, <2>9 DEF Identity
<1>7. Steps' /\ Merging'
  BY <1>2 DEF IInv, Steps, Merging, Active
<1>8. Contents'
  <2>1. \A f \in snapFiles' : Restores(f)'
    BY <1>2, <1>6, SnapshotsKept DEF Identity
  <2> QED
    BY <1>2, <2>1 DEF IInv, Contents, Reaches, Batched
<1>9. Order'
  BY <1>2 DEF IInv, Order, Active
<1> QED
  BY <1>2, <1>3, <1>4, <1>6, <1>7, <1>8, <1>9, Undisturbed DEF IInv

\* A segment of a new root continues one of the old.
Continues(t) == \E s \in root.segs : t.id = s.id /\ t.docs = s.docs /\ s.deleted \subseteq t.deleted

\* An introduction brings at most one new id, which no view and no batch knows.
LEMMA IntroducedKeeps ==
  ASSUME Identity, NEW x, x \notin Ids(Views) \cup Obsoleted, UniqueIds(root'.segs),
         \A t \in root'.segs : t.id = x \/ Continues(t),
         \A o \in Views' : \/ o \in root'.segs
                           \/ o.deleted = {}
                           \/ \E p \in Views : p.id = o.id /\ p.deleted = o.deleted,
         \A w \in Senders' : w \in Senders /\ writer'[w] = writer[w]
  PROVE  Grown' /\ Prepared'
<1>1. Grown'
  <2> SUFFICES ASSUME NEW o \in Views', NEW t \in root'.segs, o.id = t.id
               PROVE  o.deleted \subseteq t.deleted
    BY DEF Grown
  <2>1. CASE o \in root'.segs
    BY <2>1 DEF UniqueIds
  <2>2. ASSUME NEW p \in Views, p.id = o.id, p.deleted = o.deleted
        PROVE  o.deleted \subseteq t.deleted
    <3>1. t.id # x
      BY <2>2 DEF Ids
    <3>2. PICK s \in root.segs : t.id = s.id /\ s.deleted \subseteq t.deleted
      BY <3>1 DEF Continues
    <3> QED
      BY <2>2, <3>2 DEF Identity, Grown
  <2> QED
    BY <2>1, <2>2
<1>2. Prepared'
  <2> SUFFICES ASSUME NEW w \in Senders', NEW t \in root'.segs,
                      t.id \in DOMAIN writer[w].in.obsoletes
               PROVE  writer[w].in.obsoletes[t.id] = DocsMatching(t, writer[w].in.terms)
    BY DEF Identity, Prepared, SeesWhatIs
  <2>1. t.id \in Obsoleted
    BY DEF Obsoleted
  <2>2. PICK s \in root.segs : t.id = s.id /\ t.docs = s.docs
    BY <2>1 DEF Continues
  <2> QED
    BY <2>2 DEF Identity, Prepared, SeesWhatIs, DocsMatching
<1> QED
  BY <1>1, <1>2

\* What a sound set of segments holds are documents.
LEMMA ContentType ==
  ASSUME NEW segs, Sound(segs)
  PROVE  Content(segs) \subseteq Keys \X Nat
<1> SUFFICES ASSUME NEW d \in Content(segs) PROVE d \in Keys \X Nat
  OBVIOUS
<1>1. UniqueIds(segs)
  BY DEF Sound
<1>2. Holds(segs, d)
  BY <1>1, ContentIs
<1>3. PICK s \in segs : \E n \in Live(s) : d = s.docs[n]
  BY <1>2 DEF Holds
<1>4. PICK n \in Live(s) : d = s.docs[n]
  BY <1>3
<1>5. s.docs \in Seq(Keys \X Nat) /\ n \in DOMAIN s.docs
  BY DEF Sound, SegmentSnapshots, Live
<1> QED
  BY <1>4, <1>5

\* introduceSegment: the root changes as the batch says, and the history has it.
LEMMA IntroduceSegmentKeeps ==
  ASSUME IInv, NEW w \in Writers, IntroduceSegment(w)
  PROVE  IInv'
<1>0. PICK in, n, new, segs : /\ in = writer[w].in /\ n = Len(history)
                              /\ new = NewSegment(in, n) /\ segs = WithBatch(root.segs, in, new)
  OBVIOUS
<1>1. /\ w \in Senders
      /\ root'.segs = segs /\ root'.epoch = nextEpoch /\ root'.upto = n
      /\ root' = [epoch |-> nextEpoch, segs |-> segs, upto |-> n]
      /\ history' = Append(history, Content(segs))
      /\ nextEpoch' = nextEpoch + 1
      /\ UNCHANGED <<up, nextSegmentID, persister, merger, segFiles, snapFiles>>
  BY <1>0 DEF IntroduceSegment, Senders, disk
<1>2. up /\ up'
  BY <1>1 DEF IInv, Down, Typed
<1>3. /\ Senders' = Senders \ {w}
      /\ \A v \in Senders' : writer'[v] = writer[v]
      /\ Shape'
  <2>1. \E x : x.pc # "sending" /\ writer' = [writer EXCEPT ![w] = x]
    <3>1. Idle.pc # "sending" /\ Waiting(n).pc # "sending"
      BY DEF Waiting
    <3> QED
      BY <1>0, <3>1 DEF IntroduceSegment
  <2> QED
    BY <1>1, <2>1 DEF IInv, Shape, Senders
<1>4. n \in Nat /\ n > 0 /\ nextSegmentID \in Nat /\ nextEpoch \in Nat
  BY <1>0 DEF IInv, Typed
<1>5. /\ in.id \in Nat /\ in.upd \subseteq Keys /\ IsFiniteSet(in.upd) /\ in.upd \subseteq in.terms
      /\ SeesWhatIs(in, root.segs)
  BY <1>0, <1>1 DEF IInv, Identity, Prepared
<1>6. in.id \notin Ids(Written) \cup Ids(Views) \cup Obsoleted /\ in.id \in Mem
  <2>1. in.id \notin Ids(Written) \cup Obsoleted
    BY <1>0, <1>1 DEF IInv, Identity, Fresh
  <2>2. Ids(Views) \subseteq Ids(Written)
    BY IdsWritten DEF Ids
  <2>3. in.id \in Mem
    BY <1>0, <1>1 DEF Mem
  <2> QED
    BY <2>1, <2>2, <2>3
<1>7. Sound(root.segs)
  BY <1>2 DEF IInv, Contents, Reaches
<1>8. Sound(segs)
  <2>1. in.id \notin Ids(root.segs)
    BY <1>6 DEF Ids, Views, Snaps
  <2> QED
    BY <1>0, <1>4, <1>5, <1>7, <2>1, BatchIsSound
<1>9. \A t \in new : t \in SegmentSnapshots /\ t.id = in.id /\ ~t.persisted /\ new = {t}
  BY <1>0, <1>4, <1>5, NewSegmentIs
<1>10. \A t \in segs : t \in new \/ \E s \in root.segs :
         t.id = s.id /\ t.docs = s.docs /\ t.persisted = s.persisted /\ s.deleted \subseteq t.deleted
  <2>1. segs = {t \in {Obsoleting(s, in.terms) : s \in root.segs} : Live(t) # {}} \cup new
    BY <1>0, <1>5, WithBatchIs
  <2>2. \A s \in root.segs : s \in SegmentSnapshots
    BY <1>7 DEF Sound
  <2> SUFFICES ASSUME NEW s \in root.segs
               PROVE  LET t == Obsoleting(s, in.terms)
                      IN  t.id = s.id /\ t.docs = s.docs /\ t.persisted = s.persisted
                          /\ s.deleted \subseteq t.deleted
    BY <2>1
  <2> QED
    BY <2>2, ObsoletingIs
<1>11. /\ \A t \in segs : t \in new \/ (t.id \in Ids(root.segs) /\ File(t) \in Written)
       /\ Ids(root.segs) \subseteq Ids(Views)
  <2>1. \A s \in root.segs : File(s) \in Written
    BY DEF Written, Views, Snaps
  <2> QED
    BY <1>10, <2>1 DEF File, Ids, Views, Snaps
<1>12. Typed'
  <2>1. Content(segs) \in SUBSET (Keys \X Nat)
    BY <1>8, ContentType
  <2>2. history \in Seq(SUBSET (Keys \X Nat)) /\ Len(history) > 0
    BY DEF IInv, Typed
  <2>3. history' \in Seq(SUBSET (Keys \X Nat)) /\ Len(history') > 0
    BY <1>1, <2>1, <2>2
  <2>4. root' \in Snapshots
    BY <1>1, <1>4, <1>8 DEF Snapshots, Sound
  <2> QED
    BY <1>1, <1>4, <2>3, <2>4 DEF IInv, Typed
<1>13. /\ Planned' = Planned /\ Merges' = Merges /\ Named' = Named
       /\ Views' \subseteq segs \cup Views
       /\ Snaps' = segs \cup persister.snap.segs
  BY <1>1 DEF Planned, Merges, Named, Views, Snaps
<1>14. Written' \subseteq Written \cup {File(t) : t \in new}
  <2>1. \A t \in Views' \cup Merges' : File(t) \in Written \cup {File(u) : u \in new}
    BY <1>11, <1>13 DEF Written
  <2>2. segFiles' \subseteq Written
    BY <1>1 DEF Written
  <2> QED
    BY <2>1, <2>2 DEF Written
<1>15. Ids(Written)' \subseteq Ids(Written) \cup {in.id} /\ Ids(Views)' \subseteq Ids(Views) \cup {in.id}
  <2>1. \A t \in new : File(t).id = in.id
    BY <1>9 DEF File
  <2> QED
    BY <1>9, <1>11, <1>13, <1>14, <2>1 DEF Ids
<1>16. Obsoleted' \subseteq Obsoleted
  BY <1>3 DEF Obsoleted
<1>17. Mem' \subseteq Mem /\ Filed' \subseteq Filed
  <2>1. \A t \in segs : ~t.persisted => t.id \in Mem
    BY <1>6, <1>9, <1>10 DEF Mem, Ids, Snaps
  <2>2. \A t \in segs : t.persisted => t.id \in Filed
    BY <1>9, <1>10 DEF Filed, Ids, Snaps
  <2>3. Mem' \subseteq Mem
    BY <1>3, <1>13, <2>1 DEF Mem, Ids, Snaps
  <2>4. Filed' \subseteq Filed
    BY <1>13, <2>2 DEF Filed, Ids, Snaps
  <2> QED
    BY <2>3, <2>4
<1>18. Identity'
  <2>1. OneContent'
    <3>1. \A t \in new : File(t).id \notin Ids(Written)
      BY <1>6, <1>9 DEF File
    <3>2. \A t, u \in new : File(t) = File(u)
      BY <1>9
    <3> QED
      BY <1>14, <3>1, <3>2 DEF IInv, Identity, OneContent, Ids
  <2>2. Bounded'
    BY <1>1, <1>2, <1>6, <1>13, <1>15, <1>16, <1>17 DEF IInv, Identity, Bounded
  <2>3. Fresh'
    <3>1. \A m \in Merges : m.id # in.id
      BY <1>6, IdsWritten
    <3>2. \A m \in Merges' : m.id \notin Ids(Views)' \cup Obsoleted'
      BY <1>13, <1>15, <1>16, <3>1 DEF IInv, Identity, Fresh
    <3>3. \A v \in Senders' : writer'[v].in.id \notin Ids(Written)' \cup Obsoleted'
      BY <1>0, <1>1, <1>3, <1>15, <1>16 DEF IInv, Identity, Fresh
    <3>4. \A u, v \in Senders' : writer'[u].in.id = writer'[v].in.id => u = v
      BY <1>3 DEF IInv, Identity, Fresh
    <3> QED
      BY <1>1, <3>2, <3>3, <3>4 DEF IInv, Identity, Fresh
  <2>4. Apart'
    BY <1>17 DEF IInv, Identity, Apart
  <2>5. Grown' /\ Prepared'
    <3>1. in.id \notin Ids(Views) \cup Obsoleted
      BY <1>6
    <3>2. UniqueIds(root'.segs)
      BY <1>1, <1>8 DEF Sound
    <3>3. \A t \in root'.segs : t.id = in.id \/ Continues(t)
      BY <1>1, <1>9, <1>10 DEF Continues
    <3>4. \A o \in Views' : \/ o \in root'.segs
                           \/ o.deleted = {}
                           \/ \E p \in Views : p.id = o.id /\ p.deleted = o.deleted
      BY <1>1, <1>13
    <3>5. \A v \in Senders' : v \in Senders /\ writer'[v] = writer[v]
      BY <1>3
    <3>6. Identity
      BY DEF IInv
    <3> QED
      BY <3>1, <3>2, <3>3, <3>4, <3>5, <3>6, IntroducedKeeps
  <2> QED
    BY <2>1, <2>2, <2>3, <2>4, <2>5 DEF Identity
<1>19. Steps' /\ Merging'
  BY <1>1 DEF IInv, Steps, Merging, Active
<1>20. /\ Batched' = n /\ Batched < n /\ Batched \in Nat
       /\ history'[n + 1] = Content(segs)
       /\ \A i \in 1 .. n : history'[i] = history[i]
  BY <1>0, <1>1, <1>4 DEF Batched, IInv, Typed
<1>21. Contents'
  <2>1. Reaches(root.segs, root.upto)' /\ root'.upto = Batched'
    BY <1>1, <1>4, <1>8, <1>20 DEF Reaches
  <2>2. Reaches(persister.snap.segs, persister.snap.upto)'
    <3>1. /\ persister.snap.upto \in 0 .. Batched /\ Sound(persister.snap.segs)
          /\ Content(persister.snap.segs) = history[persister.snap.upto + 1]
      BY DEF IInv, Contents, Reaches
    <3>2. persister.snap.upto \in 0 .. Batched' /\ persister.snap.upto + 1 \in 1 .. n
      BY <1>0, <1>4, <1>20, <3>1 DEF Batched
    <3> QED
      BY <1>1, <1>20, <3>1, <3>2 DEF Reaches
  <2>3. \A f \in snapFiles' : Restores(f)'
    <3> SUFFICES ASSUME NEW f \in snapFiles, f.complete PROVE Restores(f)'
      BY <1>1 DEF Restores
    <3>1. Typed /\ OneContent /\ OneContent' /\ f \in SnapFiles /\ Restores(f)
      BY <1>18 DEF IInv, Identity, Typed, Contents
    <3>2. f.upto \in Nat /\ f.upto <= Batched
      BY <3>1 DEF Restores, SnapFiles
    <3>3. Len(history') \in Nat /\ (f.complete => f.upto <= Batched')
      <4>1. Len(history') \in Nat
        BY <1>12 DEF Typed
      <4> QED
        BY <1>4, <1>20, <3>2, <4>1
    <3>4. \A i \in 1 .. f.upto + 1 : history'[i] = history[i]
      BY <1>0, <1>4, <1>20, <3>2 DEF Batched
    <3>5. \A g \in segFiles' : g.id \in Ids(f.segs) => g \in segFiles
      BY <1>1
    <3> QED
      BY <3>1, <3>3, <3>4, <3>5, RestoresKept
  <2>4. history'[1] = {}
    BY <1>4, <1>20 DEF IInv, Contents
  <2> QED
    BY <1>1, <2>1, <2>2, <2>3, <2>4 DEF Contents
<1>22. Order'
  BY <1>1 DEF IInv, Order, Active
<1> QED
  BY <1>2, <1>3, <1>12, <1>18, <1>19, <1>21, <1>22, Undisturbed DEF IInv

\* introducePersist: the segments that got a file, in the root and in the snapshot.
LEMMA IntroducePersistKeeps ==
  ASSUME IInv, IntroducePersist
  PROVE  IInv'
<1>0. PICK ids : ids = persister.fresh
  OBVIOUS
<1>1. /\ root'.segs = WithPersisted(root.segs, ids)
      /\ root'.epoch = nextEpoch /\ root'.upto = root.upto
      /\ root' = [epoch |-> nextEpoch, segs |-> WithPersisted(root.segs, ids), upto |-> root.upto]
  BY <1>0 DEF IntroducePersist, IInv, Typed, Snapshots
<1>2. /\ persister'.snap.segs = WithPersisted(persister.snap.segs, ids)
      /\ persister'.snap.epoch = persister.snap.epoch /\ persister'.snap.upto = persister.snap.upto
      /\ persister'.snap = [epoch |-> persister.snap.epoch,
                            segs |-> WithPersisted(persister.snap.segs, ids),
                            upto |-> persister.snap.upto]
      /\ UNCHANGED <<persister.pc, persister.merge, persister.last>>
      /\ Shape'
  BY <1>0 DEF IntroducePersist, IInv, Shape, Typed, Snapshots
<1>3. /\ persister.pc = "writing" /\ nextEpoch' = nextEpoch + 1
      /\ UNCHANGED <<up, writer, merger, nextSegmentID, segFiles, snapFiles, history>>
  BY DEF IntroducePersist, disk, ghosts
<1>4. up /\ up'
  BY <1>3 DEF IInv, Down, Typed
<1>5. Sound(root.segs) /\ Sound(persister.snap.segs)
  BY <1>4 DEF IInv, Contents, Reaches
<1>6. /\ Sound(root'.segs) /\ Content(root'.segs) = Content(root.segs)
      /\ Sound(persister'.snap.segs) /\ Content(persister'.snap.segs) = Content(persister.snap.segs)
  BY <1>1, <1>2, <1>5, PersistedKeeps
<1>7. /\ Snaps' = WithPersisted(Snaps, ids) /\ Snaps \subseteq SegmentSnapshots
      /\ Planned' = Planned /\ Merges' = Merges /\ Named' = Named
      /\ Senders' = Senders /\ Obsoleted' = Obsoleted
  BY <1>1, <1>2, <1>3, <1>5
     DEF Snaps, WithPersisted, Planned, Merges, Named, Senders, Obsoleted, Sound
<1>8. \A t \in Snaps' : \E s \in Snaps :
        /\ t.id = s.id /\ t.docs = s.docs /\ t.deleted = s.deleted
        /\ t.persisted <=> (s.persisted \/ s.id \in ids)
  BY <1>7, WithPersistedIs, KeptIs
<1>9. \A t \in root'.segs : Continues(t)
  BY <1>1, <1>5, WithPersistedIs, KeptIs DEF Continues, Sound
<1>10. \A o \in Views' : \E p \in Views : p.id = o.id /\ p.docs = o.docs /\ p.deleted = o.deleted
  BY <1>7, <1>8 DEF Views
<1>11. Ids(Views)' \subseteq Ids(Views) /\ Written' \subseteq Written
  <2>1. Ids(Views)' \subseteq Ids(Views)
    BY <1>10 DEF Ids
  <2>2. \A o \in Views' \cup Merges' : File(o) \in Written
    BY <1>7, <1>10 DEF Written, File
  <2> QED
    BY <1>3, <2>1, <2>2 DEF Written
<1>12. Typed'
  <2>1. root' \in Snapshots /\ persister'.snap \in Snapshots
    BY <1>1, <1>2, <1>6 DEF IInv, Typed, Snapshots, Sound
  <2> QED
    BY <1>2, <1>3, <2>1 DEF IInv, Typed
<1>13. nextSegmentID \in Nat
  BY DEF IInv, Typed
<1>14. Mem' \subseteq Mem
  <2>1. \A t \in Snaps' : ~t.persisted => \E s \in Snaps : t.id = s.id /\ ~s.persisted
    BY <1>8
  <2> QED
    BY <1>3, <1>7, <2>1 DEF Mem, Ids
<1>16. \A i \in Mem' : i \notin {s.id : s \in Snaps} \/ i \notin ids
  <2>1. \A t \in Snaps' : ~t.persisted => t.id \notin ids
    BY <1>8
  <2>2. \A w \in Senders : writer[w].in.id \notin {s.id : s \in Snaps}
    BY IdsWritten DEF IInv, Identity, Fresh, Views
  <2> QED
    BY <1>3, <1>7, <2>1, <2>2 DEF Mem, Ids
<1>17. Filed' \subseteq Filed \cup {i \in {s.id : s \in Snaps} : i \in ids}
  <2>1. \A t \in Snaps' : t.persisted => \E s \in Snaps : t.id = s.id /\ (s.persisted \/ t.id \in ids)
    BY <1>8
  <2> QED
    BY <1>7, <2>1 DEF Filed, Ids
<1>18. Identity'
  <2>1. OneContent'
    BY <1>11 DEF IInv, Identity, OneContent
  <2>2. Ids(Written)' \subseteq Ids(Written)
    BY <1>11 DEF Ids
  <2>3. Bounded'
    BY <1>3, <1>4, <1>7, <1>14, <2>2 DEF IInv, Identity, Bounded
  <2>4. Fresh'
    BY <1>2, <1>3, <1>7, <1>11, <2>2 DEF IInv, Identity, Fresh
  <2>5. Apart'
    BY <1>14, <1>16, <1>17 DEF IInv, Identity, Apart
  <2>6. Grown' /\ Prepared'
    <3>1. nextSegmentID + 1 \notin Ids(Views) \cup Obsoleted
      <4>1. Ids(Views) \subseteq Ids(Written)
        BY IdsWritten DEF Ids
      <4> QED
        BY <1>4, <1>13, <4>1, NextIdIsNew DEF IInv, Identity
    <3>2. UniqueIds(root'.segs)
      BY <1>6 DEF Sound
    <3>3. \A t \in root'.segs : t.id = nextSegmentID + 1 \/ Continues(t)
      BY <1>9
    <3>4. \A o \in Views' : \/ o \in root'.segs
                           \/ o.deleted = {}
                           \/ \E p \in Views : p.id = o.id /\ p.deleted = o.deleted
      BY <1>10
    <3>5. \A v \in Senders' : v \in Senders /\ writer'[v] = writer[v]
      BY <1>3, <1>7
    <3>6. Identity
      BY DEF IInv
    <3> QED
      BY <3>1, <3>2, <3>3, <3>4, <3>5, <3>6, IntroducedKeeps
  <2> QED
    BY <2>1, <2>3, <2>4, <2>5, <2>6 DEF Identity
<1>19. Steps' /\ Merging'
  BY <1>2, <1>3 DEF IInv, Steps, Merging, Active
<1>20. Contents'
  <2>1. \A f \in snapFiles' : Restores(f)'
    BY <1>3, <1>18, SnapshotsKept DEF Identity
  <2> QED
    BY <1>1, <1>2, <1>3, <1>4, <1>6, <2>1 DEF IInv, Contents, Reaches, Batched
<1>21. Order'
  BY <1>2, <1>3 DEF IInv, Order, Active
<1> QED
  BY <1>2, <1>4, <1>12, <1>18, <1>19, <1>20, <1>21, Undisturbed DEF IInv

\* The file of a merge is written, under an id of its own, before it is introduced.
LEMMA MergeStarts ==
  ASSUME IInv, up, NEW m, m.id = nextSegmentID + 1,
         UNCHANGED <<up, root, writer, snapFiles, history>>,
         nextSegmentID' = nextSegmentID + 1, segFiles' = segFiles \cup {File(m)},
         persister'.snap = persister.snap,
         Planned' \subseteq Planned,
         \/ persister'.merge = {m} /\ merger'.merge = merger.merge /\ persister.merge = {}
         \/ persister'.merge = persister.merge /\ merger'.merge = {m} /\ merger.merge = {}
  PROVE  /\ Identity'
         /\ \A f \in snapFiles' : Restores(f)'
<1>1. nextSegmentID \in Nat
  BY DEF IInv, Typed
<1>2. m.id \notin UNION {Ids(Written), Named, Obsoleted, Mem, Filed}
  BY <1>1, NextIdIsNew DEF IInv, Identity
<1>3. /\ Snaps' = Snaps /\ Named' = Named /\ Senders' = Senders /\ Obsoleted' = Obsoleted
      /\ Mem' = Mem
  BY DEF Snaps, Named, Senders, Obsoleted, Mem
<1>4. Merges' = Merges \cup {m} /\ Views' \subseteq Views
  BY <1>3 DEF Merges, Views
<1>5. Written' \subseteq Written \cup {File(m)} /\ File(m).id = m.id
  BY <1>4 DEF Written, File
<1>6. Ids(Written)' \subseteq Ids(Written) \cup {m.id} /\ Ids(Views)' \subseteq Ids(Views)
  BY <1>4, <1>5 DEF Ids
<1>7. Filed' \subseteq Filed \cup {m.id}
  BY <1>3, <1>4 DEF Filed, Ids
<1>8. Ids(Views) \subseteq Ids(Written)
  BY IdsWritten DEF Ids
<1>9. OneContent'
  BY <1>2, <1>5 DEF IInv, Identity, OneContent, Ids
<1>10. Bounded'
  <2>1. 0 .. nextSegmentID \cup {nextSegmentID + 1} \subseteq 0 .. nextSegmentID'
    BY <1>1
  <2> QED
    BY <1>3, <1>6, <2>1 DEF IInv, Identity, Bounded
<1>11. Fresh'
  <2>1. \A n \in Merges' : n.id \notin Ids(Views)' \cup Obsoleted'
    BY <1>2, <1>3, <1>4, <1>6, <1>8 DEF IInv, Identity, Fresh
  <2>2. \A n \in Merges : n.id # m.id
    BY <1>2, IdsWritten
  <2>3. \A p \in persister'.merge, n \in merger'.merge : p.id # n.id
    BY <2>2 DEF Merges
  <2>4. \A w \in Senders : writer[w].in.id \in Mem
    BY DEF Mem
  <2>5. \A w \in Senders' : writer'[w].in.id \notin Ids(Written)' \cup Obsoleted'
    BY <1>2, <1>3, <1>6, <2>4 DEF IInv, Identity, Fresh
  <2> QED
    BY <1>3, <2>1, <2>3, <2>5 DEF IInv, Identity, Fresh
<1>12. Apart'
  BY <1>2, <1>3, <1>7 DEF IInv, Identity, Apart
<1>13. Grown' /\ Prepared'
  BY <1>3, <1>4 DEF IInv, Identity, Grown, Prepared, SeesWhatIs
<1>14. Identity'
  BY <1>9, <1>10, <1>11, <1>12, <1>13 DEF Identity
<1>15. \A g \in segFiles' : g \in segFiles \/ g.id \notin Named
  BY <1>2, <1>5
<1> QED
  BY <1>9, <1>14, <1>15, SnapshotsKept

LEMMA PersisterMergeKeeps ==
  ASSUME IInv, PersisterMerge
  PROVE  IInv'
<1>0. PICK m : m = Merge(nextSegmentID + 1, Unpersisted(persister.snap.segs))
  OBVIOUS
<1>1. /\ persister'.pc = "merging" /\ persister'.merge = {m} /\ persister.pc = "taken"
      /\ UNCHANGED <<persister.snap, persister.last>>
      /\ Unpersisted(persister.snap.segs) # {}
      /\ nextSegmentID' = nextSegmentID + 1 /\ segFiles' = segFiles \cup {File(m)}
      /\ UNCHANGED <<up, root, nextEpoch, writer, merger, snapFiles, history>>
      /\ Shape'
  BY <1>0 DEF PersisterMerge, MayMergeInMemory, IInv, Shape, File, disk, ghosts
<1>2. up /\ up' /\ persister.merge = {} /\ nextSegmentID \in Nat
  BY <1>1 DEF IInv, Down, Typed, Steps
<1>3. Sound(Unpersisted(persister.snap.segs))
  BY PartIsSound DEF IInv, Contents, Reaches, Unpersisted
<1>4. IsMerge(m) /\ m.id = nextSegmentID + 1 /\ m.old = Unpersisted(persister.snap.segs)
  BY <1>0, <1>3, MergeIs
<1>5. Typed'
  <2>1. File(m) \in Files
    BY <1>2, <1>4 DEF File, Files, IsMerge
  <2> QED
    BY <1>1, <1>2, <2>1 DEF IInv, Typed
<1>6. Identity' /\ \A f \in snapFiles' : Restores(f)'
  <2>1. Planned' \subseteq Planned
    BY <1>1 DEF Planned
  <2> QED
    BY <1>1, <1>2, <1>4, <2>1, MergeStarts
<1>7. Steps' /\ Merging'
  BY <1>1, <1>4 DEF IInv, Steps, Merging, Active
<1>8. Contents'
  BY <1>1, <1>6 DEF IInv, Contents, Reaches, Batched
<1>9. Order'
  BY <1>1 DEF IInv, Order, Active
<1> QED
  BY <1>1, <1>2, <1>5, <1>6, <1>7, <1>8, <1>9, Undisturbed DEF IInv

LEMMA MergerMergeKeeps ==
  ASSUME IInv, MergerMerge
  PROVE  IInv'
<1>0. PICK task \in SUBSET merger.segs :
        LET m == Merge(nextSegmentID + 1, task)
        IN  /\ segFiles' = segFiles \cup {[id |-> m.id, docs |-> m.docs]}
            /\ merger' = [pc |-> "merging", segs |-> merger.segs \ task, merge |-> {m}]
  BY DEF MergerMerge
<1>m. PICK m : m = Merge(nextSegmentID + 1, task)
  OBVIOUS
<1>1. /\ merger'.pc = "merging" /\ merger'.merge = {m} /\ merger'.segs = merger.segs \ task
      /\ merger.pc = "planned"
      /\ nextSegmentID' = nextSegmentID + 1 /\ segFiles' = segFiles \cup {File(m)}
      /\ UNCHANGED <<up, root, nextEpoch, writer, persister, snapFiles, history>>
      /\ Shape'
  BY <1>0, <1>m DEF MergerMerge, IInv, Shape, File, disk, ghosts
<1>2. up /\ up' /\ merger.merge = {} /\ nextSegmentID \in Nat
  BY <1>1 DEF IInv, Down, Typed, Steps
<1>3. Sound(task) /\ Sound(merger.segs \ task)
  BY PartIsSound DEF IInv, Merging
<1>4. IsMerge(m) /\ m.id = nextSegmentID + 1 /\ m.old = task
  BY <1>m, <1>3, MergeIs
<1>5. Typed'
  <2>1. File(m) \in Files
    BY <1>2, <1>4 DEF File, Files, IsMerge
  <2> QED
    BY <1>1, <1>2, <2>1 DEF IInv, Typed
<1>6. Identity' /\ \A f \in snapFiles' : Restores(f)'
  <2>1. Planned' \subseteq Planned
    BY <1>1, <1>4 DEF Planned
  <2> QED
    BY <1>1, <1>2, <1>4, <2>1, MergeStarts
<1>7. Steps' /\ Merging'
  BY <1>1, <1>3, <1>4 DEF IInv, Steps, Merging, Active
<1>8. Contents'
  BY <1>1, <1>6 DEF IInv, Contents, Reaches, Batched
<1>9. Order'
  BY <1>1 DEF IInv, Order, Active
<1> QED
  BY <1>1, <1>2, <1>5, <1>6, <1>7, <1>8, <1>9, Undisturbed DEF IInv

\* introduceMerge and the removal of the file of a merge that was skipped.
LEMMA MergeFinishes ==
  ASSUME IInv, up, NEW m \in Merges, IntroduceMerge(m),
         UNCHANGED <<up, writer, nextSegmentID, snapFiles, history>>,
         persister'.snap.segs \subseteq persister.snap.segs \cup {Whole(m, {})},
         Planned' \subseteq Planned,
         \/ persister'.merge = {} /\ merger'.merge = merger.merge /\ m \in persister.merge
         \/ persister'.merge = persister.merge /\ merger'.merge = {} /\ m \in merger.merge
  PROVE  /\ Identity'
         /\ \A f \in snapFiles' : Restores(f)'
         /\ Sound(root'.segs) /\ Content(root'.segs) = Content(root.segs)
         /\ root' = [epoch |-> nextEpoch, segs |-> root'.segs, upto |-> root.upto]
         /\ root'.upto = root.upto /\ nextEpoch' = nextEpoch + 1
         /\ segFiles' \subseteq segFiles
         /\ m.id \in Nat /\ m.id \notin Ids(Views)
<1>1. /\ root' = [epoch |-> nextEpoch, segs |-> WithMerge(root.segs, m), upto |-> root.upto]
      /\ root'.segs = WithMerge(root.segs, m) /\ root'.upto = root.upto
      /\ nextEpoch' = nextEpoch + 1 /\ segFiles' \subseteq segFiles
  BY DEF IntroduceMerge, Without, IInv, Typed, Snapshots
<1>2. IsMerge(m) /\ m.old \subseteq Views /\ Sound(root.segs)
  BY DEF IInv, Merging, Merges, Views, Snaps, Planned, Unpersisted, Contents, Reaches
<1>3. m.id \in Ids(Written) /\ m.id \notin Ids(Views) \cup Obsoleted /\ File(m) \in Written
  BY IdsWritten DEF IInv, Identity, Fresh, Written
<1>4. m.id \in Nat
  <2>1. m.id \in 0 .. nextSegmentID
    BY <1>3 DEF IInv, Identity, Bounded
  <2> QED
    BY <2>1
<1>5. Follows(root.segs, m)
  <2> SUFFICES ASSUME NEW o \in m.old, NEW s \in root.segs, o.id = s.id
               PROVE  o.docs = s.docs /\ o.deleted \subseteq s.deleted
    BY DEF Follows
  <2>1. o \in Views /\ s \in Views
    BY <1>2 DEF Views, Snaps
  <2>2. File(o) = File(s)
    BY <2>1 DEF IInv, Identity, OneContent, Written, File
  <2>3. o.docs = s.docs
    BY <2>2 DEF File
  <2> QED
    BY <2>1, <2>3 DEF IInv, Identity, Grown
<1>6. m.id \notin Ids(root.segs)
  BY <1>3 DEF Ids, Views, Snaps
<1>7. Sound(root'.segs) /\ Content(root'.segs) = Content(root.segs)
  BY <1>1, <1>2, <1>4, <1>5, <1>6, MergeKeeps
<1>8. PICK whole : /\ whole.id = m.id /\ whole.docs = m.docs /\ whole.persisted = TRUE
                   /\ whole = Whole(m, Gone(root.segs, m))
  BY DEF Whole
<1>9. \A t \in root'.segs : t \in root.segs \/ t = whole
  <2>1. Merged(root.segs, m) \subseteq {whole}
    BY <1>2, <1>5, <1>8, MergedComes
  <2> QED
    BY <1>1, <2>1 DEF WithMerge, NonEmpty
<1>10. PICK equal : /\ equal.id = m.id /\ equal.docs = m.docs /\ equal.persisted = TRUE
                    /\ equal.deleted = {} /\ equal = Whole(m, {})
  BY DEF Whole
<1>11. /\ Snaps' \subseteq Snaps \cup {whole, equal}
       /\ Merges' \subseteq Merges /\ (\A n \in Merges' : n.id # m.id)
       /\ Senders' = Senders /\ Named' = Named /\ Obsoleted' = Obsoleted
  <2>1. Snaps' \subseteq Snaps \cup {whole, equal}
    BY <1>9, <1>10 DEF Snaps
  <2>2. Merges' \subseteq Merges /\ (\A n \in Merges' : n.id # m.id)
    BY DEF Merges, IInv, Identity, Fresh
  <2>3. Senders' = Senders /\ Named' = Named /\ Obsoleted' = Obsoleted
    BY DEF Senders, Named, Obsoleted
  <2> QED
    BY <2>1, <2>2, <2>3
<1>12. Views' \subseteq Views \cup {whole, equal}
  BY <1>11 DEF Views
<1>13. Ids(Views)' \subseteq Ids(Views) \cup {m.id} /\ Written' \subseteq Written
  <2>1. Ids(Views)' \subseteq Ids(Views) \cup {m.id}
    BY <1>8, <1>10, <1>12 DEF Ids
  <2>2. File(whole) = File(m) /\ File(equal) = File(m)
    BY <1>8, <1>10 DEF File
  <2>3. \A o \in Views' \cup Merges' : File(o) \in Written
    BY <1>3, <1>11, <1>12, <2>2 DEF Written
  <2> QED
    BY <1>1, <2>1, <2>3 DEF Written
<1>14. Mem' \subseteq Mem
  <2>1. \A t \in Snaps' : ~t.persisted => t \in Snaps
    BY <1>8, <1>10, <1>11
  <2> QED
    BY <1>11, <2>1 DEF Mem, Ids
<1>15. Filed' \subseteq Filed
  <2>1. m.id \in Filed
    BY DEF Filed, Ids
  <2>2. \A t \in Snaps' : t.persisted => t.id \in Filed
    BY <1>8, <1>10, <1>11, <2>1 DEF Filed, Ids
  <2> QED
    BY <1>11, <2>2 DEF Filed, Ids
<1>16. OneContent'
  BY <1>13 DEF IInv, Identity, OneContent
<1>17. Identity'
  <2>1. Ids(Written)' \subseteq Ids(Written)
    BY <1>13 DEF Ids
  <2>2. Bounded'
    BY <1>11, <1>14, <2>1 DEF IInv, Identity, Bounded
  <2>3. Fresh'
    <3>1. \A n \in Merges' : n.id \notin Ids(Views)' \cup Obsoleted'
      BY <1>11, <1>13 DEF IInv, Identity, Fresh
    <3>2. \A p \in persister'.merge, n \in merger'.merge : p.id # n.id
      BY DEF IInv, Identity, Fresh
    <3>3. \A w \in Senders' : writer'[w].in.id \notin Ids(Written)' \cup Obsoleted'
      BY <1>11, <2>1 DEF IInv, Identity, Fresh
    <3> QED
      BY <1>11, <3>1, <3>2, <3>3 DEF IInv, Identity, Fresh
  <2>4. Apart'
    BY <1>14, <1>15 DEF IInv, Identity, Apart
  <2>5. Grown' /\ Prepared'
    <3>1. m.id \notin Ids(Views) \cup Obsoleted
      BY <1>3
    <3>2. UniqueIds(root'.segs)
      BY <1>7 DEF Sound
    <3>3. \A t \in root'.segs : t.id = m.id \/ Continues(t)
      BY <1>8, <1>9 DEF Continues
    <3>4. \A o \in Views' : \/ o \in root'.segs
                           \/ o.deleted = {}
                           \/ \E p \in Views : p.id = o.id /\ p.deleted = o.deleted
      <4>1. \A o \in Views' : o \in root'.segs \/ o = equal \/ o \in Views
        BY <1>10 DEF Views, Snaps
      <4> QED
        BY <1>10, <4>1
    <3>5. \A v \in Senders' : v \in Senders /\ writer'[v] = writer[v]
      BY <1>11
    <3>6. Identity
      BY DEF IInv
    <3> QED
      BY <3>1, <3>2, <3>3, <3>4, <3>5, <3>6, IntroducedKeeps
  <2> QED
    BY <1>16, <2>2, <2>3, <2>4, <2>5 DEF Identity
<1>18. \A f \in snapFiles' : Restores(f)'
  BY <1>1, <1>16, SnapshotsKept
<1> QED
  BY <1>1, <1>3, <1>4, <1>7, <1>17, <1>18

LEMMA MergerMergeDoneKeeps ==
  ASSUME IInv, MergerMergeDone
  PROVE  IInv'
<1>1. PICK m \in merger.merge : IntroduceMerge(m)
  BY DEF MergerMergeDone
<1>2. /\ merger'.pc = "planned" /\ merger'.merge = {} /\ merger'.segs = merger.segs
      /\ merger.pc = "merging"
      /\ UNCHANGED <<up, nextSegmentID, writer, persister, snapFiles, history>>
      /\ Shape'
  BY DEF MergerMergeDone, IInv, Shape, ghosts
<1>3. up /\ up'
  BY <1>2 DEF IInv, Down, Typed
<1>4. Planned' \subseteq Planned /\ m \in Merges
  BY <1>2 DEF Planned, Merges
<1>5. /\ Identity'
      /\ \A f \in snapFiles' : Restores(f)'
      /\ Sound(root'.segs) /\ Content(root'.segs) = Content(root.segs)
      /\ root' = [epoch |-> nextEpoch, segs |-> root'.segs, upto |-> root.upto]
      /\ root'.upto = root.upto /\ nextEpoch' = nextEpoch + 1
      /\ segFiles' \subseteq segFiles
  BY <1>1, <1>2, <1>3, <1>4, MergeFinishes
<1>6. Typed'
  <2>1. root' \in Snapshots
    BY <1>5 DEF IInv, Typed, Snapshots, Sound
  <2> QED
    BY <1>2, <1>5, <2>1 DEF IInv, Typed
<1>7. Steps' /\ Merging'
  BY <1>2 DEF IInv, Steps, Merging, Active
<1>8. Contents'
  BY <1>2, <1>3, <1>5 DEF IInv, Contents, Reaches, Batched
<1>9. Order'
  BY <1>2 DEF IInv, Order, Active
<1> QED
  BY <1>2, <1>3, <1>5, <1>6, <1>7, <1>8, <1>9, Undisturbed DEF IInv

LEMMA PersisterMergeDoneKeeps ==
  ASSUME IInv, PersisterMergeDone
  PROVE  IInv'
<1>0. PICK m \in persister.merge :
        /\ IntroduceMerge(m)
        /\ LET whole == [id |-> m.id, docs |-> m.docs, deleted |-> {}, persisted |-> TRUE]
               equiv == {s \in persister.snap.segs : s.persisted} \cup {whole}
           IN  persister' = [persister EXCEPT !.pc = "writing", !.merge = {},
                               !.snap.segs = IF Merged(root.segs, m) = {} THEN @ ELSE equiv]
  BY DEF PersisterMergeDone
<1>1. /\ persister'.pc = "writing" /\ persister'.merge = {} /\ persister'.last = persister.last
      /\ persister'.snap.epoch = persister.snap.epoch /\ persister'.snap.upto = persister.snap.upto
      /\ \/ persister'.snap.segs = persister.snap.segs
         \/ persister'.snap.segs = {s \in persister.snap.segs : s.persisted} \cup {Whole(m, {})}
      /\ persister'.snap = [epoch |-> persister.snap.epoch, segs |-> persister'.snap.segs,
                            upto |-> persister.snap.upto]
      /\ Shape'
  BY <1>0 DEF PersisterMergeDone, IInv, Shape, Typed, Snapshots, Whole
<1>2. /\ persister.pc = "merging"
      /\ UNCHANGED <<up, nextSegmentID, writer, merger, snapFiles, history>>
  BY DEF PersisterMergeDone, ghosts
<1>3. up /\ up'
  BY <1>2 DEF IInv, Down, Typed
<1>4. Planned' \subseteq Planned /\ m \in Merges
  BY <1>2 DEF Planned, Merges
<1>5. /\ Identity'
      /\ \A f \in snapFiles' : Restores(f)'
      /\ Sound(root'.segs) /\ Content(root'.segs) = Content(root.segs)
      /\ root' = [epoch |-> nextEpoch, segs |-> root'.segs, upto |-> root.upto]
      /\ root'.upto = root.upto /\ nextEpoch' = nextEpoch + 1
      /\ segFiles' \subseteq segFiles
      /\ m.id \in Nat /\ m.id \notin Ids(Views)
  BY <1>0, <1>1, <1>2, <1>3, <1>4, MergeFinishes
<1>6. Sound(persister'.snap.segs) /\ Content(persister'.snap.segs) = Content(persister.snap.segs)
  <2>1. Sound(persister.snap.segs)
    BY DEF IInv, Contents, Reaches
  <2>2. IsMerge(m) /\ m.old = Unpersisted(persister.snap.segs) /\ m.old # {}
    BY DEF IInv, Merging
  <2>3. m.id \in Nat /\ m.id \notin Ids(persister.snap.segs)
    BY <1>5 DEF Ids, Views, Snaps
  <2> QED
    BY <1>1, <2>1, <2>2, <2>3, EquivalentKeeps
<1>7. Typed'
  <2>1. root' \in Snapshots /\ persister'.snap \in Snapshots
    BY <1>1, <1>5, <1>6 DEF IInv, Typed, Snapshots, Sound
  <2> QED
    BY <1>1, <1>2, <1>5, <2>1 DEF IInv, Typed
<1>8. Steps' /\ Merging'
  BY <1>1, <1>2 DEF IInv, Steps, Merging, Active
<1>9. Contents'
  BY <1>1, <1>2, <1>3, <1>5, <1>6 DEF IInv, Contents, Reaches, Batched
<1>10. Order'
  BY <1>1, <1>2 DEF IInv, Order, Active
<1> QED
  BY <1>1, <1>3, <1>5, <1>7, <1>8, <1>9, <1>10, Undisturbed DEF IInv

\* OpenWriter starts above every segment file.
LEMMA FirstSegmentIDIs ==
  ASSUME IInv
  PROVE  FirstSegmentID \in Nat /\ \A f \in segFiles : f.id <= FirstSegmentID
<1> DEFINE S == Ids(segFiles) \cup {0}
<1>1. S \in SUBSET Nat /\ S # {}
  BY DEF IInv, Typed, Files, Ids
<1>2. PICK n \in Nat : \A i \in S : i <= n
  BY DiskIsBounded DEF Ids
<1> HIDE DEF S
<1>3. PICK top \in S : \A i \in S : i <= top
  BY <1>1, <1>2, GreatestOf
<1> USE DEF S
<1>4. \E k \in S : \A i \in Ids(segFiles) : i <= k
  BY <1>3
<1>5. PICK k \in S : FirstSegmentID = 1 + k /\ \A i \in Ids(segFiles) : i <= k
  BY <1>4 DEF FirstSegmentID
<1>6. \A f \in segFiles : f.id \in Ids(segFiles)
  BY DEF Ids
<1> HIDE DEF S
<1>7. \A f \in segFiles : f.id \in Nat /\ f.id <= k
  BY <1>5, <1>6 DEF IInv, Typed, Files
<1> QED
  BY <1>1, <1>5, <1>7

\* OpenWriter: the newest snapshot becomes the root.
LEMMA OpenWriterKeeps ==
  ASSUME IInv, OpenWriter
  PROVE  IInv'
<1>0. PICK d : d = OnDisk
  OBVIOUS
<1>1. /\ ~up /\ up' = TRUE
      /\ root' = [epoch |-> d.epoch, segs |-> Loaded(d), upto |-> d.upto]
      /\ nextEpoch' = d.epoch + 1 /\ nextSegmentID' = FirstSegmentID
      /\ persister' = Resting(d.epoch, <<>>)
      /\ UNCHANGED <<writer, merger, history>>
      /\ segFiles' \subseteq segFiles /\ snapFiles' \subseteq snapFiles
      /\ \A f \in snapFiles : Loadable(f)
  BY <1>0 DEF OpenWriter, Without, ghosts
<1>2. /\ root = NoSnap /\ Senders = {} /\ persister = Resting(0, <<>>) /\ merger = ResetMerger
      /\ Len(history) = d.upto + 1
  BY <1>0, <1>1 DEF IInv, Down, Crashed
<1>3. /\ \A f \in snapFiles : f.complete => f.epoch <= d.epoch
      /\ d.upto \in Nat /\ d.epoch \in Nat /\ Batched = d.upto
  BY <1>0, <1>2, OnDiskIs DEF Batched, IInv, Typed
<1>4. FirstSegmentID \in Nat /\ \A f \in segFiles : f.id <= FirstSegmentID
  BY FirstSegmentIDIs
<1>5. history[0 + 1] = {} /\ 0 \in 0 .. Batched
  BY <1>3 DEF IInv, Contents
<1>6. Reaches(Loaded(d), d.upto) /\ \A s \in d.segs : HasFile(s.id)
  <2>1. CASE d \in snapFiles /\ d.complete
    BY <1>1, <2>1 DEF IInv, Contents, Restores, Loadable
  <2>2. CASE d.segs = {} /\ d.upto = 0
    <3>1. Loaded(d) = {}
      BY <2>2 DEF Loaded
    <3> QED
      BY <1>5, <2>2, <3>1, NothingIsSound DEF Reaches
  <2> QED
    BY <1>0, <2>1, <2>2, OnDiskIs
<1>7. PICK segs : segs = Loaded(d)
  OBVIOUS
<1>8. \A t \in segs : t.persisted /\ File(t) \in segFiles
  <2> SUFFICES ASSUME NEW e \in d.segs
               PROVE  [id |-> e.id, docs |-> FileOf(e.id).docs] \in segFiles
    BY <1>7 DEF Loaded, File
  <2>1. PICK g \in segFiles : g.id = e.id
    BY <1>6 DEF HasFile
  <2>2. FileOf(e.id) = g
    BY <2>1, FileIs DEF IInv, Identity
  <2>3. g = [id |-> g.id, docs |-> g.docs]
    BY DEF IInv, Typed, Files
  <2> QED
    BY <2>1, <2>2, <2>3
<1>9. /\ Snaps' = segs /\ Planned' = {} /\ Merges' = {} /\ Views' = segs
      /\ Senders' = {} /\ Obsoleted' = {} /\ Shape'
  BY <1>1, <1>2, <1>7
     DEF Snaps, Planned, Merges, Views, Senders, Obsoleted, IInv, Shape
<1>10. Sound(segs)
  BY <1>6, <1>7 DEF Reaches
<1>11. Typed'
  <2>1. NoSnap \in Snapshots
    BY DEF Snapshots
  <2>2. root' \in Snapshots /\ persister'.snap \in Snapshots /\ persister'.last \in Nat
    BY <1>1, <1>3, <1>7, <1>10, <2>1 DEF Snapshots, Sound
  <2>3. nextEpoch' \in Nat /\ nextSegmentID' \in Nat
    BY <1>1, <1>3, <1>4
  <2> QED
    BY <1>1, <2>2, <2>3 DEF IInv, Typed
<1>12. Written' \subseteq segFiles /\ segFiles \subseteq Written
  BY <1>1, <1>8, <1>9 DEF Written
<1>13. Identity'
  <2>1. OneContent'
    BY <1>12 DEF IInv, Identity, OneContent
  <2>2. Mem' = {}
    BY <1>8, <1>9 DEF Mem, Ids
  <2>3. Bounded'
    <3>1. Named' \subseteq Ids(segFiles)
      BY <1>1 DEF Named, Loadable, HasFile, Ids
    <3>2. Ids(Written)' \subseteq Ids(segFiles)
      BY <1>12 DEF Ids
    <3>3. \A i \in Ids(segFiles) : i \in 0 .. FirstSegmentID
      BY <1>4 DEF Ids, IInv, Typed, Files
    <3> QED
      BY <1>1, <1>9, <2>2, <3>1, <3>2, <3>3 DEF Bounded
  <2>4. Fresh' /\ Apart'
    BY <1>1, <1>2, <1>9, <2>2 DEF Fresh, Apart
  <2>5. Grown'
    BY <1>1, <1>7, <1>9, <1>10 DEF Grown, Sound, UniqueIds
  <2>6. Prepared'
    BY <1>9 DEF Prepared
  <2> QED
    BY <2>1, <2>3, <2>4, <2>5, <2>6 DEF Identity
<1>14. Down' /\ Crashed'
  BY <1>1 DEF Down, Crashed
<1>15. Steps' /\ Merging'
  BY <1>1, <1>2, NothingIsSound DEF Steps, Merging, Active
<1>16. Contents'
  <2>1. \A f \in snapFiles' : Restores(f)'
    BY <1>1, <1>13, SnapshotsKept DEF Identity
  <2>2. Batched' = Batched /\ history' = history
    BY <1>1 DEF Batched
  <2>3. Reaches(root.segs, root.upto)' /\ root'.upto = Batched'
    BY <1>1, <1>3, <1>6, <2>2 DEF Reaches
  <2>4. Reaches(persister.snap.segs, persister.snap.upto)'
    BY <1>1, <1>5, <2>2, NothingIsSound DEF Reaches
  <2> QED
    BY <1>1, <2>1, <2>3, <2>4 DEF IInv, Contents
<1>17. Order'
  BY <1>1, <1>3 DEF IInv, Order, Active
<1> QED
  BY <1>9, <1>11, <1>13, <1>14, <1>15, <1>16, <1>17 DEF IInv

-----------------------------------------------------------------------------
(* The theorems. *)

LEMMA InitIInv == Init => IInv
<1> SUFFICES ASSUME Init PROVE IInv
  OBVIOUS
<1>1. /\ up /\ up \in BOOLEAN /\ root = NoSnap /\ nextEpoch = 1 /\ nextSegmentID = 1
      /\ writer = [w \in Writers |-> Idle] /\ persister = Resting(0, <<>>)
      /\ merger = ResetMerger /\ segFiles = {} /\ snapFiles = {} /\ history = <<{}>>
  BY DEF Init
<1>2. Shape /\ Steps
  BY <1>1 DEF Shape, Steps, Active
<1>3. Len(history) = 1 /\ history[1] = {} /\ history \in Seq(SUBSET (Keys \X Nat))
  BY <1>1
<1>4. Typed
  <2>1. NoSnap \in Snapshots
    BY DEF Snapshots
  <2> QED
    BY <1>1, <1>3, <2>1 DEF Typed
<1>5. /\ Senders = {} /\ Snaps = {} /\ Planned = {} /\ Views = {} /\ Merges = {}
      /\ Written = {} /\ Named = {} /\ Obsoleted = {} /\ Mem = {}
  BY <1>1 DEF Senders, Snaps, Planned, Views, Merges, Written, Named, Obsoleted, Mem, Ids
<1>6. Identity
  BY <1>1, <1>5 DEF Identity, OneContent, Bounded, Fresh, Apart, Grown, Prepared, Ids
<1>7. Down /\ Crashed
  BY <1>1 DEF Down, Crashed
<1>8. Merging
  BY <1>1, NothingIsSound DEF Merging
<1>9. Contents
  <2>1. Batched = 0
    BY <1>3 DEF Batched
  <2>2. Reaches({}, 0)
    <3>1. 0 \in 0 .. Batched /\ history[0 + 1] = {}
      BY <1>3, <2>1
    <3> QED
      BY <3>1, NothingIsSound DEF Reaches
  <2> QED
    BY <1>1, <1>3, <2>1, <2>2 DEF Contents
<1>10. Order
  BY <1>1 DEF Order
<1> QED
  BY <1>2, <1>4, <1>6, <1>7, <1>8, <1>9, <1>10 DEF IInv

LEMMA StutterKeeps ==
  ASSUME IInv, UNCHANGED vars
  PROVE  IInv'
<1>1. UNCHANGED <<up, root, nextEpoch, nextSegmentID, writer, persister, merger,
                  segFiles, snapFiles, history>>
  BY DEF vars, memory, disk, ghosts
<1>2. /\ Snaps' = Snaps /\ Planned' = Planned /\ Views' = Views /\ Merges' = Merges
      /\ Written' = Written /\ Named' = Named /\ Senders' = Senders /\ Obsoleted' = Obsoleted
      /\ Mem' = Mem /\ Filed' = Filed
  BY <1>1 DEF Snaps, Planned, Views, Merges, Written, Named, Senders, Obsoleted, Mem, Filed
<1>3. Identity'
  BY <1>1, <1>2 DEF IInv, Identity, OneContent, Bounded, Fresh, Apart, Grown, Prepared,
                    SeesWhatIs
<1>4. Contents'
  <2>1. \A f \in snapFiles' : Restores(f)'
    BY <1>1, <1>3, SnapshotsKept DEF Identity
  <2> QED
    BY <1>1, <2>1 DEF IInv, Contents, Reaches, Batched
<1>5. OnDisk' = OnDisk
  BY <1>1 DEF OnDisk, Newest
<1>6. Shape' /\ Typed' /\ Steps' /\ Merging' /\ Order'
  BY <1>1 DEF IInv, Shape, Typed, Steps, Merging, Order, Active
<1>7. Down' /\ Crashed'
  BY <1>1, <1>2, <1>5 DEF IInv, Down, Crashed
<1> QED
  BY <1>3, <1>4, <1>6, <1>7 DEF IInv

LEMMA StepIInv == IInv /\ [Next]_vars => IInv'
<1> SUFFICES ASSUME IInv, [Next]_vars PROVE IInv'
  OBVIOUS
<1>1. CASE \E w \in Writers : Prepare(w)
  BY <1>1, PrepareKeeps
<1>2. CASE Introducer
  <2>1. CASE \E w \in Writers : IntroduceSegment(w) \/ IntroduceFails(w)
    BY <2>1, IntroduceSegmentKeeps, IntroduceFailsKeeps
  <2>2. CASE IntroducePersist \/ PersisterMergeDone \/ MergerMergeDone
    BY <2>2, IntroducePersistKeeps, PersisterMergeDoneKeeps, MergerMergeDoneKeeps
  <2> QED
    BY <1>2, <2>1, <2>2 DEF Introducer
<1>3. CASE Persister
  <2>1. CASE PersisterTake \/ PersisterMerge \/ PersistSegment \/ SnapshotCreate
    BY <2>1, TakeKeeps, PersisterMergeKeeps, PersistSegmentKeeps, SnapshotCreateKeeps
  <2>2. CASE SnapshotWritten \/ PersistSucceeds \/ PersistFails
    BY <2>2, SnapshotWrittenKeeps, PersistSucceedsKeeps, PersistFailsKeeps
  <2>3. CASE CleanupSnapshots \/ CleanupSegments
    BY <2>3, CleanupKeeps
  <2> QED
    BY <1>3, <2>1, <2>2, <2>3 DEF Persister
<1>4. CASE Merger
  BY <1>4, MergerPlanKeeps, MergerMergeKeeps, MergerRestKeeps DEF Merger
<1>5. CASE Crash \/ OpenWriter
  BY <1>5, CrashKeeps, OpenWriterKeeps
<1>6. CASE UNCHANGED vars
  BY <1>6, StutterKeeps
<1> QED
  BY <1>1, <1>2, <1>3, <1>4, <1>5, <1>6 DEF Next

\* The root of the writer is sound, also while there is none.
LEMMA RootIsSound ==
  ASSUME IInv
  PROVE  Sound(root.segs)
<1>1. CASE up
  BY <1>1 DEF IInv, Contents, Reaches
<1>2. CASE ~up
  <2>1. root.segs = {}
    BY <1>2 DEF IInv, Down
  <2> QED
    BY <2>1, NothingIsSound
<1> QED
  BY <1>1, <1>2

LEMMA SpecIInv == Spec => []IInv
<1> QED
  BY InitIInv, StepIInv, PTL DEF Spec

\* No segment is in a merge of the persister and in one of the merger, whatever
\* is introduced, persisted or lost between the two plans (introducer.go, merge.go).
THEOREM MergesStayDisjoint == Spec => []MergesAreDisjoint
<1>1. IInv => MergesAreDisjoint
  <2> SUFFICES ASSUME IInv, NEW m \in persister.merge, NEW n \in merger.merge,
                      NEW i \in Ids(m.old) \cap Ids(n.old)
               PROVE  FALSE
    BY DEF MergesAreDisjoint
  <2>1. m.old = Unpersisted(persister.snap.segs)
    BY DEF IInv, Merging
  <2>2. i \in Mem
    BY <2>1 DEF Mem, Ids, Snaps, Unpersisted
  <2>3. i \in Filed
    BY DEF Filed, Ids, Planned
  <2> QED
    BY <2>2, <2>3 DEF IInv, Identity, Apart
<1> QED
  BY <1>1, SpecIInv, PTL

\* No identifier is live twice in the root, whatever batches, merges and persists of
\* the same segments run at once and wherever the process dies (introducer.go).
THEOREM OneDocumentStaysLive == Spec => []OneLiveDocument
<1>1. IInv => OneLiveDocument
  <2> SUFFICES ASSUME IInv PROVE OneLiveDocument
    OBVIOUS
  <2>1. Sound(root.segs)
    BY RootIsSound
  <2> QED
    BY <2>1, SoundIsOneLive DEF OneLiveDocument
<1> QED
  BY <1>1, SpecIInv, PTL

\* The root holds what the batches left and nothing else: no merge, no persist and no
\* crash adds, loses or changes a document, and no segment of it is empty.
THEOREM RootStaysTrue == Spec => []RootHoldsHistory
<1>1. IInv => RootHoldsHistory
  <2> SUFFICES ASSUME IInv PROVE RootHoldsHistory
    OBVIOUS
  <2>1. Sound(root.segs) /\ Sound(merger.segs)
    BY RootIsSound DEF IInv, Merging
  <2>2. root.segs = NonEmpty(root.segs) /\ merger.segs = NonEmpty(merger.segs)
    BY <2>1 DEF Sound, NonEmpty
  <2>3. up => root.upto = Batched /\ Content(root.segs) = history[root.upto + 1]
    BY DEF IInv, Contents, Reaches
  <2> QED
    BY <2>2, <2>3 DEF RootHoldsHistory
<1> QED
  BY <1>1, SpecIInv, PTL

=============================================================================
