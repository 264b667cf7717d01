--------------------------- MODULE PromiseProofs ---------------------------
(***************************************************************************)
(* What the callers of the index are promised, whatever its parts do, for   *)
(* any batches, texts, searches and readers.  Batches: an acknowledged one  *)
(* is never lost (DurableIndex, which IndexWriter implements).  Texts: what *)
(* is imported is what was given (TextImport).  Searches: they do not meet  *)
(* in the iterators they share (SnapshotPostings), and what they work with  *)
(* stays there while others close it (VectorReaders); a page of results has  *)
(* exactly the best matches (TopN).                                          *)
(*                                                                         *)
(* Each part has an inductive invariant, one lemma for every action, and    *)
(* the theorem at its end.                                                 *)
(***************************************************************************)
EXTENDS DurableIndex, TextImport, SnapshotPostings, VectorReaders, TopN,
        FiniteSetTheorems, NaturalsInduction, SequenceTheorems, WellFoundedInduction, TLAPS

(* Batches *)

\* The identifiers that batches write, and the contents that they leave.
Written == UNION {b.upd : b \in Batches}

Contents == SUBSET (Written \X Nat)

HistoryTyped == states \in Seq(Contents) /\ saved \in Nat /\ acked \in Nat

HistoryInv == HistoryTyped /\ NothingAckedIsLost

\* A batch turns a content into a content.
LEMMA AppliedType ==
  ASSUME NEW content \in Contents, NEW b \in Batches, NEW n \in Nat
  PROVE  Applied(content, b, n) \in Contents
<1>1. b.upd \X {n} \subseteq Written \X Nat
  <2>1. b.upd \subseteq Written
    BY DEF Written
  <2> QED
    BY <2>1
<1>2. {d \in content : d[1] \notin b.upd \cup b.del} \subseteq content
  OBVIOUS
<1> QED
  BY <1>1, <1>2 DEF Applied, Contents

\* An empty index has nothing to lose.
LEMMA HistoryInitially == Init => HistoryInv
  BY DEF Init, HistoryInv, HistoryTyped, Contents, NothingAckedIsLost

\* Batches add to the history, saves and acknowledgements move forward within
\* it, and a crash goes back to what was saved.
LEMMA HistoryInductive == HistoryInv /\ [Next]_vars => HistoryInv'
<1> SUFFICES ASSUME HistoryInv, [Next]_vars PROVE HistoryInv'
  OBVIOUS
<1> USE DEF HistoryInv, HistoryTyped, NothingAckedIsLost
<1>1. CASE Apply
  <2> PICK b \in Batches :
         states' = Append(states, Applied(states[Len(states)], b, Len(states)))
    BY <1>1 DEF Apply
  <2>1. Len(states) \in 1 .. Len(states)
    OBVIOUS
  <2>2. states[Len(states)] \in Contents
    BY <2>1
  <2>3. Applied(states[Len(states)], b, Len(states)) \in Contents
    BY <2>2, AppliedType
  <2>4. states' \in Seq(Contents) /\ Len(states') = Len(states) + 1
    BY <2>3
  <2> QED
    BY <1>1, <2>4 DEF Apply
<1>2. CASE Save
  BY <1>2 DEF Save
<1>3. CASE Ack
  BY <1>3 DEF Ack
<1>4. CASE Crash
  <2>1. saved + 1 \in 1 .. Len(states)
    OBVIOUS
  <2>2. SubSeq(states, 1, saved + 1) \in Seq(Contents) /\ Len(SubSeq(states, 1, saved + 1)) = saved + 1
    BY <2>1
  <2> QED
    BY <1>4, <2>2 DEF Crash
<1>5. CASE UNCHANGED vars
  BY <1>5 DEF vars
<1> QED
  BY <1>1, <1>2, <1>3, <1>4, <1>5 DEF Next

\* Whatever batches, saves and crashes happen, everything acknowledged is in what
\* a reopened index holds.
THEOREM Promise == Spec => []NothingAckedIsLost
<1>1. HistoryInv => NothingAckedIsLost
  BY DEF HistoryInv
<1> QED
  BY <1>1, HistoryInitially, HistoryInductive, PTL DEF Spec

-----------------------------------------------------------------------------
(* Iterators that searches share *)

IsIterator(i) ==
  i = [term |-> i.term, offset |-> i.offset, curr |-> i.curr, left |-> i.left]

\* What an iterator is, of its struct and the slices of all.
Seen(o, slices) ==
  [term |-> o.term, offset |-> o.offset, curr |-> o.curr, left |-> slices[o.array]]

\* The iterators that a search has, or may get.
InPlay(p) ==
  \/ \E s \in Searches : using[s] = p
  \/ \E k \in 1 .. Len(pool) : pool[k] = p

IteratorsTyped ==
  /\ opens \in Nat /\ opens <= MaxOpens /\ rewound \subseteq 1 .. opens
  /\ pool \in Seq(Nat) /\ \A k \in 1 .. Len(pool) : pool[k] \in 1 .. opens
  /\ using \in [Searches -> 0 .. opens]
  /\ DOMAIN objects = 1 .. MaxOpens /\ DOMAIN arrays = 1 .. MaxOpens
  /\ DOMAIN own = Searches /\ DOMAIN replies = Searches
  /\ \A s \in Searches : IsIterator(own[s])

\* A struct has a slice of its own when it is made.
SlicesTyped ==
  \A p \in 1 .. MaxOpens :
    /\ p <= opens => objects[p].array \in 1 .. opens
    /\ p > opens => objects[p].array = p

\* What is in the pool is nobody's, and there once.
Pooled ==
  \A k \in 1 .. Len(pool) : pool[k] \notin rewound =>
    /\ \A s \in Searches : using[s] # pool[k]
    /\ \A j \in 1 .. Len(pool) : j # k => pool[j] # pool[k]

\* No two searches have the same iterator, ...
Apart ==
  \A s, q \in Searches : s # q /\ using[s] # 0 /\ using[s] = using[q] => using[s] \in rewound

\* ... nor two of their iterators the same slices.
SlicesApart ==
  \A p, q \in 1 .. opens :
    InPlay(p) /\ InPlay(q) /\ p # q /\ p \notin rewound => objects[p].array # objects[q].array

OwnIterator(s) ==
  using[s] \notin rewound => /\ using[s] # 0 => Seen(objects[using[s]], arrays) = own[s]
                             /\ replies[s][1] = replies[s][2]

IteratorsInv ==
  /\ IteratorsTyped /\ SlicesTyped /\ Pooled /\ Apart /\ SlicesApart
  /\ \A s \in Searches : OwnIterator(s)

\* The last of a sequence, and what is left without it.
LEMMA FrontAndLast ==
  ASSUME NEW S, NEW some \in Seq(S), some # <<>>
  PROVE  /\ Front(some) \in Seq(S) /\ Len(some) \in Nat /\ Len(some) >= 1
         /\ Len(Front(some)) = Len(some) - 1
         /\ \A k \in 1 .. Len(some) - 1 : Front(some)[k] = some[k]
         /\ Last(some) = some[Len(some)] /\ Last(some) \in S
<1>1. Len(some) \in Nat /\ Len(some) >= 1
  OBVIOUS
<1>2. Front(some) = SubSeq(some, 1, Len(some) - 1) /\ Last(some) = some[Len(some)]
  BY DEF Front, Last
<1> DEFINE n == Len(some) - 1
<1>3. n \in 0 .. Len(some) /\ 1 \in 1 .. Len(some) + 1 /\ 1 <= n + 1
  BY <1>1
<1>4. /\ SubSeq(some, 1, n) \in Seq(S) /\ Len(SubSeq(some, 1, n)) = n
      /\ \A k \in 1 .. n : SubSeq(some, 1, n)[k] = some[k]
  <2>1. \A k \in 1 .. n : some[k] \in S
    BY <1>1
  <2>2. SubSeq(some, 1, n) = [k \in 1 .. n |-> some[k]]
    BY <1>1
  <2>3. n \in Nat
    BY <1>3
  <2> HIDE DEF n
  <2> QED
    BY <2>1, <2>2, <2>3
<1>5. some[Len(some)] \in S
  BY <1>1
<1> QED
  BY <1>1, <1>2, <1>4, <1>5

\* At the start there are no iterators.
LEMMA IteratorsInitially == IteratorsInit => IteratorsInv
<1> SUFFICES ASSUME IteratorsInit PROVE IteratorsInv
  OBVIOUS
<1>1. MaxOpens \in Nat /\ opens = 0 /\ rewound = {} /\ pool = <<>> /\ Len(pool) = 0
  BY SnapshotPostingsAssumption DEF IteratorsInit
<1>2. \A s \in Searches : using[s] = 0 /\ replies[s] = <<-1, -1>> /\ own[s] = Fresh(1)
  BY DEF IteratorsInit
<1>3. IteratorsTyped
  <2>1. IsIterator(Fresh(1))
    BY DEF IsIterator, Fresh
  <2>2. /\ using \in [Searches -> 0 .. opens] /\ DOMAIN objects = 1 .. MaxOpens
        /\ DOMAIN arrays = 1 .. MaxOpens /\ DOMAIN own = Searches /\ DOMAIN replies = Searches
    BY <1>1 DEF IteratorsInit
  <2>3. pool \in Seq(Nat) /\ \A k \in 1 .. Len(pool) : pool[k] \in 1 .. opens
    BY <1>1
  <2> QED
    BY <1>1, <1>2, <2>1, <2>2, <2>3 DEF IteratorsTyped
<1>4. SlicesTyped
  BY <1>1 DEF IteratorsInit, SlicesTyped, Struct
<1>5. Pooled /\ Apart /\ SlicesApart
  BY <1>1, <1>2 DEF Pooled, Apart, SlicesApart
<1>6. \A s \in Searches : OwnIterator(s)
  BY <1>2 DEF OwnIterator
<1> QED
  BY <1>3, <1>4, <1>5, <1>6 DEF IteratorsInv

\* A step of an iterator leaves one.
LEMMA IteratorStays ==
  ASSUME NEW i, IsIterator(i), NEW n, NEW t
  PROVE  IsIterator(Fresh(t)) /\ IsIterator(Following(i).i) /\ IsIterator(Onwards(i, n).i)
<1>1. ASSUME NEW j, IsIterator(j), NEW c
      PROVE  /\ IsIterator([j EXCEPT !.offset = c]) /\ IsIterator([j EXCEPT !.curr = c])
             /\ IsIterator([j EXCEPT !.left = c])
  <2>1. PICK t0, o0, c0, l0 : j = [term |-> t0, offset |-> o0, curr |-> c0, left |-> l0]
    BY <1>1 DEF IsIterator
  <2>2. [j EXCEPT !.offset = c] = [term |-> t0, offset |-> c, curr |-> c0, left |-> l0]
    BY <2>1
  <2>3. [j EXCEPT !.curr = c] = [term |-> t0, offset |-> o0, curr |-> c, left |-> l0]
    BY <2>1
  <2>4. [j EXCEPT !.left = c] = [term |-> t0, offset |-> o0, curr |-> c0, left |-> c]
    BY <2>1
  <2> QED
    BY <2>2, <2>3, <2>4 DEF IsIterator
<1>2. ASSUME NEW j, IsIterator(j) PROVE IsIterator(Following(j).i)
  BY <1>1, <1>2 DEF Following
<1>3. IsIterator(Onwards(i, n).i)
  BY <1>1, <1>2 DEF Onwards
<1>4. IsIterator(Fresh(t))
  BY DEF IsIterator, Fresh
<1> QED
  BY <1>2, <1>3, <1>4

\* What is written to one iterator is what the next look at it finds; the others, if they
\* have other slices, are as before.
WrittenAt(p, a, i) ==
  /\ Seen(objects'[p], arrays') = i /\ objects'[p].array = a
  /\ \A q : objects'[q] = objects[q] /\ objects[q].array # a
              => Seen(objects'[q], arrays') = Seen(objects[q], arrays)

\* Writing a struct and its slices is such.
LEMMA WrittenIs ==
  ASSUME NEW p, NEW a, NEW i, IsIterator(i), a \in DOMAIN arrays,
         objects'[p] = Struct(i, a), arrays' = [arrays EXCEPT ![a] = i.left]
  PROVE  WrittenAt(p, a, i)
<1>1. arrays'[a] = i.left /\ \A b : b # a => arrays'[b] = arrays[b]
  OBVIOUS
<1>2. /\ objects'[p].array = a /\ objects'[p].term = i.term /\ objects'[p].offset = i.offset
      /\ objects'[p].curr = i.curr
  BY DEF Struct
<1>3. Seen(objects'[p], arrays') = [term |-> i.term, offset |-> i.offset, curr |-> i.curr, left |-> i.left]
  BY <1>1, <1>2 DEF Seen
<1> QED
  BY <1>1, <1>2, <1>3 DEF Seen, IsIterator, WrittenAt

\* The iterator that is opened next is nobody's, and so are its slices.
LEMMA AllocatedIs ==
  ASSUME IteratorsInv, opens < MaxOpens
  PROVE  /\ Allocated \in 1 .. opens + 1 /\ Allocated \in 1 .. MaxOpens
         /\ objects[Allocated].array \in 1 .. opens + 1
         /\ Popped(pool) \in Seq(Nat)
         /\ \A k \in 1 .. Len(Popped(pool)) :
              k \in 1 .. Len(pool) /\ Popped(pool)[k] = pool[k] /\ pool[k] \in 1 .. opens
         /\ Allocated \notin rewound =>
              /\ \A s \in Searches : using[s] # Allocated
              /\ \A k \in 1 .. Len(Popped(pool)) : pool[k] # Allocated
         /\ \A p \in 1 .. opens :
              InPlay(p) /\ p # Allocated /\ (p \notin rewound \/ Allocated \notin rewound)
                => objects[p].array # objects[Allocated].array
<1>1. /\ opens \in Nat /\ MaxOpens \in Nat /\ pool \in Seq(Nat)
      /\ \A k \in 1 .. Len(pool) : pool[k] \in 1 .. opens
      /\ rewound \subseteq 1 .. opens /\ \A s \in Searches : using[s] \in 0 .. opens
      /\ SlicesTyped /\ Pooled /\ SlicesApart
  BY SnapshotPostingsAssumption DEF IteratorsInv, IteratorsTyped
<1>2. CASE pool # <<>>
  <2> DEFINE q == pool[Len(pool)]
  <2>0. /\ Front(pool) \in Seq(Nat) /\ Len(pool) \in Nat /\ Len(pool) >= 1
        /\ Len(Front(pool)) = Len(pool) - 1 /\ Last(pool) = q
        /\ \A k \in 1 .. Len(pool) - 1 : Front(pool)[k] = pool[k]
    BY <1>1, <1>2, FrontAndLast
  <2>1. /\ Popped(pool) \in Seq(Nat) /\ Len(pool) \in Nat /\ Len(pool) >= 1
        /\ Len(Popped(pool)) = Len(pool) - 1
        /\ \A k \in 1 .. Len(pool) - 1 : Popped(pool)[k] = pool[k]
        /\ Allocated = q /\ q \in 1 .. opens
    <3>1. Popped(pool) = Front(pool) /\ Allocated = Last(pool)
      BY <1>2 DEF Popped, Allocated
    <3>2. q \in 1 .. opens
      BY <1>1, <2>0
    <3> QED
      BY <2>0, <3>1, <3>2
  <2>2. \A k \in 1 .. Len(Popped(pool)) : k \in 1 .. Len(pool) /\ k # Len(pool) /\ Popped(pool)[k] = pool[k] /\ pool[k] \in 1 .. opens
    BY <1>1, <2>1
  <2>3. Len(pool) \in 1 .. Len(pool)
    BY <2>1
  <2>4. InPlay(q)
    BY <2>3 DEF InPlay
  <2>5. q \notin rewound => /\ \A s \in Searches : using[s] # q
                            /\ \A k \in 1 .. Len(Popped(pool)) : pool[k] # q
    BY <1>1, <2>2, <2>3 DEF Pooled
  <2>6. q \in 1 .. MaxOpens /\ q \in 1 .. opens + 1 /\ objects[q].array \in 1 .. opens + 1
    BY <1>1, <2>1 DEF SlicesTyped
  <2> HIDE DEF q
  <2>7. ASSUME NEW p \in 1 .. opens, InPlay(p), p # q, p \notin rewound \/ q \notin rewound
        PROVE  objects[p].array # objects[q].array
    BY <1>1, <2>1, <2>4, <2>7 DEF SlicesApart
  <2> QED
    BY <2>1, <2>2, <2>5, <2>6, <2>7
<1>3. CASE pool = <<>>
  <2>1. Allocated = opens + 1 /\ Popped(pool) = pool /\ Len(Popped(pool)) = 0
    BY <1>3 DEF Allocated, Popped
  <2>2. opens + 1 \in 1 .. MaxOpens /\ opens + 1 \in 1 .. opens + 1 /\ opens + 1 > opens
    BY <1>1
  <2>3. objects[opens + 1].array = opens + 1
    BY <1>1, <2>2 DEF SlicesTyped
  <2>4. \A p \in 1 .. opens : p \in 1 .. MaxOpens /\ p # opens + 1 /\ p <= opens
    BY <1>1
  <2>5. \A p \in 1 .. opens : objects[p].array \in 1 .. opens
    BY <1>1, <2>4 DEF SlicesTyped
  <2>6. \A p \in 1 .. opens : objects[p].array # opens + 1
    BY <1>1, <2>4, <2>5
  <2>7. \A s \in Searches : using[s] # opens + 1
    BY <1>1
  <2> QED
    BY <1>1, <2>1, <2>2, <2>3, <2>6, <2>7
<1> QED
  BY <1>2, <1>3

\* A search opens an iterator that nobody has.
LEMMA OpenItKeeps ==
  ASSUME IteratorsInv, NEW s \in Searches, NEW t \in DOMAIN TermDocs, OpenIt(s, t)
  PROVE  IteratorsInv'
<1> DEFINE p == Allocated
           a == objects[p].array
           i == Fresh(t)
<1>1. /\ IteratorsTyped /\ SlicesTyped /\ Pooled /\ Apart /\ SlicesApart
      /\ \A q \in Searches : OwnIterator(q)
  BY DEF IteratorsInv
<1>2. /\ opens < MaxOpens /\ objects' = [objects EXCEPT ![p] = Struct(i, a)]
      /\ arrays' = [arrays EXCEPT ![a] = i.left]
      /\ pool' = Popped(pool) /\ using' = [using EXCEPT ![s] = p]
      /\ own' = [own EXCEPT ![s] = i] /\ replies' = [replies EXCEPT ![s] = <<-1, -1>>]
      /\ opens' = opens + 1 /\ rewound' = rewound /\ using[s] = 0
  BY DEF OpenIt, Prepared
<1>3. /\ p \in 1 .. opens + 1 /\ p \in 1 .. MaxOpens /\ a \in 1 .. opens + 1
      /\ pool' \in Seq(Nat)
      /\ \A k \in 1 .. Len(pool') :
              k \in 1 .. Len(pool) /\ pool'[k] = pool[k] /\ pool[k] \in 1 .. opens
      /\ p \notin rewound => /\ \A q \in Searches : using[q] # p
                             /\ \A k \in 1 .. Len(pool') : pool[k] # p
      /\ \A q \in 1 .. opens : InPlay(q) /\ q # p /\ (q \notin rewound \/ p \notin rewound)
                                 => objects[q].array # a
  BY <1>2, AllocatedIs
<1> HIDE DEF p
<1>4. /\ opens \in Nat /\ MaxOpens \in Nat /\ rewound \subseteq 1 .. opens
      /\ DOMAIN objects = 1 .. MaxOpens /\ DOMAIN using = Searches /\ DOMAIN own = Searches
      /\ DOMAIN replies = Searches /\ \A q \in Searches : using[q] \in 0 .. opens
  BY <1>1, SnapshotPostingsAssumption DEF IteratorsTyped
<1>5. a \in 1 .. MaxOpens
  BY <1>2, <1>3, <1>4
<1> HIDE DEF a
<1>6. IsIterator(i)
  BY DEF IsIterator, Fresh
<1> HIDE DEF i
<1>7. /\ DOMAIN objects' = DOMAIN objects /\ objects'[p] = Struct(i, a)
      /\ \A q : q # p => objects'[q] = objects[q]
  BY <1>2, <1>3, <1>4
<1>8. /\ Seen(objects'[p], arrays') = i /\ objects'[p].array = a
      /\ \A q : q # p /\ objects[q].array # a => Seen(objects'[q], arrays') = Seen(objects[q], arrays)
  <2>1. WrittenAt(p, a, i)
    BY <1>1, <1>2, <1>5, <1>6, <1>7, WrittenIs DEF IteratorsTyped
  <2> QED
    BY <1>7, <2>1 DEF WrittenAt
<1>9. /\ using'[s] = p /\ own'[s] = i /\ replies'[s] = <<-1, -1>>
      /\ \A q \in Searches : q # s => using'[q] = using[q] /\ own'[q] = own[q] /\ replies'[q] = replies[q]
  BY <1>2, <1>4
<1>10. \A q : objects'[q].array = objects[q].array
  BY <1>7, <1>8 DEF a
<1>11. \A q : InPlay(q)' => InPlay(q) \/ q = p
  BY <1>3, <1>9 DEF InPlay
<1>12. IteratorsTyped'
  <2>1. pool' \in Seq(Nat) /\ \A k \in 1 .. Len(pool') : pool'[k] \in 1 .. opens'
    <3>1. \A k : k \in 1 .. opens => k \in 1 .. opens'
      BY <1>2, <1>4
    <3> QED
      BY <1>3, <3>1
  <2>2. using' \in [Searches -> 0 .. opens']
    <3>1. p \in 0 .. opens + 1 /\ \A q \in Searches : using[q] \in 0 .. opens + 1
      BY <1>3, <1>4
    <3> QED
      BY <1>1, <1>2, <3>1 DEF IteratorsTyped
  <2>3. DOMAIN arrays' = DOMAIN arrays /\ DOMAIN own' = Searches /\ DOMAIN replies' = Searches
    BY <1>2, <1>4
  <2>4. \A q \in Searches : IsIterator(own'[q])
    BY <1>1, <1>6, <1>9 DEF IteratorsTyped
  <2>5. opens' \in Nat /\ opens' <= MaxOpens /\ rewound' \subseteq 1 .. opens'
    BY <1>2, <1>4
  <2> QED
    BY <1>1, <1>7, <2>1, <2>2, <2>3, <2>4, <2>5 DEF IteratorsTyped, IsIterator
<1>13. SlicesTyped'
  <2>1. ASSUME NEW q \in 1 .. MaxOpens
        PROVE  /\ q <= opens' => objects'[q].array \in 1 .. opens'
               /\ q > opens' => objects'[q].array = q
    <3>1. CASE q <= opens
      BY <1>1, <1>2, <1>4, <1>10, <3>1 DEF SlicesTyped
    <3>2. CASE q > opens
      <4>1. objects'[q].array = q
        BY <1>1, <1>10, <3>2 DEF SlicesTyped
      <4> QED
        BY <1>2, <1>4, <4>1
    <3> QED
      BY <1>4, <3>1, <3>2
  <2> QED
    BY <2>1 DEF SlicesTyped
<1>14. Pooled'
  BY <1>1, <1>2, <1>3, <1>9 DEF Pooled
<1>15. Apart'
  BY <1>1, <1>2, <1>3, <1>9 DEF Apart
<1>16. SlicesApart'
  <2> SUFFICES ASSUME NEW q \in 1 .. opens', NEW r \in 1 .. opens', InPlay(q)', InPlay(r)', q # r,
                      q \notin rewound
               PROVE  objects'[q].array # objects'[r].array
    BY <1>2 DEF SlicesApart
  <2>1. \A e \in 1 .. opens' : InPlay(e) => e \in 1 .. opens
    BY <1>1, <1>2, <1>4 DEF InPlay, IteratorsTyped
  <2>2. CASE q = p
    BY <1>3, <1>10, <1>11, <2>1, <2>2 DEF a
  <2>3. CASE r = p
    BY <1>3, <1>10, <1>11, <2>1, <2>3 DEF a
  <2>4. CASE q # p /\ r # p
    BY <1>1, <1>10, <1>11, <2>1, <2>4 DEF SlicesApart
  <2> QED
    BY <2>2, <2>3, <2>4
<1>17. ASSUME NEW q \in Searches PROVE OwnIterator(q)'
  <2>1. CASE q = s
    BY <1>8, <1>9, <2>1 DEF OwnIterator
  <2>2. CASE q # s
    <3>1. ASSUME using[q] # 0, using[q] \notin rewound PROVE Seen(objects'[using[q]], arrays') = own[q]
      <4>1. InPlay(using[q]) /\ using[q] \in 1 .. opens /\ using[q] # p
        BY <1>3, <1>4, <3>1 DEF InPlay
      <4>2. Seen(objects'[using[q]], arrays') = Seen(objects[using[q]], arrays)
        BY <1>3, <1>8, <3>1, <4>1
      <4> QED
        BY <1>1, <3>1, <4>2 DEF OwnIterator
    <3>2. using'[q] = using[q] /\ own'[q] = own[q] /\ replies'[q] = replies[q] /\ OwnIterator(q)
      BY <1>1, <1>9, <2>2
    <3> QED
      BY <1>2, <3>1, <3>2 DEF OwnIterator
  <2> QED
    BY <2>1, <2>2
<1> QED
  BY <1>12, <1>13, <1>14, <1>15, <1>16, <1>17 DEF IteratorsInv

\* A search goes on with its iterator: if nobody else's going backwards gave it away, then
\* it goes on as its own would, and the iterators of the others stay.
LEMMA MovesOn ==
  ASSUME IteratorsInv, NEW s \in Searches, using[s] # 0, NEW i, IsIterator(i), NEW j, IsIterator(j),
         NEW d, NEW e, using[s] \notin rewound => i = j /\ d = e,
         objects' = [objects EXCEPT ![using[s]] = Struct(i, objects[using[s]].array)],
         arrays' = [arrays EXCEPT ![objects[using[s]].array] = i.left],
         own' = [own EXCEPT ![s] = j], replies' = [replies EXCEPT ![s] = <<d, e>>],
         UNCHANGED <<pool, using, opens, rewound>>
  PROVE  IteratorsInv'
<1> DEFINE p == using[s]
           a == objects[p].array
<1>1. /\ IteratorsTyped /\ SlicesTyped /\ Pooled /\ Apart /\ SlicesApart
      /\ \A q \in Searches : OwnIterator(q)
  BY DEF IteratorsInv
<1>2. /\ opens \in Nat /\ MaxOpens \in Nat /\ opens <= MaxOpens
      /\ DOMAIN objects = 1 .. MaxOpens /\ DOMAIN own = Searches /\ DOMAIN arrays = 1 .. MaxOpens
      /\ DOMAIN replies = Searches /\ \A q \in Searches : using[q] \in 0 .. opens
  BY <1>1, SnapshotPostingsAssumption DEF IteratorsTyped
<1>3. p \in 1 .. opens /\ p \in 1 .. MaxOpens /\ p <= opens
  BY <1>2
<1>4. a \in DOMAIN arrays
  BY <1>1, <1>2, <1>3 DEF SlicesTyped
<1>5. /\ DOMAIN objects' = DOMAIN objects /\ objects'[p] = Struct(i, a)
      /\ \A q : q # p => objects'[q] = objects[q]
  BY <1>2, <1>3
<1>6. /\ own'[s] = j /\ replies'[s] = <<d, e>> /\ using' = using
      /\ \A q \in Searches : q # s => own'[q] = own[q] /\ replies'[q] = replies[q]
  BY <1>2
<1>7. arrays' = [arrays EXCEPT ![a] = i.left]
  OBVIOUS
<1> HIDE DEF p
<1> HIDE DEF a
<1>8. WrittenAt(p, a, i)
  BY <1>4, <1>5, <1>7, WrittenIs
<1>9. \A q : objects'[q].array = objects[q].array
  BY <1>5, <1>8 DEF WrittenAt, a
<1>10. \A q : InPlay(q)' = InPlay(q)
  BY DEF InPlay
<1>11. IteratorsTyped'
  <2>1. DOMAIN arrays' = DOMAIN arrays /\ DOMAIN own' = Searches /\ DOMAIN replies' = Searches
    BY <1>2, <1>7
  <2>2. \A q \in Searches : IsIterator(own'[q])
    BY <1>1, <1>6 DEF IteratorsTyped
  <2> QED
    BY <1>1, <1>5, <2>1, <2>2 DEF IteratorsTyped, IsIterator
<1>12. SlicesTyped'
  BY <1>1, <1>9 DEF SlicesTyped
<1>13. Pooled' /\ Apart'
  BY <1>1 DEF Pooled, Apart
<1>14. SlicesApart'
  BY <1>1, <1>9, <1>10 DEF SlicesApart
<1>15. ASSUME NEW q \in Searches PROVE OwnIterator(q)'
  <2>1. CASE q = s
    BY <1>5, <1>6, <1>8, <2>1 DEF OwnIterator, WrittenAt, p
  <2>2. CASE q # s
    <3>1. ASSUME using[q] # 0, using[q] \notin rewound
          PROVE  Seen(objects'[using[q]], arrays') = own[q]
      <4>1. using[q] \in 1 .. opens /\ InPlay(using[q]) /\ InPlay(p) /\ using[q] # p
        BY <1>1, <1>2, <2>2, <3>1 DEF InPlay, Apart, p
      <4>2. objects[using[q]].array # a
        BY <1>1, <1>3, <3>1, <4>1 DEF SlicesApart, a
      <4>3. Seen(objects'[using[q]], arrays') = Seen(objects[using[q]], arrays)
        BY <1>5, <1>8, <4>1, <4>2 DEF WrittenAt
      <4> QED
        BY <1>1, <3>1, <4>3 DEF OwnIterator
    <3>2. own'[q] = own[q] /\ replies'[q] = replies[q] /\ OwnIterator(q)
      BY <1>1, <1>6, <2>2
    <3> QED
      BY <1>6, <3>1, <3>2 DEF OwnIterator
  <2> QED
    BY <2>1, <2>2
<1> QED
  BY <1>11, <1>12, <1>13, <1>14, <1>15 DEF IteratorsInv

\* Next is such a step.
LEMMA AskNextKeeps ==
  ASSUME IteratorsInv, NEW s \in Searches, AskNext(s)
  PROVE  IteratorsInv'
<1> DEFINE o   == At(using[s])
           got == Following(o)
           tru == Following(own[s])
<1>1. IteratorsTyped /\ OwnIterator(s) /\ IsIterator(own[s])
  BY DEF IteratorsInv, IteratorsTyped
<1>2. /\ using[s] # 0
      /\ objects' = [objects EXCEPT ![using[s]] = Struct(got.i, objects[using[s]].array)]
      /\ arrays' = [arrays EXCEPT ![objects[using[s]].array] = got.i.left]
      /\ own' = [own EXCEPT ![s] = tru.i]
      /\ replies' = [replies EXCEPT ![s] = <<got.doc, tru.doc>>]
      /\ UNCHANGED <<pool, using, opens, rewound>>
  BY DEF AskNext
<1>3. IsIterator(o)
  BY DEF At, IsIterator
<1>4. using[s] \notin rewound => o = own[s]
  BY <1>1, <1>2 DEF OwnIterator, At, Seen
<1> HIDE DEF o
<1>5. using[s] \notin rewound => got.i = tru.i /\ got.doc = tru.doc
  BY <1>4
<1>6. IsIterator(got.i) /\ IsIterator(tru.i)
  BY <1>1, <1>3, IteratorStays
<1> HIDE DEF got
<1> HIDE DEF tru
<1> QED
  BY <1>2, <1>5, <1>6, MovesOn

\* Advance onwards is, too.
LEMMA AskAdvanceKeeps ==
  ASSUME IteratorsInv, NEW s \in Searches, NEW n \in 0 .. DocCount - 1, AskAdvance(s, n)
  PROVE  IteratorsInv'
<1> DEFINE o   == At(using[s])
           got == Onwards(o, n)
           old == IF Backwards(own[s], n) THEN Fresh(own[s].term) ELSE own[s]
           tru == Onwards(old, n)
<1>1. IteratorsTyped /\ OwnIterator(s) /\ IsIterator(own[s])
  BY DEF IteratorsInv, IteratorsTyped
<1>2. /\ using[s] # 0 /\ ~Backwards(o, n)
      /\ objects' = [objects EXCEPT ![using[s]] = Struct(got.i, objects[using[s]].array)]
      /\ arrays' = [arrays EXCEPT ![objects[using[s]].array] = got.i.left]
      /\ own' = [own EXCEPT ![s] = tru.i]
      /\ replies' = [replies EXCEPT ![s] = <<got.doc, tru.doc>>]
      /\ UNCHANGED <<pool, using, opens, rewound>>
  BY DEF AskAdvance, AdvancesTo
<1>3. IsIterator(o) /\ IsIterator(Fresh(own[s].term))
  BY DEF At, IsIterator, Fresh
<1>4. using[s] \notin rewound => o = own[s]
  BY <1>1, <1>2 DEF OwnIterator, At, Seen
<1> HIDE DEF o
<1>5. using[s] \notin rewound => old = o
  BY <1>2, <1>4
<1>6. IsIterator(old)
  BY <1>1, <1>3
<1> HIDE DEF old
<1>7. using[s] \notin rewound => got.i = tru.i /\ got.doc = tru.doc
  BY <1>5
<1>8. IsIterator(got.i) /\ IsIterator(tru.i)
  BY <1>3, <1>6, IteratorStays
<1> HIDE DEF got
<1> HIDE DEF tru
<1> QED
  BY <1>2, <1>7, <1>8, MovesOn

\* A search goes backwards: its iterator takes over the slices of another one, which was
\* nobody's or is in the hands of those only that the exception is about.
LEMMA AskRewindKeeps ==
  ASSUME IteratorsInv, NEW s \in Searches, NEW n \in 0 .. DocCount - 1, AskRewind(s, n)
  PROVE  IteratorsInv'
<1> DEFINE p   == using[s]
           q   == Allocated
           a   == objects[q].array
           i   == Fresh(objects[p].term)
           got == Onwards(i, n)
           tru == Onwards(IF Backwards(own[s], n) THEN Fresh(own[s].term) ELSE own[s], n)
<1>1. /\ IteratorsTyped /\ SlicesTyped /\ Pooled /\ Apart /\ SlicesApart
      /\ \A r \in Searches : OwnIterator(r)
  BY DEF IteratorsInv
<1>2. /\ p # 0 /\ Backwards(At(p), n) /\ opens < MaxOpens
      /\ objects' = [objects EXCEPT ![q] = Struct(i, a), ![p] = Struct(got.i, a)]
      /\ arrays' = [arrays EXCEPT ![a] = got.i.left]
      /\ pool' = Recycled(Popped(pool), p) /\ opens' = opens + 1 /\ using' = using
      /\ own' = [own EXCEPT ![s] = tru.i]
      /\ replies' = [replies EXCEPT ![s] = <<got.doc, tru.doc>>]
      /\ rewound' = IF newest \/ q \in rewound THEN rewound \cup {p} ELSE rewound
  BY DEF AskRewind, AdvancesTo, Prepared
<1>3. /\ q \in 1 .. opens + 1 /\ q \in 1 .. MaxOpens /\ a \in 1 .. opens + 1
      /\ Popped(pool) \in Seq(Nat)
      /\ \A k \in 1 .. Len(Popped(pool)) :
           k \in 1 .. Len(pool) /\ Popped(pool)[k] = pool[k] /\ pool[k] \in 1 .. opens
      /\ q \notin rewound => /\ \A r \in Searches : using[r] # q
                             /\ \A k \in 1 .. Len(Popped(pool)) : pool[k] # q
      /\ \A r \in 1 .. opens : InPlay(r) /\ r # q /\ (r \notin rewound \/ q \notin rewound)
                                 => objects[r].array # a
  BY <1>1, <1>2, AllocatedIs
<1> HIDE DEF q
<1>4. /\ opens \in Nat /\ MaxOpens \in Nat /\ rewound \subseteq 1 .. opens
      /\ DOMAIN objects = 1 .. MaxOpens /\ DOMAIN own = Searches /\ DOMAIN arrays = 1 .. MaxOpens
      /\ DOMAIN replies = Searches /\ \A r \in Searches : using[r] \in 0 .. opens
      /\ using \in [Searches -> 0 .. opens] /\ \A r \in Searches : IsIterator(own[r])
  BY <1>1, SnapshotPostingsAssumption DEF IteratorsTyped
<1>5. p \in 1 .. opens /\ p \in Nat /\ p \in 1 .. MaxOpens /\ a \in DOMAIN arrays
  BY <1>2, <1>3, <1>4
<1>6. p \notin rewound => got.i = tru.i /\ got.doc = tru.doc
  <2>1. ASSUME p \notin rewound PROVE At(p) = own[s]
    BY <1>1, <1>2, <2>1 DEF OwnIterator, At, Seen
  <2>2. objects[p].term = At(p).term
    BY DEF At
  <2> QED
    BY <1>2, <2>1, <2>2
<1>7. IsIterator(got.i) /\ IsIterator(tru.i)
  <2>1. IsIterator(Fresh(objects[p].term)) /\ IsIterator(Fresh(own[s].term)) /\ IsIterator(own[s])
    BY <1>4 DEF IsIterator, Fresh
  <2> QED
    BY <2>1, IteratorStays
<1> HIDE DEF a
<1> HIDE DEF got
<1> HIDE DEF tru
<1> HIDE DEF i
<1>8. /\ DOMAIN objects' = DOMAIN objects /\ objects'[p] = Struct(got.i, a)
      /\ \A r : r # p /\ r # q => objects'[r] = objects[r]
      /\ q # p => objects'[q] = Struct(i, a)
  <2> DEFINE o == [objects EXCEPT ![q] = Struct(i, a)]
  <2>1. o[q] = Struct(i, a) /\ DOMAIN o = DOMAIN objects /\ \A r : r # q => o[r] = objects[r]
    BY <1>3, <1>4
  <2>2. objects' = [o EXCEPT ![p] = Struct(got.i, a)]
    BY <1>2
  <2>3. p \in DOMAIN o
    BY <1>4, <1>5, <2>1
  <2> HIDE DEF o
  <2> HIDE DEF p
  <2> QED
    BY <2>1, <2>2, <2>3
<1>9. WrittenAt(p, a, got.i)
  BY <1>2, <1>5, <1>7, <1>8, WrittenIs
<1>10. objects'[p].array = a /\ \A r : r # p => objects'[r].array = objects[r].array
  <2>1. objects'[p].array = a /\ Struct(i, a).array = a
    BY <1>9 DEF WrittenAt, Struct
  <2>2. q # p => objects'[q].array = objects[q].array
    BY <1>8, <2>1 DEF a
  <2> QED
    BY <1>8, <2>1, <2>2
<1>11. /\ pool' \in Seq(Nat)
       /\ \A k \in 1 .. Len(pool') :
            \/ k \in 1 .. Len(Popped(pool)) /\ pool'[k] = pool[k]
            \/ newest /\ pool'[k] = p
  <2>1. CASE newest
    <3>1. pool' = Append(Popped(pool), p)
      BY <1>2, <2>1 DEF Recycled
    <3> QED
      BY <1>3, <1>5, <2>1, <3>1
  <2>2. CASE ~newest
    <3>1. pool' = Popped(pool)
      BY <1>2, <2>2 DEF Recycled
    <3> QED
      BY <1>3, <3>1
  <2> QED
    BY <2>1, <2>2
<1>12. /\ \A r : r \notin rewound' => r \notin rewound
       /\ p \notin rewound' => ~newest /\ q \notin rewound
  BY <1>2
<1>13. \A r : InPlay(r)' => InPlay(r)
  BY <1>2, <1>3, <1>11 DEF InPlay
<1>14. \A r : InPlay(r)' /\ r # p /\ (r \notin rewound \/ q \notin rewound) => r # q
  BY <1>2, <1>3, <1>11 DEF InPlay
<1>15. \A r : InPlay(r) => r \in 1 .. opens \/ r = 0
  BY <1>1, <1>4 DEF InPlay, IteratorsTyped
<1>16. IteratorsTyped'
  <2>1. \A k \in 1 .. Len(pool') : pool'[k] \in 1 .. opens
    BY <1>3, <1>5, <1>11
  <2>2. \A k : k \in 1 .. opens => k \in 1 .. opens'
    BY <1>2, <1>4
  <2>3. \A k : k \in 0 .. opens => k \in 0 .. opens'
    BY <1>2, <1>4
  <2>4. using' \in [Searches -> 0 .. opens']
    BY <1>2, <1>4, <2>3
  <2>5. opens' \in Nat /\ opens' <= MaxOpens /\ rewound' \subseteq 1 .. opens'
    BY <1>2, <1>4, <1>5, <2>2
  <2>6. DOMAIN arrays' = DOMAIN arrays /\ DOMAIN own' = Searches /\ DOMAIN replies' = Searches
    BY <1>2, <1>4
  <2>7. \A r \in Searches : IsIterator(own'[r])
    BY <1>2, <1>4, <1>7
  <2> QED
    BY <1>4, <1>8, <1>11, <2>1, <2>2, <2>4, <2>5, <2>6, <2>7 DEF IteratorsTyped, IsIterator
<1>17. SlicesTyped'
  <2>1. ASSUME NEW r \in 1 .. MaxOpens
        PROVE  /\ r <= opens' => objects'[r].array \in 1 .. opens'
               /\ r > opens' => objects'[r].array = r
    <3>1. CASE r = p
      BY <1>2, <1>3, <1>4, <1>5, <1>10, <3>1
    <3>2. CASE r # p /\ r <= opens
      <4>1. objects'[r].array \in 1 .. opens
        BY <1>1, <1>10, <3>2 DEF SlicesTyped
      <4> QED
        BY <1>2, <1>4, <3>2, <4>1
    <3>3. CASE r # p /\ r > opens
      <4>1. objects'[r].array = r
        BY <1>1, <1>10, <3>3 DEF SlicesTyped
      <4> QED
        BY <1>2, <1>4, <4>1
    <3> QED
      BY <1>4, <3>1, <3>2, <3>3
  <2> QED
    BY <2>1 DEF SlicesTyped
<1>18. Pooled'
  <2> SUFFICES ASSUME NEW k \in 1 .. Len(pool'), pool'[k] \notin rewound'
               PROVE  /\ \A r \in Searches : using[r] # pool'[k]
                      /\ \A j \in 1 .. Len(pool') : j # k => pool'[j] # pool'[k]
    BY <1>2 DEF Pooled
  <2>1. k \in 1 .. Len(pool) /\ pool'[k] = pool[k] /\ pool[k] \notin rewound /\ (newest => pool[k] # p)
    BY <1>2, <1>3, <1>11, <1>12
  <2>2. \A r \in Searches : using[r] # pool[k]
    BY <1>1, <2>1 DEF Pooled
  <2>3. \A j \in 1 .. Len(pool) : j # k => pool[j] # pool[k]
    BY <1>1, <2>1 DEF Pooled
  <2> QED
    BY <1>3, <1>11, <2>1, <2>2, <2>3
<1>19. Apart'
  BY <1>1, <1>2, <1>12 DEF Apart
<1>20. SlicesApart'
  <2> SUFFICES ASSUME NEW x \in 1 .. opens', NEW y \in 1 .. opens', InPlay(x)', InPlay(y)', x # y,
                      x \notin rewound'
               PROVE  objects'[x].array # objects'[y].array
    BY DEF SlicesApart
  <2>1. InPlay(x) /\ InPlay(y) /\ x \notin rewound
    BY <1>12, <1>13
  <2>2. x \in 1 .. opens /\ y \in 1 .. opens
    BY <1>2, <1>4, <1>15, <2>1
  <2>3. CASE x = p
    <3>1. q \notin rewound /\ y # q /\ y # p
      BY <1>12, <1>14, <2>3
    <3> QED
      BY <1>3, <1>10, <2>1, <2>2, <2>3, <3>1
  <2>4. CASE y = p
    <3>1. x # q /\ x # p
      BY <1>14, <2>1, <2>4
    <3> QED
      BY <1>3, <1>10, <2>1, <2>2, <2>4, <3>1
  <2>5. CASE x # p /\ y # p
    BY <1>1, <1>10, <2>1, <2>2, <2>5 DEF SlicesApart
  <2> QED
    BY <2>3, <2>4, <2>5
<1>21. ASSUME NEW r \in Searches PROVE OwnIterator(r)'
  <2>1. CASE r = s
    <3>1. own'[s] = tru.i /\ replies'[s] = <<got.doc, tru.doc>> /\ using'[s] = p
      BY <1>2, <1>4
    <3>2. Seen(objects'[p], arrays') = got.i
      BY <1>9 DEF WrittenAt
    <3> HIDE DEF p
    <3> QED
      BY <1>6, <1>12, <2>1, <3>1, <3>2 DEF OwnIterator
  <2>2. CASE r # s
    <3>1. own'[r] = own[r] /\ replies'[r] = replies[r] /\ OwnIterator(r) /\ using'[r] = using[r]
      BY <1>1, <1>2, <1>4, <2>2
    <3>2. ASSUME using[r] # 0, using[r] \notin rewound
          PROVE  Seen(objects'[using[r]], arrays') = own[r]
      <4>1. using[r] \in 1 .. opens /\ InPlay(using[r]) /\ using[r] # p
        BY <1>1, <1>4, <2>2, <3>2 DEF InPlay, Apart
      <4>2. using[r] # q
        BY <1>3, <3>2
      <4>3. objects[using[r]].array # a
        BY <1>3, <3>2, <4>1, <4>2
      <4>4. Seen(objects'[using[r]], arrays') = Seen(objects[using[r]], arrays)
        BY <1>8, <1>9, <4>1, <4>2, <4>3 DEF WrittenAt
      <4> QED
        BY <3>1, <3>2, <4>4 DEF OwnIterator
    <3> QED
      BY <1>12, <3>1, <3>2 DEF OwnIterator
  <2> QED
    BY <2>1, <2>2
<1> QED
  BY <1>16, <1>17, <1>18, <1>19, <1>20, <1>21 DEF IteratorsInv

\* A search closes its iterator: it goes to the pool, if nobody else has given it there, once.
LEMMA CloseItKeeps ==
  ASSUME IteratorsInv, NEW s \in Searches, CloseIt(s)
  PROVE  IteratorsInv'
<1> DEFINE p == using[s]
<1>1. /\ IteratorsTyped /\ SlicesTyped /\ Pooled /\ Apart /\ SlicesApart
      /\ \A r \in Searches : OwnIterator(r)
  BY DEF IteratorsInv
<1>2. /\ p # 0 /\ pool' = Recycled(pool, p) /\ using' = [using EXCEPT ![s] = 0]
      /\ own' = [own EXCEPT ![s] = Fresh(1)] /\ replies' = [replies EXCEPT ![s] = <<-1, -1>>]
      /\ objects' = objects /\ arrays' = arrays /\ opens' = opens /\ rewound' = rewound
  BY DEF CloseIt
<1>3. /\ opens \in Nat /\ DOMAIN own = Searches /\ DOMAIN replies = Searches
      /\ using \in [Searches -> 0 .. opens] /\ pool \in Seq(Nat)
      /\ \A k \in 1 .. Len(pool) : pool[k] \in 1 .. opens
  BY <1>1 DEF IteratorsTyped
<1>4. p \in 1 .. opens /\ p \in Nat
  BY <1>2, <1>3
<1>5. /\ using'[s] = 0 /\ own'[s] = Fresh(1) /\ replies'[s] = <<-1, -1>>
      /\ \A r \in Searches : r # s => using'[r] = using[r] /\ own'[r] = own[r] /\ replies'[r] = replies[r]
  BY <1>2, <1>3
<1>6. /\ pool' \in Seq(Nat)
      /\ \A k \in 1 .. Len(pool') :
           \/ k \in 1 .. Len(pool) /\ pool'[k] = pool[k]
           \/ k = Len(pool') /\ pool'[k] = p
  <2>1. CASE newest
    <3>1. pool' = Append(pool, p)
      BY <1>2, <2>1 DEF Recycled
    <3> QED
      BY <1>3, <1>4, <3>1
  <2>2. CASE ~newest
    <3>1. pool' = pool
      BY <1>2, <2>2 DEF Recycled
    <3> QED
      BY <1>3, <3>1
  <2> QED
    BY <2>1, <2>2
<1>7. \A r : r # 0 /\ InPlay(r)' => InPlay(r)
  BY <1>5, <1>6 DEF InPlay
<1>8. IteratorsTyped'
  <2>1. using' \in [Searches -> 0 .. opens]
    BY <1>2, <1>3
  <2>2. \A k \in 1 .. Len(pool') : pool'[k] \in 1 .. opens
    BY <1>3, <1>4, <1>6
  <2>3. IsIterator(Fresh(1)) /\ DOMAIN own' = Searches /\ DOMAIN replies' = Searches
    BY <1>2, <1>3 DEF IsIterator, Fresh
  <2>4. \A r \in Searches : IsIterator(own'[r])
    BY <1>1, <1>5, <2>3 DEF IteratorsTyped
  <2> QED
    BY <1>1, <1>2, <1>6, <2>1, <2>2, <2>3, <2>4 DEF IteratorsTyped, IsIterator
<1>9. SlicesTyped'
  BY <1>1, <1>2 DEF SlicesTyped
<1>10. Pooled'
  <2> SUFFICES ASSUME NEW k \in 1 .. Len(pool'), pool'[k] \notin rewound
               PROVE  /\ \A r \in Searches : using'[r] # pool'[k]
                      /\ \A j \in 1 .. Len(pool') : j # k => pool'[j] # pool'[k]
    BY <1>2 DEF Pooled
  <2>1. pool'[k] # 0
    <3>1. \A r : r \in 1 .. opens => r # 0
      BY <1>3
    <3>2. pool'[k] = p \/ (k \in 1 .. Len(pool) /\ pool'[k] = pool[k])
      BY <1>6
    <3> QED
      BY <1>3, <1>4, <3>1, <3>2
  <2>2. CASE k \in 1 .. Len(pool) /\ pool'[k] = pool[k]
    <3>1. /\ \A r \in Searches : using[r] # pool[k]
          /\ \A j \in 1 .. Len(pool) : j # k => pool[j] # pool[k]
      BY <1>1, <2>2 DEF Pooled
    <3> QED
      BY <1>5, <1>6, <2>1, <2>2, <3>1
  <2>3. CASE k = Len(pool') /\ pool'[k] = p
    <3>1. \A r \in Searches : r # s => using[r] # p
      BY <1>1, <1>2, <2>3 DEF Apart
    <3>2. \A j \in 1 .. Len(pool) : pool[j] # p
      BY <1>1, <2>3 DEF Pooled
    <3> QED
      BY <1>5, <1>6, <2>1, <2>3, <3>1, <3>2
  <2> QED
    BY <1>6, <2>2, <2>3
<1>11. Apart'
  BY <1>1, <1>2, <1>5 DEF Apart
<1>12. SlicesApart'
  <2>1. \A r \in 1 .. opens : r # 0
    BY <1>3
  <2> QED
    BY <1>1, <1>2, <1>7, <2>1 DEF SlicesApart
<1>13. ASSUME NEW r \in Searches PROVE OwnIterator(r)'
  <2>1. CASE r = s
    BY <1>5, <2>1 DEF OwnIterator
  <2>2. CASE r # s
    BY <1>1, <1>2, <1>5, <2>2 DEF OwnIterator
  <2> QED
    BY <2>1, <2>2
<1> QED
  BY <1>8, <1>9, <1>10, <1>11, <1>12, <1>13 DEF IteratorsInv

\* The invariant is inductive.
LEMMA IteratorsInductive ==
  ASSUME IteratorsInv, [IteratorsNext]_iteratorsVars
  PROVE  IteratorsInv'
<1>1. CASE RootMovesOn \/ UNCHANGED iteratorsVars
  <2>1. UNCHANGED <<objects, arrays, pool, using, own, replies, opens, rewound>>
    BY <1>1 DEF RootMovesOn, iteratorsVars
  <2> QED
    BY <2>1 DEF IteratorsInv, IteratorsTyped, IsIterator, SlicesTyped, Pooled, Apart, SlicesApart,
         InPlay, OwnIterator
<1>2. ASSUME NEW s \in Searches,
             \/ AskNext(s) \/ CloseIt(s)
             \/ \E t \in DOMAIN TermDocs : OpenIt(s, t)
             \/ \E n \in 0 .. DocCount - 1 : AskAdvance(s, n) \/ AskRewind(s, n)
      PROVE  IteratorsInv'
  BY <1>2, AskNextKeeps, CloseItKeeps, OpenItKeeps, AskAdvanceKeeps, AskRewindKeeps
<1> QED
  BY <1>1, <1>2 DEF IteratorsNext

\* A search gets from an iterator that other searches have used before it, or use others
\* beside it, what it would get from one of its own (index/snapshot.go, postings.go): for
\* any searches, segments, terms and number of iterators, also when others go backwards,
\* unless it holds an iterator that did, or that was copied from such.
THEOREM SearchesStayApart == IteratorsSpec => []SearchesDoNotMeet
<1>1. IteratorsInv => SearchesDoNotMeet
  BY DEF IteratorsInv, OwnIterator, SearchesDoNotMeet
<1> QED
  BY IteratorsInitially, IteratorsInductive, <1>1, PTL DEF IteratorsSpec

-----------------------------------------------------------------------------
(* The text that is imported *)

Bytes == {"c", "s", "n", "r", "w", "t"}

\* Of the bytes behind m and up to n: every first byte has its later ones among them, and
\* the other way around.
FirstIsWhole(b, i, n) == b[i] = "w" => i + 3 <= n /\ b[i + 1] = "t" /\ b[i + 2] = "t" /\ b[i + 3] = "t"
LaterBelongs(b, m, i) ==
  b[i] = "t" => \/ i - 1 > m /\ b[i - 1] = "w"
                \/ i - 2 > m /\ b[i - 2] = "w"
                \/ i - 3 > m /\ b[i - 3] = "w"
ByteOK(b, m, i, n) == FirstIsWhole(b, i, n) /\ LaterBelongs(b, m, i)
ValidFrom(b, m, n) == \A i \in Nat : m < i /\ i <= n => ByteOK(b, m, i, n)

\* Whether a letter may start behind n bytes.
BreakAt(b, n) == b[n + 1] # "t" \/ (n >= 1 /\ b[n] # "w" /\ b[n] # "t")

\* What utf8.Valid says of a part of a text.
LEMMA ValidPart ==
  ASSUME NEW b \in Seq(Bytes), NEW m \in Nat, NEW n \in Nat, m <= n, n <= Len(b)
  PROVE  ValidText(SubSeq(b, m + 1, n)) <=> ValidFrom(b, m, n)
<1> DEFINE p == SubSeq(b, m + 1, n)
<1>1. Len(b) \in Nat
  OBVIOUS
<1>2. Len(p) = n - m /\ \A i \in 1 .. n - m : p[i] = b[m + i]
  BY <1>1
<1> HIDE DEF p
<1>3. ASSUME ValidText(p), NEW i \in Nat, m < i, i <= n PROVE ByteOK(b, m, i, n)
  <2> DEFINE k == i - m
  <2>1. k \in 1 .. Len(p) /\ p[k] = b[i]
    BY <1>2, <1>3
  <2>2. /\ p[k] = "w" => k + 3 <= Len(p) /\ \A j \in 1 .. 3 : p[k + j] = "t"
        /\ p[k] = "t" => \E j \in 1 .. 3 : k - j >= 1 /\ p[k - j] = "w"
    BY <1>3, <2>1 DEF ValidText
  <2>3. FirstIsWhole(b, i, n)
    <3> SUFFICES ASSUME b[i] = "w" PROVE i + 3 <= n /\ b[i + 1] = "t" /\ b[i + 2] = "t" /\ b[i + 3] = "t"
      BY DEF FirstIsWhole
    <3>1. k + 3 <= Len(p) /\ p[k + 1] = "t" /\ p[k + 2] = "t" /\ p[k + 3] = "t"
      BY <2>1, <2>2
    <3>2. p[k + 1] = b[i + 1] /\ p[k + 2] = b[i + 2] /\ p[k + 3] = b[i + 3]
      <4>1. \A j \in 1 .. 3 : k + j \in 1 .. n - m /\ m + (k + j) = i + j
        BY <1>2, <1>3, <3>1
      <4> QED
        BY <1>2, <4>1
    <3> QED
      BY <1>2, <1>3, <3>1, <3>2
  <2>4. LaterBelongs(b, m, i)
    <3> SUFFICES ASSUME b[i] = "t"
                 PROVE  \/ i - 1 > m /\ b[i - 1] = "w"
                        \/ i - 2 > m /\ b[i - 2] = "w"
                        \/ i - 3 > m /\ b[i - 3] = "w"
      BY DEF LaterBelongs
    <3>1. PICK j \in 1 .. 3 : k - j >= 1 /\ p[k - j] = "w"
      BY <2>1, <2>2
    <3>2. k - j \in 1 .. n - m /\ m + (k - j) = i - j /\ i - j > m
      BY <1>3, <3>1
    <3>3. b[i - j] = "w"
      BY <1>2, <3>1, <3>2
    <3>4. j = 1 \/ j = 2 \/ j = 3
      OBVIOUS
    <3> QED
      BY <3>2, <3>3, <3>4
  <2> QED
    BY <2>3, <2>4 DEF ByteOK
<1>4. ASSUME ValidFrom(b, m, n), NEW k \in 1 .. Len(p)
      PROVE  /\ p[k] = "w" => k + 3 <= Len(p) /\ \A j \in 1 .. 3 : p[k + j] = "t"
             /\ p[k] = "t" => \E j \in 1 .. 3 : k - j >= 1 /\ p[k - j] = "w"
  <2> DEFINE i == m + k
  <2>1. i \in Nat /\ m < i /\ i <= n /\ p[k] = b[i] /\ k \in Nat
    BY <1>2, <1>4
  <2>2. ByteOK(b, m, i, n)
    BY <1>4, <2>1 DEF ValidFrom
  <2>3. ASSUME p[k] = "w" PROVE k + 3 <= Len(p) /\ \A j \in 1 .. 3 : p[k + j] = "t"
    <3>1. i + 3 <= n /\ b[i + 1] = "t" /\ b[i + 2] = "t" /\ b[i + 3] = "t"
      BY <2>1, <2>2, <2>3 DEF ByteOK, FirstIsWhole
    <3>2. k + 3 <= Len(p)
      BY <1>2, <3>1
    <3>3. ASSUME NEW j \in 1 .. 3 PROVE p[k + j] = "t"
      <4>1. k + j \in 1 .. n - m /\ m + (k + j) = i + j
        BY <1>2, <2>1, <3>2
      <4>2. p[k + j] = b[i + j]
        BY <1>2, <4>1
      <4>3. j = 1 \/ j = 2 \/ j = 3
        OBVIOUS
      <4> QED
        BY <3>1, <4>2, <4>3
    <3> QED
      BY <3>2, <3>3
  <2>4. ASSUME p[k] = "t" PROVE \E j \in 1 .. 3 : k - j >= 1 /\ p[k - j] = "w"
    <3>1. \E j \in 1 .. 3 : i - j > m /\ b[i - j] = "w"
      <4>1. \/ i - 1 > m /\ b[i - 1] = "w"
            \/ i - 2 > m /\ b[i - 2] = "w"
            \/ i - 3 > m /\ b[i - 3] = "w"
        BY <2>1, <2>2, <2>4 DEF ByteOK, LaterBelongs
      <4>2. 1 \in 1 .. 3 /\ 2 \in 1 .. 3 /\ 3 \in 1 .. 3
        OBVIOUS
      <4> HIDE DEF i
      <4> QED
        BY <4>1, <4>2
    <3>2. PICK j \in 1 .. 3 : i - j > m /\ b[i - j] = "w"
      BY <3>1
    <3>3. k - j \in 1 .. n - m /\ m + (k - j) = i - j
      BY <1>2, <2>1, <3>2
    <3> QED
      BY <1>2, <3>2, <3>3
  <2> QED
    BY <2>3, <2>4
<1>5. ValidText(p) => ValidFrom(b, m, n)
  BY <1>3 DEF ValidFrom
<1>6. ValidFrom(b, m, n) => ValidText(p)
  BY <1>4 DEF ValidText
<1> QED
  BY <1>5, <1>6 DEF p

\* Of the whole text.
LEMMA ValidWhole ==
  ASSUME NEW b \in Seq(Bytes)
  PROVE  ValidText(b) <=> ValidFrom(b, 0, Len(b))
<1>1. Len(b) \in Nat
  OBVIOUS
<1>2. SubSeq(b, 0 + 1, Len(b)) = b
  BY <1>1
<1> HIDE DEF Bytes
<1>3. ValidText(SubSeq(b, 0 + 1, Len(b))) <=> ValidFrom(b, 0, Len(b))
  BY <1>1, ValidPart
<1> QED
  BY <1>2, <1>3

\* Two valid parts, one behind the other.
LEMMA ValidJoined ==
  ASSUME NEW b \in Seq(Bytes), NEW m \in Nat, NEW n \in Nat, m <= n,
         ValidFrom(b, 0, m), ValidFrom(b, m, n)
  PROVE  ValidFrom(b, 0, n)
<1> SUFFICES ASSUME NEW i \in Nat, 0 < i, i <= n PROVE ByteOK(b, 0, i, n)
  BY DEF ValidFrom
<1>1. CASE i <= m
  <2>1. ByteOK(b, 0, i, m)
    BY <1>1 DEF ValidFrom
  <2> QED
    BY <2>1 DEF ByteOK, FirstIsWhole
<1>2. CASE m < i
  <2>1. ByteOK(b, m, i, n)
    BY <1>2 DEF ValidFrom
  <2> QED
    BY <2>1 DEF ByteOK, LaterBelongs
<1> QED
  BY <1>1, <1>2

\* A valid part, cut where a letter starts or behind a letter of one byte.
LEMMA ValidCut ==
  ASSUME NEW b \in Seq(Bytes), NEW m \in Nat, NEW n \in Nat, NEW k \in Nat,
         m <= k, k < n, ValidFrom(b, m, n), BreakAt(b, k)
  PROVE  ValidFrom(b, m, k)
<1> SUFFICES ASSUME NEW i \in Nat, m < i, i <= k PROVE ByteOK(b, m, i, k)
  BY DEF ValidFrom
<1>1. ByteOK(b, m, i, n)
  BY DEF ValidFrom
<1>2. ASSUME b[i] = "w"
      PROVE  i + 3 <= k /\ b[i + 1] = "t" /\ b[i + 2] = "t" /\ b[i + 3] = "t"
  <2>1. b[i + 1] = "t" /\ b[i + 2] = "t" /\ b[i + 3] = "t"
    BY <1>1, <1>2 DEF ByteOK, FirstIsWhole
  <2>2. k # i /\ k # i + 1 /\ k # i + 2
    BY <1>2, <2>1 DEF BreakAt
  <2> QED
    BY <2>1, <2>2
<1> QED
  BY <1>1, <1>2 DEF ByteOK, FirstIsWhole

\* Where a letter of one byte ends, and behind a letter of any width, another one starts.
LEMMA NextStarts ==
  ASSUME NEW b \in Seq(Bytes), NEW n \in Nat, NEW k \in Nat, k < n, ValidFrom(b, 0, n),
         BreakAt(b, k)
  PROVE  b[k + 1] # "t"
<1> SUFFICES ASSUME b[k + 1] = "t" PROVE FALSE
  OBVIOUS
<1>1. k >= 1 /\ b[k] # "w" /\ b[k] # "t"
  BY DEF BreakAt
<1>2. ByteOK(b, 0, k + 1, n)
  BY DEF ValidFrom
<1>3. \/ k > 0 /\ b[k] = "w"
      \/ k - 1 > 0 /\ b[k - 1] = "w"
      \/ k - 2 > 0 /\ b[k - 2] = "w"
  BY <1>2 DEF ByteOK, LaterBelongs
<1>4. CASE k - 1 > 0 /\ b[k - 1] = "w"
  <2>1. k - 1 \in Nat /\ ByteOK(b, 0, k - 1, n)
    BY <1>4 DEF ValidFrom
  <2>2. b[(k - 1) + 1] = "t"
    BY <1>4, <2>1 DEF ByteOK, FirstIsWhole
  <2> QED
    BY <1>1, <2>2
<1>5. CASE k - 2 > 0 /\ b[k - 2] = "w"
  <2>1. k - 2 \in Nat /\ ByteOK(b, 0, k - 2, n)
    BY <1>5 DEF ValidFrom
  <2>2. b[(k - 2) + 2] = "t"
    BY <1>5, <2>1 DEF ByteOK, FirstIsWhole
  <2> QED
    BY <1>1, <2>2
<1> QED
  BY <1>1, <1>3, <1>4, <1>5

\* Behind a whole letter starts another.
LEMMA LetterThenNext ==
  ASSUME NEW b \in Seq(Bytes), NEW n \in Nat, NEW k \in Nat, ValidFrom(b, 0, n),
         b[k + 1] # "t", k + Width(b[k + 1]) < n
  PROVE  b[k + Width(b[k + 1]) + 1] # "t"
<1>1. CASE b[k + 1] # "w"
  <2>1. BreakAt(b, k + 1) /\ Width(b[k + 1]) = 1
    BY <1>1 DEF BreakAt, Width
  <2>2. b[(k + 1) + 1] # "t"
    BY <2>1, NextStarts
  <2> QED
    BY <2>1, <2>2
<1>2. CASE b[k + 1] = "w"
  <2>1. Width(b[k + 1]) = 4 /\ k + 5 <= n
    BY <1>2 DEF Width
  <2>2. ByteOK(b, 0, k + 1, n) /\ ByteOK(b, 0, k + 5, n)
    BY <2>1 DEF ValidFrom
  <2>3. b[k + 2] = "t" /\ b[k + 3] = "t" /\ b[k + 4] = "t"
    BY <1>2, <2>2 DEF ByteOK, FirstIsWhole
  <2>4. b[k + 5] # "t"
    BY <2>2, <2>3 DEF ByteOK, LaterBelongs
  <2> QED
    BY <2>1, <2>4
<1> QED
  BY <1>1, <1>2

-----------------------------------------------------------------------------
(* Where the text is cut *)

\* A set of numbers that is not empty has a least member, and if it is bounded a greatest
\* one, which Min and Max give.
LEMMA LeastNumber ==
  ASSUME NEW S \in SUBSET Nat, S # {}
  PROVE  Min(S) \in S /\ \A i \in S : Min(S) <= i
<1> DEFINE R == {ss \in Nat \X Nat : ss[1] < ss[2]}
<1>1. IsWellFoundedOn(R, Nat)
  BY NatLessThanWellFounded DEF OpToRel
<1>2. \A i, n \in Nat : i < n => <<i, n>> \in R
  OBVIOUS
<1> HIDE DEF R
<1>3. PICK n \in S : \A i \in S : <<i, n>> \notin R
  BY <1>1, WFMin
<1>4. \A i \in S : i \in Nat /\ ~(i < n)
  BY <1>2, <1>3
<1>5. \A i \in S : n <= i
  BY <1>4
<1> QED
  BY <1>5 DEF Min

\* The greatest of some numbers up to a bound.
LEMMA GreatestNumber ==
  ASSUME NEW B \in Nat, NEW S \in SUBSET (0 .. B), S # {}
  PROVE  Max(S) \in S /\ \A i \in S : i <= Max(S)
<1> DEFINE T == {B - i : i \in S}
<1>1. T \in SUBSET Nat /\ T # {}
  <2>1. \A i \in S : B - i \in Nat
    OBVIOUS
  <2> QED
    BY <2>1
<1> HIDE DEF T
<1>2. Min(T) \in T /\ \A i \in T : Min(T) <= i
  BY <1>1, LeastNumber
<1> DEFINE least == Min(T)
<1> HIDE DEF least
<1>3. PICK n \in S : least = B - n
  BY <1>2 DEF T, least
<1>4. ASSUME NEW i \in S PROVE i <= n
  <2>1. least <= B - i
    BY <1>2 DEF T, least
  <2> QED
    BY <1>3, <2>1
<1>5. \A i \in S : n >= i
  BY <1>4
<1> DEFINE m == CHOOSE x \in S : \A y \in S : x >= y
<1>6. m \in S /\ \A y \in S : m >= y
  BY <1>5
<1>7. Max(S) = m
  BY DEF Max
<1> HIDE DEF m
<1> QED
  BY <1>6, <1>7

\* preferredTextBoundary gives a place behind a space or a line end, at the minimum or
\* later, or else the end.
LEMMA BoundaryIs ==
  ASSUME NEW b \in Seq(Bytes), NEW minimum \in Nat, Len(b) > 0
  PROVE  LET n == PreferredTextBoundary(b, minimum)
         IN  /\ n \in 1 .. Len(b)
             /\ n # Len(b) => n >= minimum /\ b[n] \in {"n", "r", "s"}
<1> DEFINE Ps == {i \in 1 .. Len(b) : i >= minimum
                    /\ (/\ b[i] = "n"
                        /\ \/ i > 1 /\ b[i - 1] = "n"
                           \/ i > 2 /\ b[i - 1] = "r" /\ b[i - 2] = "n")}
           Ls == {i \in 1 .. Len(b) : i >= minimum /\ b[i] \in {"n", "r"}}
           Ss == {i \in 1 .. Len(b) : i >= minimum /\ b[i] \in {"n", "r", "s"}}
           n  == PreferredTextBoundary(b, minimum)
<1>1. n = IF Ps # {} THEN Max(Ps) ELSE IF Ls # {} THEN Max(Ls) ELSE IF Ss # {} THEN Max(Ss)
          ELSE Len(b)
  BY DEF PreferredTextBoundary
<1>2. Len(b) \in Nat
  OBVIOUS
<1>3. \A i \in Ps \cup Ls \cup Ss : i \in 1 .. Len(b) /\ i >= minimum /\ b[i] \in {"n", "r", "s"}
  OBVIOUS
<1>4. Ps \in SUBSET (0 .. Len(b)) /\ Ls \in SUBSET (0 .. Len(b)) /\ Ss \in SUBSET (0 .. Len(b))
  BY <1>2
<1> HIDE DEF Ps, Ls, Ss, n
<1>5. n = Len(b) \/ n \in Ps \cup Ls \cup Ss
  <2>1. Ps # {} => Max(Ps) \in Ps
    BY <1>2, <1>4, GreatestNumber
  <2>2. Ls # {} => Max(Ls) \in Ls
    BY <1>2, <1>4, GreatestNumber
  <2>3. Ss # {} => Max(Ss) \in Ss
    BY <1>2, <1>4, GreatestNumber
  <2> QED
    BY <1>1, <2>1, <2>2, <2>3
<1>6. /\ n \in 1 .. Len(b)
      /\ n # Len(b) => n >= minimum /\ b[n] \in {"n", "r", "s"}
  BY <1>2, <1>3, <1>5
<1> QED
  BY <1>6 DEF n

\* What the types of the variables say.
TextTyped ==
  /\ input \in Seq(Bytes)
  /\ options \in [max : Nat, overlap : Nat, batch : Nat] /\ options.max >= 4
  /\ options.overlap < options.max
  /\ cutter \in [start : Nat, end : Nat]
  /\ chunks \in Seq([start : Nat, end : Nat])
  /\ result \in [deleted : BOOLEAN, chunks : Nat, end : Nat]

\* The buffer holds what comes behind the start.
LEMMA BufferIs ==
  ASSUME TextTyped, cutter.start <= Len(input)
  PROVE  /\ Buffer \in Seq(Bytes) /\ Len(Buffer) \in Nat
         /\ cutter.start + Len(Buffer) <= Len(input)
         /\ Len(Buffer) <= options.max => cutter.start + Len(Buffer) = Len(input)
         /\ \A i \in 1 .. Len(Buffer) : Buffer[i] = input[cutter.start + i]
<1> DEFINE s == cutter.start
           n == Smaller(s + options.max + UTFMax, Len(input))
<1>1. s \in Nat /\ Len(input) \in Nat /\ options.max \in Nat
  BY DEF TextTyped
<1>2. n \in Nat /\ s <= n /\ n <= Len(input) /\ (n < Len(input) => n = s + options.max + 4)
  BY <1>1 DEF Smaller, UTFMax
<1>3. Buffer = SubSeq(input, s + 1, n)
  BY DEF Buffer
<1> HIDE DEF n, s
<1>4. Len(Buffer) = n - s /\ \A i \in 1 .. n - s : Buffer[i] = input[s + i]
  BY <1>1, <1>2, <1>3 DEF TextTyped
<1>5. Buffer \in Seq(Bytes)
  <2>1. \A i \in s + 1 .. n : input[i] \in Bytes
    BY <1>1, <1>2 DEF TextTyped
  <2>2. input \in Seq(Bytes)
    BY DEF TextTyped
  <2> HIDE DEF Bytes
  <2> QED
    BY <1>1, <1>2, <1>3, <2>1, <2>2
<1> QED
  BY <1>1, <1>2, <1>4, <1>5 DEF s

\* The longest chunk there could be ends at the text's end or where a letter starts.
LEMMA LongestIs ==
  ASSUME TextTyped, cutter.start <= Len(input)
  PROVE  /\ Longest \in 0 .. Len(Buffer) /\ Longest <= options.max
         /\ Len(Buffer) > options.max /\ Longest > 0 => input[cutter.start + Longest + 1] # "t"
         /\ Len(Buffer) > options.max =>
              \A i \in 1 .. options.max : input[cutter.start + i + 1] # "t" => i <= Longest
<1> DEFINE s == cutter.start
           S == {0} \cup {i \in 1 .. options.max : RuneStart(Buffer[i + 1])}
<1>1. /\ Len(Buffer) \in Nat /\ s \in Nat /\ options.max \in Nat
      /\ \A i \in 1 .. Len(Buffer) : Buffer[i] = input[s + i]
  BY BufferIs DEF TextTyped
<1>2. CASE Len(Buffer) <= options.max
  BY <1>1, <1>2 DEF Longest
<1>3. CASE Len(Buffer) > options.max
  <2>1. Longest = Max(S)
    BY <1>1, <1>3 DEF Longest, RuneBefore
  <2>2. S \in SUBSET (0 .. options.max) /\ S # {}
    BY <1>1
  <2>3. ASSUME NEW i \in 1 .. options.max
        PROVE  i \in S <=> input[s + i + 1] # "t"
    <3>1. i + 1 \in 1 .. Len(Buffer)
      BY <1>1, <1>3
    <3>2. Buffer[i + 1] = input[s + (i + 1)]
      BY <1>1, <3>1
    <3>3. s + (i + 1) = s + i + 1
      <4>1. s \in Nat /\ i \in Nat
        BY <1>1
      <4> HIDE DEF s, S
      <4> QED
        BY <4>1
    <3>4. RuneStart(Buffer[i + 1]) <=> input[s + i + 1] # "t"
      BY <3>2, <3>3 DEF RuneStart
    <3>5. i \in S <=> RuneStart(Buffer[i + 1])
      BY <1>1
    <3> QED
      BY <3>4, <3>5
  <2> HIDE DEF S
  <2>4. Longest \in S /\ \A i \in S : i <= Longest
    BY <1>1, <2>1, <2>2, GreatestNumber
  <2>5. Longest \in 0 .. options.max
    BY <2>2, <2>4
  <2>6. Longest > 0 => input[s + Longest + 1] # "t"
    BY <1>1, <2>3, <2>4, <2>5
  <2>7. \A i \in 1 .. options.max : input[s + i + 1] # "t" => i <= Longest
    BY <2>3, <2>4
  <2> QED
    BY <1>1, <1>3, <2>5, <2>6, <2>7 DEF s
<1> QED
  BY <1>1, <1>2, <1>3

\* Where a chunk ends that is cut at n bytes behind the start: at the text's end, or where
\* the next letter can start and, unless it is the longest there could be, behind the last.
GoodCut(n) ==
  /\ n \in 1 .. Len(Buffer) /\ n <= options.max
  /\ ValidFrom(input, cutter.start, cutter.start + n)
  /\ n = Len(Buffer) => cutter.start + n = Len(input)
  /\ n # Len(Buffer) => /\ BreakAt(input, cutter.start + n)
                        /\ n = Longest \/ cutter.start + n > cutter.end

\* Between where a chunk may start and end there is only what a letter takes.
LEMMA CutIsGood ==
  ASSUME TextTyped, cutter.start <= cutter.end, cutter.end <= Len(input), Cuttable
  PROVE  GoodCut(Cut)
<1> DEFINE s == cutter.start
           l == Longest
           p == SubSeq(Buffer, 1, l)
           minimum == Larger(l \div 2, cutter.end - s + 1)
<1>1. /\ Buffer \in Seq(Bytes) /\ Len(Buffer) \in Nat /\ s \in Nat /\ options.max \in Nat
      /\ cutter.end \in Nat /\ Len(input) \in Nat /\ input \in Seq(Bytes)
      /\ s <= Len(input) /\ s + Len(Buffer) <= Len(input)
      /\ Len(Buffer) <= options.max => s + Len(Buffer) = Len(input)
      /\ \A i \in 1 .. Len(Buffer) : Buffer[i] = input[s + i]
  <2>1. s \in Nat /\ cutter.end \in Nat /\ Len(input) \in Nat /\ options.max \in Nat /\ input \in Seq(Bytes)
    BY DEF TextTyped
  <2>2. s <= Len(input)
    BY <2>1
  <2> QED
    BY <2>1, <2>2, BufferIs
<1>2. /\ l \in 0 .. Len(Buffer) /\ l <= options.max /\ l > 0
      /\ Len(Buffer) > options.max => input[s + l + 1] # "t"
  BY <1>1, LongestIs DEF Cuttable
<1> HIDE DEF l
<1>3. p \in Seq(Bytes) /\ Len(p) = l /\ \A i \in 1 .. l : p[i] = input[s + i]
  <2>1. Len(p) = l /\ \A i \in 1 .. l : p[i] = Buffer[i]
    BY <1>1, <1>2
  <2>2. \A i \in 1 .. l : Buffer[i] \in Bytes /\ i \in 1 .. Len(Buffer)
    BY <1>1, <1>2
  <2>3. p \in Seq(Bytes)
    <3> HIDE DEF Bytes
    <3> QED
      BY <1>1, <1>2, <2>2
  <2> QED
    BY <1>1, <2>1, <2>2, <2>3
<1>4. ValidFrom(input, s, s + l)
  <2> DEFINE q == SubSeq(input, s + 1, s + l)
  <2>1. Len(q) = l /\ \A i \in 1 .. l : q[i] = input[s + i]
    <3> DEFINE e == s + l
    <3>1. e \in Nat /\ s <= e /\ e <= Len(input) /\ e - s = l /\ s \in Nat /\ input \in Seq(Bytes)
      BY <1>1, <1>2
    <3> HIDE DEF e, s, Bytes
    <3>2. Len(SubSeq(input, s + 1, e)) = e - s /\ \A i \in 1 .. e - s : SubSeq(input, s + 1, e)[i] = input[s + i]
      BY <3>1
    <3> QED
      BY <3>1, <3>2 DEF e
  <2>2. q \in Seq(Bytes)
    <3>1. \A i \in s + 1 .. s + l : input[i] \in Bytes
      BY <1>1, <1>2
    <3> HIDE DEF Bytes
    <3> QED
      BY <1>1, <1>2, <3>1
  <2>3. p = q
    <3> HIDE DEF p, q
    <3>1. p = [i \in 1 .. Len(p) |-> p[i]] /\ q = [i \in 1 .. Len(q) |-> q[i]]
      BY <1>3, <2>2
    <3> QED
      BY <1>2, <1>3, <2>1, <3>1
  <2>4. ValidText(q)
    BY <2>3 DEF Cuttable, l
  <2>5. s + l \in Nat /\ s <= s + l /\ s + l <= Len(input)
    BY <1>1, <1>2
  <2> HIDE DEF Bytes
  <2> QED
    BY <1>1, <2>4, <2>5, ValidPart
<1>5. CASE Len(Buffer) <= options.max
  <2>1. Cut = Len(Buffer) /\ l = Len(Buffer)
    BY <1>1, <1>5 DEF Cut, Longest, l
  <2> QED
    BY <1>1, <1>2, <1>4, <1>5, <2>1 DEF GoodCut
<1>6. CASE Len(Buffer) > options.max
  <2> DEFINE n == PreferredTextBoundary(p, minimum)
  <2>1. Cut = n
    BY <1>1, <1>6 DEF Cut, l
  <2>2. minimum \in Nat /\ minimum >= cutter.end - s + 1
    BY <1>1, <1>2 DEF Larger
  <2> HIDE DEF minimum, p
  <2>3. n \in 1 .. Len(p) /\ (n # Len(p) => n >= minimum /\ p[n] \in {"n", "r", "s"})
    <3> HIDE DEF Bytes
    <3> QED
      BY <1>2, <1>3, <2>2, BoundaryIs
  <2> HIDE DEF n
  <2>4. n \in 1 .. l /\ n <= options.max /\ n # Len(Buffer) /\ n \in 1 .. Len(Buffer)
    BY <1>1, <1>2, <1>3, <1>6, <2>3
  <2>5. CASE n = l
    <3>1. BreakAt(input, s + n)
      BY <1>2, <1>6, <2>5 DEF BreakAt
    <3> QED
      BY <1>4, <2>1, <2>4, <2>5, <3>1 DEF GoodCut, l
  <2>6. CASE n # l
    <3>1. n >= minimum /\ input[s + n] \in {"n", "r", "s"}
      BY <1>3, <2>3, <2>4, <2>6
    <3>2. BreakAt(input, s + n)
      BY <1>1, <2>4, <3>1 DEF BreakAt
    <3>3. s + n > cutter.end
      BY <1>1, <2>2, <2>4, <3>1
    <3>4. s + n \in Nat /\ s + l \in Nat /\ s <= s + n /\ s + n < s + l
      BY <1>1, <1>2, <2>4, <2>6
    <3>5. ValidFrom(input, s, s + n)
      <4> HIDE DEF Bytes, s
      <4> QED
        BY <1>1, <1>4, <3>2, <3>4, ValidCut
    <3> QED
      BY <2>1, <2>4, <3>2, <3>3, <3>5 DEF GoodCut
  <2> QED
    BY <2>5, <2>6
<1> QED
  BY <1>1, <1>5, <1>6

\* Where the next chunk starts when this one is n bytes: behind this one's start, where a
\* letter starts, and no further back than the overlap, with room for a letter behind it.
GoodOverlap(n, o) ==
  /\ o \in 1 .. n /\ n - o <= options.overlap
  /\ n # Len(Buffer) => n - o + Width(input[cutter.start + n + 1]) <= options.max
  /\ o # n => input[cutter.start + o + 1] # "t"

\* Where the next chunk starts, a letter does, and it is within the options.
LEMMA OverlapIsGood ==
  ASSUME TextTyped, cutter.start <= Len(input), NEW n \in 1 .. Len(Buffer)
  PROVE  GoodOverlap(n, Overlapping(n))
<1> DEFINE s == cutter.start
           w == Width(Buffer[n + 1])
           back == Smaller(Smaller(options.overlap, n - 1), options.max - w)
           S == {n} \cup {i \in n - back .. n - 1 : RuneStart(Buffer[i + 1])}
<1>1. /\ Len(Buffer) \in Nat /\ s \in Nat /\ options.max \in Nat /\ options.overlap \in Nat
      /\ options.max >= 4 /\ n \in Nat /\ n >= 1
      /\ \A i \in 1 .. Len(Buffer) : Buffer[i] = input[s + i]
  BY BufferIs DEF TextTyped
<1>2. CASE n = Len(Buffer)
  BY <1>1, <1>2 DEF Overlapping, GoodOverlap
<1>3. CASE n # Len(Buffer)
  <2>1. w \in {1, 4} /\ w = Width(input[s + n + 1])
    <3>1. n + 1 \in 1 .. Len(Buffer) /\ s + (n + 1) = s + n + 1
      <4> DEFINE m == Len(Buffer)
      <4>1. m \in Nat /\ n \in 1 .. m /\ n # m /\ s \in Nat
        BY <1>1, <1>3
      <4> HIDE DEF m, s
      <4>2. n + 1 \in 1 .. m /\ s + (n + 1) = s + n + 1
        BY <4>1
      <4> QED
        BY <4>2 DEF m
    <3>2. Buffer[n + 1] = input[s + n + 1]
      BY <1>1, <3>1
    <3> QED
      BY <3>2 DEF Width
  <2>2. back \in 0 .. n - 1 /\ back <= options.overlap /\ back + w <= options.max
    <3> HIDE DEF w
    <3> QED
      BY <1>1, <2>1 DEF Smaller
  <2> DEFINE o == Min(S)
  <2>3. Overlapping(n) = o
    BY <1>3 DEF Overlapping
  <2> HIDE DEF back
  <2>4. S \in SUBSET Nat /\ S # {}
    BY <1>1, <2>2
  <2>5. \A i \in S : i \in n - back .. n
    BY <1>1, <2>2
  <2>6. ASSUME NEW i \in S, i # n PROVE input[s + i + 1] # "t"
    <3>1. i \in n - back .. n - 1 /\ RuneStart(Buffer[i + 1])
      BY <2>6
    <3>2. i + 1 \in 1 .. Len(Buffer) /\ s + (i + 1) = s + i + 1
      BY <1>1, <2>2, <3>1
    <3> QED
      BY <1>1, <3>1, <3>2 DEF RuneStart
  <2> HIDE DEF S
  <2>7. o \in S
    BY <2>4, LeastNumber
  <2>8. o \in n - back .. n /\ (o # n => input[s + o + 1] # "t")
    BY <2>5, <2>6, <2>7
  <2> HIDE DEF o, w
  <2>9. o \in 1 .. n /\ n - o <= options.overlap /\ n - o + w <= options.max
    BY <1>1, <2>1, <2>2, <2>8
  <2> QED
    BY <2>1, <2>3, <2>8, <2>9 DEF GoodOverlap
<1> QED
  BY <1>2, <1>3

-----------------------------------------------------------------------------
(* The import: the inductive invariant *)

\* What lies before the start and before the end is text; where the next chunk starts there
\* is room for the letter behind the end, and in a valid text the end is one of a letter.
Placed ==
  /\ cutter.start <= cutter.end /\ cutter.end <= Len(input)
  /\ cutter.end - cutter.start <= options.overlap
  /\ ValidFrom(input, 0, cutter.start) /\ ValidFrom(input, 0, cutter.end)
  /\ cutter.end < Len(input) =>
       /\ cutter.end - cutter.start + Width(input[cutter.end + 1]) <= options.max
       /\ ValidText(input) => input[cutter.end + 1] # "t"
  /\ chunks = <<>> => cutter.start = 0 /\ cutter.end = 0
  /\ chunks # <<>> => cutter.end = Last(chunks).end /\ Last(chunks).start < cutter.start

GoodChunk(k) ==
  /\ chunks[k].end - chunks[k].start \in 1 .. options.max
  /\ chunks[k].end <= Len(input) /\ ValidFrom(input, chunks[k].start, chunks[k].end)
  /\ k > 1 => /\ chunks[k - 1].start < chunks[k].start
              /\ chunks[k].start <= chunks[k - 1].end
              /\ chunks[k - 1].end - chunks[k].start <= options.overlap
              /\ ValidText(input) => chunks[k - 1].end < chunks[k].end
  /\ k = 1 => chunks[k].start = 0

\* What is committed is the chunks before the pending ones, which are the last ones.
Tallied ==
  /\ result.chunks <= Len(chunks)
  /\ result.end = IF result.chunks = 0 THEN 0 ELSE chunks[result.chunks].end
  /\ ~result.deleted => chunks = <<>> /\ indexed \subseteq {-1}
  /\ result.deleted => -1 \notin indexed
  /\ 0 .. result.chunks - 1 \subseteq indexed
  /\ importing = "cutting" => /\ pending = result.chunks .. Len(chunks) - 1
                              /\ result.deleted => indexed = 0 .. result.chunks - 1
  /\ importing = "done" => /\ indexed = 0 .. Len(chunks) - 1 /\ result.chunks = Len(chunks)
                           /\ cutter.end = Len(input)

Sound == \A k \in 1 .. Len(chunks) : GoodChunk(k)

TextInv == TextTyped /\ Placed /\ Sound /\ Tallied

\* Nothing is cut yet, and nothing deleted.
LEMMA TextInitially == TextInit => TextInv
<1> SUFFICES ASSUME TextInit PROVE TextInv
  OBVIOUS
<1>1. /\ input \in Seq(Bytes)
      /\ options \in [max : Nat, overlap : Nat, batch : Nat]
      /\ options.max >= 4 /\ options.overlap < options.max
  <2>1. /\ options.max \in ChunkSizes /\ options.overlap \in Overlaps
        /\ options.batch \in BatchSizes /\ options.overlap < options.max
        /\ options = [max |-> options.max, overlap |-> options.overlap, batch |-> options.batch]
    BY DEF TextInit
  <2>2. options.max \in Nat /\ options.max >= 4 /\ options.overlap \in Nat /\ options.batch \in Nat
    BY <2>1, TextImportAssumption
  <2>3. input \in Seq(Bytes)
    BY TextImportAssumption DEF TextInit, Bytes
  <2> QED
    BY <2>1, <2>2, <2>3
<1>2. /\ cutter = [start |-> 0, end |-> 0] /\ chunks = <<>> /\ pending = {}
      /\ result = [deleted |-> FALSE, chunks |-> 0, end |-> 0] /\ indexed = {-1}
      /\ importing = "cutting" /\ Len(chunks) = 0 /\ Len(input) \in Nat
  BY <1>1 DEF TextInit
<1>3. TextTyped
  BY <1>1, <1>2 DEF TextTyped
<1>4. ValidFrom(input, 0, 0)
  BY DEF ValidFrom
<1>5. ASSUME 0 < Len(input), ValidText(input) PROVE input[1] # "t"
  <2>1. ValidFrom(input, 0, Len(input))
    <3> HIDE DEF Bytes
    <3> QED
      BY <1>1, <1>5, ValidWhole
  <2>2. ByteOK(input, 0, 1, Len(input))
    BY <1>2, <1>5, <2>1 DEF ValidFrom
  <2> QED
    BY <2>2 DEF ByteOK, LaterBelongs
<1>6. Placed
  <2> DEFINE w == Width(input[1])
  <2>1. w \in {1, 4}
    BY DEF Width
  <2>2. cutter.start = 0 /\ cutter.end = 0 /\ 0 + 1 = 1 /\ 0 - 0 = 0
    BY <1>2
  <2>3. options.overlap \in Nat /\ options.max \in Nat /\ options.max >= 4
    BY <1>1
  <2> HIDE DEF w
  <2>4. 0 - 0 <= options.overlap /\ 0 <= Len(input) /\ 0 - 0 + w <= options.max
    BY <1>2, <2>1, <2>3
  <2> QED
    BY <1>2, <1>4, <1>5, <2>2, <2>4 DEF Placed, w
<1>7. Sound /\ Tallied
  BY <1>2 DEF Sound, Tallied
<1> QED
  BY <1>3, <1>6, <1>7 DEF TextInv

\* The reader is at the end when it has delivered everything.
LEMMA EndIs ==
  ASSUME TextTyped, Placed
  PROVE  /\ AtEOF => cutter.end = Len(input)
         /\ ~AtEOF => cutter.end < cutter.start + Len(Buffer)
<1> DEFINE m == Len(Buffer)
<1>1. /\ cutter.start \in Nat /\ cutter.end \in Nat /\ Len(input) \in Nat /\ options.max \in Nat
      /\ options.overlap \in Nat /\ options.overlap < options.max
      /\ cutter.start <= cutter.end /\ cutter.end <= Len(input)
      /\ cutter.end - cutter.start <= options.overlap
  BY DEF TextTyped, Placed
<1>2. m \in Nat /\ (m <= options.max => cutter.start + m = Len(input))
  <2>1. cutter.start <= Len(input)
    BY <1>1
  <2> QED
    BY <2>1, BufferIs
<1>3. AtEOF <=> m = 0 \/ cutter.start + m <= cutter.end
  BY DEF AtEOF
<1> HIDE DEF m
<1>4. AtEOF => cutter.end = Len(input)
  BY <1>1, <1>2, <1>3
<1>5. ~AtEOF => cutter.end < cutter.start + m
  BY <1>1, <1>2, <1>3
<1> QED
  BY <1>4, <1>5 DEF m

\* In a valid text a chunk ends behind the last one.
LEMMA GoesFurther ==
  ASSUME TextTyped, Placed, ~AtEOF, ValidText(input), NEW n, GoodCut(n)
  PROVE  cutter.end < cutter.start + n
<1> DEFINE m == Len(Buffer)
           w == Width(input[cutter.end + 1])
           i == cutter.end - cutter.start + w
<1>1. /\ cutter.start \in Nat /\ cutter.end \in Nat /\ Len(input) \in Nat /\ options.max \in Nat
      /\ cutter.start <= cutter.end /\ cutter.end <= Len(input) /\ cutter.start <= Len(input)
      /\ input \in Seq(Bytes)
  BY DEF TextTyped, Placed
<1>2. /\ m \in Nat /\ cutter.start + m <= Len(input) /\ cutter.end < cutter.start + m
  BY <1>1, BufferIs, EndIs
<1>3. n \in 1 .. m /\ (n # m => n = Longest \/ cutter.start + n > cutter.end)
  BY DEF GoodCut
<1>4. CASE n = m \/ cutter.start + n > cutter.end
  BY <1>1, <1>2, <1>3, <1>4
<1>5. CASE n # m /\ n = Longest
  <2>1. m > options.max
    BY <1>2, <1>5 DEF Longest
  <2>2. \A k \in 1 .. options.max : input[cutter.start + k + 1] # "t" => k <= n
    BY <1>1, <1>5, <2>1, LongestIs
  <2>3. cutter.end < Len(input)
    BY <1>1, <1>2
  <2>4. i <= options.max /\ input[cutter.end + 1] # "t"
    BY <2>3 DEF Placed
  <2>5. w \in {1, 4}
    BY DEF Width
  <2>6. ValidFrom(input, 0, Len(input))
    <3> HIDE DEF Bytes
    <3> QED
      BY <1>1, ValidWhole
  <2> HIDE DEF m
  <2>7. i \in 1 .. options.max /\ cutter.end + w < Len(input) /\ cutter.start + i + 1 = cutter.end + w + 1
    <3> DEFINE a == cutter.start
               b == cutter.end
               x == options.max
               l == Len(input)
    <3>1. /\ a \in Nat /\ b \in Nat /\ x \in Nat /\ l \in Nat /\ a <= b /\ m \in Nat
          /\ a + m <= l /\ m > x /\ b - a + w <= x /\ w \in {1, 4}
      BY <1>1, <1>2, <2>1, <2>4, <2>5
    <3> HIDE DEF w, a, b, x, l
    <3>2. b - a + w \in 1 .. x /\ b + w < l /\ a + (b - a + w) + 1 = b + w + 1
      BY <3>1
    <3> QED
      BY <3>2 DEF a, b, x, l
  <2>8. input[cutter.end + w + 1] # "t"
    <3> HIDE DEF Bytes
    <3> QED
      BY <1>1, <2>4, <2>6, <2>7, LetterThenNext
  <2>9. i <= n
    BY <2>2, <2>7, <2>8
  <2> HIDE DEF w
  <2> QED
    BY <1>1, <1>2, <1>3, <2>5, <2>9
<1> QED
  BY <1>3, <1>4, <1>5

\* A chunk joins the batch.
LEMMA NextChunkKeeps ==
  ASSUME TextInv, NextChunk
  PROVE  TextInv'
<1> DEFINE s == cutter.start
           n == Cut
           o == Overlapping(n)
           e == s + n
           new == [start |-> s, end |-> e]
<1>1. /\ TextTyped /\ Placed /\ Sound /\ Tallied
      /\ result.deleted /\ importing = "cutting" /\ ~AtEOF /\ Cuttable
      /\ chunks' = Append(chunks, new) /\ pending' = pending \cup {Len(chunks)}
      /\ cutter' = [start |-> s + o, end |-> e]
      /\ UNCHANGED <<input, options, result, indexed, importing>>
  BY DEF TextInv, NextChunk
<1>2. /\ s \in Nat /\ cutter.end \in Nat /\ Len(input) \in Nat /\ options.max \in Nat
      /\ options.overlap \in Nat
      /\ s <= cutter.end /\ cutter.end <= Len(input) /\ s <= Len(input)
      /\ input \in Seq(Bytes) /\ chunks \in Seq([start : Nat, end : Nat]) /\ Len(chunks) \in Nat
  BY <1>1 DEF TextTyped, Placed
<1>3. GoodCut(n)
  BY <1>1, <1>2, CutIsGood
<1> HIDE DEF n
<1>4. n \in 1 .. Len(Buffer)
  BY <1>3 DEF GoodCut
<1>5. GoodOverlap(n, o)
  BY <1>1, <1>2, <1>4, OverlapIsGood
<1> HIDE DEF o
<1>6. /\ Len(Buffer) \in Nat /\ s + Len(Buffer) <= Len(input)
  BY <1>1, <1>2, BufferIs
<1>7. n \in Nat /\ n >= 1 /\ n <= options.max /\ e \in Nat /\ e <= Len(input) /\ s <= e
  BY <1>2, <1>3, <1>4, <1>6 DEF GoodCut
<1>8. o \in Nat /\ o >= 1 /\ o <= n /\ s + o \in Nat /\ s + o <= e /\ n - o <= options.overlap
      /\ s < s + o
  BY <1>2, <1>5, <1>7 DEF GoodOverlap
<1>9. ValidFrom(input, s, e) /\ ValidFrom(input, 0, s)
  BY <1>1, <1>3 DEF GoodCut, Placed
<1> HIDE DEF s, e
<1>10. ValidFrom(input, 0, e)
  <2> HIDE DEF Bytes
  <2> QED
    BY <1>2, <1>7, <1>9, ValidJoined
<1>11. ValidFrom(input, 0, s + o)
  <2>1. CASE o = n
    BY <1>10, <2>1 DEF e
  <2>2. CASE o # n
    <3>1. input[s + o + 1] # "t" /\ s + o < e
      BY <1>2, <1>5, <1>7, <1>8, <2>2 DEF GoodOverlap, s, e
    <3>2. BreakAt(input, s + o) /\ 0 <= s + o /\ 0 \in Nat
      BY <1>8, <3>1 DEF BreakAt
    <3> HIDE DEF Bytes
    <3> QED
      BY <1>2, <1>7, <1>8, <1>10, <3>1, <3>2, ValidCut
  <2> QED
    BY <2>1, <2>2
<1>12. ASSUME e < Len(input)
       PROVE  /\ e - (s + o) + Width(input[e + 1]) <= options.max
              /\ ValidText(input) => input[e + 1] # "t"
  <2>1. n # Len(Buffer)
    BY <1>3, <1>12 DEF GoodCut, s, e
  <2>2. n - o + Width(input[e + 1]) <= options.max
    BY <1>5, <2>1 DEF GoodOverlap, s, e
  <2>3. e - (s + o) = n - o
    BY <1>2, <1>7, <1>8 DEF e
  <2>4. ASSUME ValidText(input) PROVE input[e + 1] # "t"
    <3>1. ValidFrom(input, 0, Len(input))
      <4> HIDE DEF Bytes
      <4> QED
        BY <1>2, <2>4, ValidWhole
    <3>2. BreakAt(input, e)
      BY <1>3, <2>1 DEF GoodCut, s, e
    <3> HIDE DEF Bytes
    <3> QED
      BY <1>2, <1>7, <1>12, <3>1, <3>2, NextStarts
  <2> QED
    BY <2>2, <2>3, <2>4
<1>13. /\ Len(chunks') = Len(chunks) + 1 /\ chunks' \in Seq([start : Nat, end : Nat])
       /\ chunks'[Len(chunks) + 1] = new /\ \A k \in 1 .. Len(chunks) : chunks'[k] = chunks[k]
  <2>1. new \in [start : Nat, end : Nat]
    BY <1>2, <1>7
  <2> HIDE DEF new
  <2> QED
    BY <1>1, <1>2, <2>1
<1>14. new.start = s /\ new.end = e /\ cutter'.start = s + o /\ cutter'.end = e
  BY <1>1
<1> HIDE DEF new
<1>15. TextTyped'
  BY <1>1, <1>7, <1>8, <1>13 DEF TextTyped
<1>16. Placed'
  <2>1. chunks' # <<>> /\ Last(chunks') = new
    BY <1>2, <1>13 DEF Last
  <2>2. e - (s + o) <= options.overlap
    BY <1>2, <1>7, <1>8 DEF e
  <2>3. input' = input /\ options' = options
    BY <1>1
  <2> QED
    BY <1>7, <1>8, <1>10, <1>11, <1>12, <1>14, <2>1, <2>2, <2>3 DEF Placed
<1>17. Sound'
  <2> SUFFICES ASSUME NEW k \in 1 .. Len(chunks) + 1 PROVE GoodChunk(k)'
    BY <1>13 DEF Sound
  <2>1. input' = input /\ options' = options
    BY <1>1
  <2>2. CASE k \in 1 .. Len(chunks)
    <3>1. GoodChunk(k) /\ chunks'[k] = chunks[k] /\ (k > 1 => chunks'[k - 1] = chunks[k - 1])
      BY <1>1, <1>2, <1>13, <2>2 DEF Sound
    <3> QED
      BY <2>1, <3>1 DEF GoodChunk
  <2>3. CASE k = Len(chunks) + 1
    <3>1. chunks'[k] = new /\ e - s = n
      BY <1>2, <1>7, <1>13, <2>3 DEF e
    <3>2. n \in 1 .. options.max
      BY <1>2, <1>7
    <3>3. ASSUME k > 1
          PROVE  /\ chunks'[k - 1].start < s /\ s <= chunks'[k - 1].end
                 /\ chunks'[k - 1].end - s <= options.overlap
                 /\ ValidText(input) => chunks'[k - 1].end < e
      <4>1. chunks # <<>> /\ k - 1 = Len(chunks) /\ k - 1 \in 1 .. Len(chunks)
        BY <1>2, <2>3, <3>3
      <4>2. chunks'[k - 1] = Last(chunks)
        BY <1>13, <4>1 DEF Last
      <4>3. Last(chunks).end = cutter.end /\ Last(chunks).start < s
        BY <1>1, <4>1 DEF Placed, s
      <4>4. cutter.end - s <= options.overlap /\ s <= cutter.end
        BY <1>1 DEF Placed, s
      <4>5. ValidText(input) => cutter.end < e
        BY <1>1, <1>3, GoesFurther DEF s, e
      <4> QED
        BY <4>2, <4>3, <4>4, <4>5
    <3>4. k = 1 => s = 0
      <4> SUFFICES ASSUME k = 1 PROVE s = 0
        OBVIOUS
      <4>1. Len(chunks) = 0
        BY <1>2, <2>3
      <4>2. chunks = <<>>
        BY <1>2, <4>1
      <4> QED
        BY <1>1, <4>2 DEF Placed, s
    <3> QED
      BY <1>7, <1>9, <1>14, <2>1, <3>1, <3>2, <3>3, <3>4 DEF GoodChunk
  <2> QED
    BY <1>2, <2>2, <2>3
<1>18. Tallied'
  <2>1. /\ result.chunks <= Len(chunks) /\ result.chunks \in Nat
        /\ result.end = IF result.chunks = 0 THEN 0 ELSE chunks[result.chunks].end
        /\ -1 \notin indexed /\ 0 .. result.chunks - 1 \subseteq indexed
        /\ pending = result.chunks .. Len(chunks) - 1 /\ indexed = 0 .. result.chunks - 1
    BY <1>1 DEF Tallied, TextTyped
  <2>2. result.chunks # 0 => chunks'[result.chunks] = chunks[result.chunks]
    <3> DEFINE c == result.chunks
    <3>1. c \in Nat /\ c <= Len(chunks)
      BY <2>1
    <3> HIDE DEF c
    <3>2. c # 0 => c \in 1 .. Len(chunks)
      BY <1>2, <3>1
    <3> QED
      BY <1>13, <3>2 DEF c
  <2>3. pending' = result.chunks .. Len(chunks') - 1
    BY <1>1, <1>2, <1>13, <2>1
  <2>4. result' = result /\ indexed' = indexed /\ importing' = importing
    BY <1>1
  <2>5. result.chunks <= Len(chunks')
    BY <1>2, <1>13, <2>1
  <2> QED
    BY <1>1, <2>1, <2>2, <2>3, <2>4, <2>5 DEF Tallied
<1> QED
  BY <1>15, <1>16, <1>17, <1>18 DEF TextInv

\* A batch goes, or it fails and has been applied or not.
LEMMA FlushKeeps ==
  ASSUME TextInv, importing = "cutting", result.deleted \/ pending # {}, NEW outcome \in Outcomes,
         NEW next \in {"cutting", "done"}, next = "done" => AtEOF,
         pending = {} => outcome = "ok",
         Flush(outcome, next)
  PROVE  TextInv'
<1> DEFINE l == Len(chunks)
           c == result.chunks
<1>1. /\ TextTyped /\ Placed /\ Sound /\ Tallied
      /\ indexed' = IF outcome = "lost" THEN indexed ELSE indexed \cup pending
      /\ result' = IF outcome = "ok" /\ pending # {}
                     THEN [result EXCEPT !.chunks = Max(pending) + 1,
                                         !.end = chunks[Max(pending) + 1].end]
                     ELSE result
      /\ pending' = {}
      /\ importing' = IF outcome = "ok" THEN next ELSE "failed"
      /\ UNCHANGED <<input, options, cutter, chunks>>
  BY DEF TextInv, Flush, Counts
<1>2. /\ chunks \in Seq([start : Nat, end : Nat]) /\ l \in Nat /\ c \in Nat
      /\ result \in [deleted : BOOLEAN, chunks : Nat, end : Nat]
  BY <1>1 DEF TextTyped
<1>3. /\ c <= l /\ result.end = IF c = 0 THEN 0 ELSE chunks[c].end
      /\ pending = c .. l - 1 /\ 0 .. c - 1 \subseteq indexed
  BY <1>1 DEF Tallied
<1>4. result.deleted /\ -1 \notin indexed /\ indexed = 0 .. c - 1
  <2>1. result.deleted
    <3> SUFFICES ASSUME ~result.deleted PROVE FALSE
      OBVIOUS
    <3>1. l = 0 /\ pending # {}
      BY <1>1 DEF Tallied
    <3> QED
      BY <1>2, <1>3, <3>1
  <2> QED
    BY <1>1, <2>1 DEF Tallied
<1>5. pending # {} => Max(pending) = l - 1
  <2> SUFFICES ASSUME pending # {} PROVE Max(pending) = l - 1
    OBVIOUS
  <2>1. l - 1 \in pending /\ \A i \in pending : i <= l - 1
    BY <1>2, <1>3
  <2>2. pending \in SUBSET (0 .. l) /\ l \in Nat
    BY <1>2, <1>3
  <2> DEFINE m == Max(pending)
  <2>3. m \in pending /\ \A i \in pending : i <= m
    <3> HIDE DEF l
    <3> QED
      BY <2>2, GreatestNumber
  <2> HIDE DEF m
  <2>4. m <= l - 1 /\ l - 1 <= m
    BY <2>1, <2>3
  <2>5. m \in 0 .. l
    BY <2>2, <2>3
  <2>6. m = l - 1
    BY <1>2, <2>4, <2>5
  <2> QED
    BY <2>6 DEF m
<1>6. CASE outcome = "ok" /\ pending # {}
  <2>1. l \in 1 .. l /\ chunks[l].end \in Nat
    <3>1. l >= 1
      BY <1>2, <1>3, <1>6
    <3>2. l \in 1 .. l
      BY <1>2, <3>1
    <3>3. chunks[l] \in [start : Nat, end : Nat]
      <4> DEFINE C == [start : Nat, end : Nat]
      <4>1. chunks \in Seq(C)
        BY <1>2
      <4> HIDE DEF C
      <4>2. chunks[l] \in C
        BY <3>2, <4>1, ElementOfSeq
      <4> QED
        BY <4>2 DEF C
    <3> QED
      BY <3>2, <3>3
  <2>2. result' = [result EXCEPT !.chunks = l, !.end = chunks[l].end]
    <3>1. Max(pending) + 1 = l
      BY <1>2, <1>5, <1>6
    <3> QED
      BY <1>1, <1>6, <3>1
  <2>3. /\ result'.chunks = l /\ result'.end = chunks[l].end /\ result'.deleted
        /\ result' \in [deleted : BOOLEAN, chunks : Nat, end : Nat]
    BY <1>2, <1>4, <2>1, <2>2
  <2>4. indexed' = 0 .. l - 1
    <3>1. indexed' = (0 .. c - 1) \cup (c .. l - 1)
      BY <1>1, <1>3, <1>4, <1>6
    <3> QED
      BY <1>2, <1>3, <3>1
  <2>5. pending' = l .. l - 1
    BY <1>1, <1>2
  <2>6. importing' = next /\ chunks' = chunks /\ cutter' = cutter /\ input' = input
    BY <1>1, <1>6
  <2>7. next = "done" => cutter.end = Len(input)
    BY <1>1, EndIs
  <2>8. -1 \notin 0 .. l - 1
    BY <1>2
  <2>9. Tallied'
    BY <1>2, <2>1, <2>3, <2>4, <2>5, <2>6, <2>7, <2>8 DEF Tallied
  <2>10. TextTyped' /\ Placed' /\ Sound'
    BY <1>1, <2>3 DEF TextTyped, Placed, Sound, GoodChunk
  <2> QED
    BY <2>9, <2>10 DEF TextInv
<1>7. CASE ~(outcome = "ok" /\ pending # {})
  <2>1. result' = result /\ chunks' = chunks /\ cutter' = cutter /\ input' = input
    BY <1>1, <1>7
  <2>2. -1 \notin indexed' /\ 0 .. c - 1 \subseteq indexed'
    <3>1. -1 \notin pending
      BY <1>2, <1>3
    <3> QED
      BY <1>1, <1>3, <1>4, <3>1
  <2>3. CASE pending = {}
    <3>1. c = l /\ indexed' = 0 .. c - 1 /\ pending' = c .. l - 1
      <4>1. indexed' = indexed
        BY <1>1, <2>3
      <4>2. c .. l - 1 = {} /\ pending' = {}
        BY <1>1, <1>3, <2>3
      <4>3. c \in Nat /\ l \in Nat /\ c <= l
        BY <1>2, <1>3
      <4> HIDE DEF c, l
      <4>4. c = l
        BY <4>2, <4>3
      <4> QED
        BY <1>4, <4>1, <4>2, <4>4 DEF c, l
    <3>2. importing' = next /\ (next = "done" => cutter.end = Len(input))
      BY <1>1, <2>3, EndIs
    <3>3. Tallied'
      BY <1>3, <1>4, <2>1, <2>2, <3>1, <3>2 DEF Tallied
    <3> QED
      BY <1>1, <2>1, <3>3 DEF TextInv, TextTyped, Placed, Sound, GoodChunk
  <2>4. CASE pending # {}
    <3>1. importing' = "failed"
      BY <1>1, <1>7, <2>4
    <3>2. Tallied'
      BY <1>3, <1>4, <2>1, <2>2, <3>1 DEF Tallied
    <3> QED
      BY <1>1, <2>1, <3>2 DEF TextInv, TextTyped, Placed, Sound, GoodChunk
  <2> QED
    BY <2>3, <2>4
<1> QED
  BY <1>6, <1>7

\* The old chunks go before any new one.
LEMMA DeleteOldKeeps ==
  ASSUME TextInv, NEW outcome \in Outcomes, DeleteOld(outcome)
  PROVE  TextInv'
<1>1. /\ TextTyped /\ Placed /\ Sound /\ Tallied
      /\ ~result.deleted /\ importing = "cutting"
      /\ indexed' = IF outcome = "lost" THEN indexed ELSE indexed \ {-1}
      /\ result' = [result EXCEPT !.deleted = (outcome = "ok")]
      /\ importing' = IF outcome = "ok" THEN "cutting" ELSE "failed"
      /\ UNCHANGED <<input, options, cutter, chunks, pending>>
  BY DEF TextInv, DeleteOld
<1>2. /\ result.chunks \in Nat /\ result.chunks <= Len(chunks) /\ chunks = <<>>
      /\ indexed \subseteq {-1} /\ Len(chunks) = 0
      /\ result \in [deleted : BOOLEAN, chunks : Nat, end : Nat]
  BY <1>1 DEF Tallied, TextTyped
<1>3. /\ result'.chunks = result.chunks /\ result'.end = result.end
      /\ result'.deleted = (outcome = "ok")
      /\ result' \in [deleted : BOOLEAN, chunks : Nat, end : Nat] /\ result.chunks = 0
  <2> DEFINE ok == outcome = "ok"
  <2>1. ok \in BOOLEAN /\ result' = [result EXCEPT !.deleted = ok]
    BY <1>1
  <2> HIDE DEF ok
  <2>2. /\ result'.chunks = result.chunks /\ result'.end = result.end
        /\ result' \in [deleted : BOOLEAN, chunks : Nat, end : Nat]
    BY <1>2, <2>1
  <2>3. result'.deleted = ok
    BY <1>2, <2>1, Zenon
  <2>4. result.chunks = 0
    BY <1>2
  <2> QED
    BY <2>2, <2>3, <2>4, Zenon DEF ok
<1>4. TextTyped' /\ Placed' /\ Sound'
  BY <1>1, <1>3 DEF TextTyped, Placed, Sound, GoodChunk
<1>5. Tallied'
  <2>1. indexed' \subseteq {-1} /\ (outcome = "ok" => indexed' = {})
    BY <1>1, <1>2
  <2>2. 0 .. 0 - 1 = {}
    OBVIOUS
  <2> QED
    BY <1>1, <1>2, <1>3, <2>1, <2>2 DEF Tallied
<1> QED
  BY <1>4, <1>5 DEF TextInv

\* Whatever step is taken.
LEMMA TextInductive == TextInv /\ [TextNext]_textVars => TextInv'
<1> SUFFICES ASSUME TextInv, [TextNext]_textVars PROVE TextInv'
  OBVIOUS
<1>1. CASE NextChunk
  BY <1>1, NextChunkKeeps
<1>2. CASE BadChunk
  <2>1. /\ TextTyped /\ Placed /\ Sound /\ Tallied /\ importing' = "failed"
        /\ UNCHANGED <<input, options, cutter, chunks, pending, result, indexed>>
    BY <1>2 DEF TextInv, BadChunk
  <2> QED
    BY <2>1 DEF TextInv, TextTyped, Placed, Sound, GoodChunk, Tallied
<1>3. ASSUME NEW outcome \in Outcomes, DeleteOld(outcome) PROVE TextInv'
  BY <1>3, DeleteOldKeeps
<1>4. ASSUME NEW outcome \in Outcomes, FlushBatch(outcome) PROVE TextInv'
  <2>1. importing = "cutting" /\ pending # {} /\ Flush(outcome, "cutting")
    BY <1>4 DEF FlushBatch
  <2> QED
    BY <2>1, FlushKeeps
<1>5. ASSUME NEW outcome \in Outcomes, LastFlush(outcome) PROVE TextInv'
  <2> DEFINE o == IF pending = {} THEN "ok" ELSE outcome
  <2>1. result.deleted /\ importing = "cutting" /\ AtEOF /\ Flush(o, "done")
    BY <1>5 DEF LastFlush
  <2>2. o \in Outcomes /\ (pending = {} => o = "ok")
    BY DEF Outcomes
  <2> HIDE DEF o
  <2> QED
    BY <2>1, <2>2, FlushKeeps
<1>6. CASE UNCHANGED textVars
  BY <1>6 DEF TextInv, textVars, TextTyped, Placed, Sound, GoodChunk, Tallied
<1> QED
  BY <1>1, <1>2, <1>3, <1>4, <1>5, <1>6 DEF TextNext

\* ImportText (writer_text.go): for any texts and options, and however its batches end, the
\* chunks are text within the options' bounds, and together with no gap; and the result says
\* at every moment what of them is in the index, and that the old ones are gone.
THEOREM ImportsAreFaithful == TextSpec => []ImportIsFaithful
<1>1. TextInv => ImportIsFaithful
  <2> SUFFICES ASSUME TextInv PROVE ImportIsFaithful
    OBVIOUS
  <2>1. /\ TextTyped /\ Placed /\ Sound /\ Tallied
        /\ input \in Seq(Bytes) /\ chunks \in Seq([start : Nat, end : Nat]) /\ Len(input) \in Nat
        /\ Len(chunks) \in Nat /\ DOMAIN chunks = 1 .. Len(chunks) /\ options.max \in Nat
    BY DEF TextInv, TextTyped
  <2>2. ASSUME NEW k \in DOMAIN chunks
        PROVE  ValidText(SubSeq(input, chunks[k].start + 1, chunks[k].end))
    <3> DEFINE a == chunks[k].start
               b == chunks[k].end
    <3>1. a \in Nat /\ b \in Nat
      <4> DEFINE C == [start : Nat, end : Nat]
      <4>1. chunks \in Seq(C) /\ k \in 1 .. Len(chunks)
        BY <2>1
      <4> HIDE DEF C
      <4>2. chunks[k] \in C
        BY <4>1, ElementOfSeq
      <4>3. chunks[k] \in [start : Nat, end : Nat]
        BY <4>2 DEF C
      <4> QED
        BY <4>3
    <3>2. b - a \in 1 .. options.max /\ b <= Len(input) /\ ValidFrom(input, a, b)
      BY <2>1 DEF Sound, GoodChunk
    <3> HIDE DEF a, b, Bytes
    <3>3. a <= b
      BY <2>1, <3>1, <3>2
    <3>4. ValidText(SubSeq(input, a + 1, b))
      BY <2>1, <3>1, <3>2, <3>3, ValidPart
    <3> QED
      BY <3>4 DEF a, b
  <2>3. ASSUME NEW k \in DOMAIN chunks
        PROVE  /\ chunks[k].end - chunks[k].start \in 1 .. options.max
               /\ k > 1 => /\ chunks[k - 1].start < chunks[k].start
                           /\ chunks[k].start <= chunks[k - 1].end
                           /\ chunks[k - 1].end - chunks[k].start <= options.overlap
                           /\ ValidText(input) => chunks[k - 1].end < chunks[k].end
    BY <2>1 DEF Sound, GoodChunk
  <2>4. chunks # <<>> => chunks[1].start = 0
    BY <2>1 DEF Sound, GoodChunk
  <2>5. ASSUME importing = "done"
        PROVE  ValidText(input) /\ (input # <<>> => chunks # <<>> /\ Last(chunks).end = Len(input))
    <3>1. cutter.end = Len(input) /\ ValidFrom(input, 0, cutter.end)
      BY <2>1, <2>5 DEF Tallied, Placed
    <3>2. ValidText(input)
      <4> HIDE DEF Bytes
      <4> QED
        BY <2>1, <3>1, ValidWhole
    <3>3. input # <<>> => Len(input) # 0
      BY <2>1
    <3>4. chunks = <<>> => cutter.end = 0
      BY <2>1 DEF Placed
    <3>5. chunks # <<>> => Last(chunks).end = cutter.end
      BY <2>1 DEF Placed
    <3> QED
      BY <3>1, <3>2, <3>3, <3>4, <3>5
  <2>6. ChunksCoverText
    BY <2>2, <2>3, <2>4, <2>5 DEF ChunksCoverText
  <2>7. ResultIsTrue
    <3>1. result.deleted \/ indexed \ {-1} # {} => -1 \notin indexed
      BY <2>1 DEF Tallied
    <3> QED
      BY <2>1, <3>1 DEF Tallied, ResultIsTrue
  <2> QED
    BY <2>6, <2>7 DEF ImportIsFaithful
<1> QED
  BY <1>1, TextInitially, TextInductive, PTL DEF TextSpec

-----------------------------------------------------------------------------
(* Searches of vectors beside Close *)

ReaderKinds == {"collection", "plain", "bare"}

\* What somebody does before, under, and after the call that has a permit.
Pcs == {"idle", "locking", "wanting", "closing", "unlocking", "cached", "opening", "storing",
        "reading", "calls", "acquiring", "excluding", "taking", "inside", "deleting",
        "releasing"}
WithGate == {"acquiring", "excluding", "taking", "inside", "deleting", "releasing"}
Calling  == {"calls", "acquiring", "excluding", "taking", "inside"}
Holding  == {"taking", "inside", "deleting", "releasing"}

AtType == [pc : Pcs, op : {"none", "search", "save", "close"}, reader : Nat,
           gate : Gates \cup {NoOne}, got : Nat]

\* Who is at a reader, who holds its lock with others, who wants it alone or has it, and
\* who opens its view.
IsAt(c, r)    == at[c].pc # "idle" /\ at[c].reader = r
Shares(c, r)  == IsAt(c, r) /\ kinds[r] # "bare" /\ at[c].op = "search" /\ at[c].pc # "locking"
AtClose(c, r) == IsAt(c, r) /\ at[c].op = "close"
Closes(c, r)  == /\ AtClose(c, r) /\ at[c].pc # "locking"
                 /\ at[c].pc = "closing" => kinds[r] = "collection"
Opens(c, r)   == IsAt(c, r) /\ at[c].pc \in {"opening", "storing"}

\* The searches with a permit of a gate, and those that want, or have, all of them.
Permitted(g) == {c \in Searchers : at[c].gate = g /\ at[c].op = "search" /\ at[c].pc = "inside"}
Excluding(g) == {c \in Searchers : at[c].gate = g /\ at[c].op # "search" /\ at[c].pc \in Holding}

Typed ==
  /\ kinds \in Layouts
  /\ lock \in [DOMAIN kinds -> [inside : SUBSET Searchers, wanted : Searchers \cup {NoOne}]]
  /\ opener \in [DOMAIN kinds -> Searchers \cup {NoOne}]
  /\ view \in [DOMAIN kinds -> {"none", "ready", "closed"}]
  /\ shut \in [DOMAIN kinds -> BOOLEAN] /\ snap \in [DOMAIN kinds -> BOOLEAN]
  /\ addr \in [DOMAIN kinds -> Addresses \cup {0}]
  /\ owner \in [Addresses -> DOMAIN kinds \cup {0}]
  /\ table \in [Addresses -> Gates \cup {NoOne}]
  /\ gates \in [Gates -> [taken : Int, exclusive : Searchers \cup {NoOne}]]
  /\ at \in [Searchers -> AtType] /\ robbed \subseteq DOMAIN kinds

\* Where a goroutine can be, by what it does and at what kind of reader.
PositionOf(c) ==
  at[c].pc # "idle" =>
    LET r == at[c].reader
    IN  /\ r \in DOMAIN kinds /\ at[c].op # "none"
        /\ at[c].op = "close" => kinds[r] # "bare"
        /\ at[c].op = "save" => kinds[r] = "bare"
        /\ kinds[r] = "bare" => at[c].pc \in Calling
        /\ at[c].op = "search" => at[c].pc \notin {"wanting", "closing", "excluding", "taking",
                                                  "deleting", "releasing"}
        /\ at[c].op # "search" => at[c].pc \notin {"cached", "opening", "storing", "reading",
                                                  "acquiring"}
        /\ kinds[r] # "collection" => at[c].pc \notin {"cached", "opening", "storing"}

\* The locks are had by those who are where one has them.
LockOK(r, c) ==
  /\ c \in lock[r].inside <=> Shares(c, r)
  /\ lock[r].wanted = c <=> Closes(c, r)
  /\ opener[r] = c <=> Opens(c, r)
  /\ Closes(c, r) /\ at[c].pc # "wanting" => lock[r].inside = {}

\* What a goroutine that is at a reader finds there.
SeesOK(r, c) ==
  /\ kinds[r] = "collection" /\ Shares(c, r) /\ at[c].pc # "unlocking" => ~shut[r]
  /\ Closes(c, r) /\ at[c].pc # "wanting" => shut[r]
  /\ IsAt(c, r) /\ at[c].pc \in Calling \cup {"reading"} => view[r] = "ready"
  /\ IsAt(c, r) /\ at[c].pc = "cached" => view[r] # "closed"
  /\ Opens(c, r) => view[r] = "none"
  /\ IsAt(c, r) /\ at[c].pc = "storing" => addr[r] # 0 /\ owner[addr[r]] = r
  /\ IsAt(c, r) /\ at[c].pc = "deleting" => addr[r] # 0 /\ view[r] = "closed"
  /\ kinds[r] = "plain" /\ AtClose(c, r) =>
       shut[r] /\ (at[c].pc \notin {"deleting", "releasing", "unlocking"} => view[r] = "ready")

\* What has been opened and what has been closed.
ViewOK(r) ==
  /\ kinds[r] # "collection" => view[r] # "none"
  /\ kinds[r] = "bare" => view[r] = "ready"
  /\ kinds[r] = "plain" /\ ~shut[r] => view[r] = "ready"
  /\ kinds[r] = "collection" /\ ~snap[r] => shut[r]

\* A plain reader is closed once.
ClosedOnce(r) ==
  kinds[r] = "plain" => \A c, d \in Searchers : AtClose(c, r) /\ AtClose(d, r) => c = d

\* Whose the addresses are, and their gates.
HomeOK(r) ==
  view[r] = "ready" =>
    /\ addr[r] # 0 /\ owner[addr[r]] = r
    /\ table[addr[r]] = NoOne \/ table[addr[r]][1] = r
    /\ r \notin robbed => table[addr[r]] = <<r, "own">>

GateOf(c) ==
  at[c].pc \in WithGate =>
    /\ at[c].gate \in Gates /\ at[c].gate[1] = at[c].reader
    /\ at[c].reader \notin robbed => at[c].gate = <<at[c].reader, "own">>

\* Gates count who has permits.
CountOf(g) ==
  /\ IsFiniteSet(Permitted(g))
  /\ \A c \in Searchers : gates[g].exclusive = c <=> c \in Excluding(g)
  /\ \A c \in Excluding(g) :
       /\ at[c].pc = "taking" => at[c].got < Cap(g)
       /\ at[c].pc # "taking" => at[c].got = Cap(g)
  /\ gates[g].taken <= Cap(g)
  /\ gates[g].exclusive = NoOne => gates[g].taken = Cardinality(Permitted(g))
  /\ gates[g].exclusive # NoOne =>
       gates[g].taken = Cardinality(Permitted(g)) + at[gates[g].exclusive].got

\* Who has not begun to take all permits has taken none of them.
EmptyOf(c) ==
  at[c].got # 0 =>
    /\ at[c].op # "search"
    /\ at[c].pc \in Holding \cup {"closing", "unlocking"}
    /\ at[c].pc = "closing" => kinds[at[c].reader] = "collection"

LocksOf(c) == \A r \in DOMAIN kinds : LockOK(r, c)
SeesOf(c)  == \A r \in DOMAIN kinds : SeesOK(r, c)
Positions == \A c \in Searchers : PositionOf(c)
Locks     == \A c \in Searchers : LocksOf(c)
Sees      == \A c \in Searchers : SeesOf(c)
Views     == \A r \in DOMAIN kinds : ViewOK(r)
Once      == \A r \in DOMAIN kinds : ClosedOnce(r)
Homes     == \A r \in DOMAIN kinds : HomeOK(r)
WithGates == \A c \in Searchers : GateOf(c)
Census    == \A g \in Gates : CountOf(g)
Empty     == \A c \in Searchers : EmptyOf(c)

ReadersInv == /\ Typed /\ Positions /\ Locks /\ Sees /\ Views /\ Once /\ Homes /\ WithGates
              /\ Census /\ Empty

-----------------------------------------------------------------------------
(* What a step of one goroutine leaves as it is *)

\* One goroutine moves, and the others stay where they are.
Moved(c) ==
  /\ kinds' = kinds /\ Gates' = Gates /\ AtType' = AtType
  /\ at' \in [Searchers -> AtType] /\ \A d \in Searchers \ {c} : at'[d] = at[d]

\* It goes on with what it does.
Goes(c, pc) ==
  /\ Moved(c) /\ at'[c].pc = pc
  /\ at'[c].op = at[c].op /\ at'[c].reader = at[c].reader /\ at'[c].gate = at[c].gate
  /\ at'[c].got = at[c].got

\* Or it is done.
Rests(c) == Moved(c) /\ at'[c] = AtRest

\* There are three kinds of readers.
LEMMA KindsOf == ReadersInv => \A r \in DOMAIN kinds : kinds[r] \in ReaderKinds
  BY VectorReadersAssumption DEF ReadersInv, Typed, ReaderKinds

\* What Goto does.
LEMMA Going ==
  ASSUME ReadersInv, NEW c \in Searchers, NEW pc \in Pcs, Goto(c, pc), UNCHANGED kinds
  PROVE  Goes(c, pc)
<1>1. at[c] \in AtType
  BY DEF ReadersInv, Typed
<1>2. at' = [at EXCEPT ![c] = [at[c] EXCEPT !.pc = pc]] /\ [at[c] EXCEPT !.pc = pc] \in AtType
  BY <1>1 DEF Goto, AtType
<1> QED
  <2>1. Gates' = Gates
    BY DEF Gates
  <2>2. AtType' = AtType
    BY <2>1 DEF AtType
  <2>3. /\ at'[c].pc = pc /\ at'[c].op = at[c].op /\ at'[c].reader = at[c].reader
        /\ at'[c].gate = at[c].gate /\ at'[c].got = at[c].got
    BY <1>1, <1>2 DEF ReadersInv, Typed, AtType
  <2>4. at' \in [Searchers -> AtType] /\ \A d \in Searchers \ {c} : at'[d] = at[d]
    BY <1>2 DEF ReadersInv, Typed
  <2> QED
    BY <2>1, <2>2, <2>3, <2>4 DEF Goes, Moved

\* What Rest does.
LEMMA Resting ==
  ASSUME ReadersInv, NEW c \in Searchers, Rest(c), UNCHANGED kinds
  PROVE  Rests(c)
<1>1. AtRest \in AtType
  BY DEF AtRest, AtType, Pcs
<1> QED
  <2>1. Gates' = Gates
    BY DEF Gates
  <2>2. AtType' = AtType
    BY <2>1 DEF AtType
  <2>3. /\ at' \in [Searchers -> AtType] /\ \A d \in Searchers \ {c} : at'[d] = at[d]
        /\ at'[c] = AtRest
    BY <1>1 DEF ReadersInv, Typed, Rest
  <2> QED
    BY <2>1, <2>2, <2>3 DEF Rests, Moved

\* Whoever stays where it is may be there as before.
LEMMA PositionsKept ==
  ASSUME ReadersInv, NEW c \in Searchers, Moved(c), PositionOf(c)'
  PROVE  Positions'
  BY DEF ReadersInv, Positions, PositionOf, Moved

\* Locks that do not change are had by those who stay.
LEMMA LocksKept ==
  ASSUME ReadersInv, NEW c \in Searchers, Moved(c), UNCHANGED <<lock, opener>>, LocksOf(c)'
  PROVE  Locks'
  BY DEF ReadersInv, Locks, LocksOf, LockOK, Shares, AtClose, Closes, Opens, IsAt, Moved

\* Those who stay find what they found, when nothing of the readers changes.
LEMMA SeesKept ==
  ASSUME ReadersInv, NEW c \in Searchers, Moved(c), UNCHANGED <<shut, view, addr, owner>>,
         SeesOf(c)'
  PROVE  Sees'
<1> SUFFICES ASSUME NEW d \in Searchers, d # c, NEW r \in DOMAIN kinds PROVE SeesOK(r, d)'
  BY DEF Sees, SeesOf, Moved
<1>1. SeesOK(r, d) /\ at'[d] = at[d] /\ kinds' = kinds
  BY DEF ReadersInv, Sees, SeesOf, Moved
<1> QED
  BY <1>1 DEF SeesOK, Shares, AtClose, Closes, Opens, IsAt

\* What was opened and closed stays so when it does not change.
LEMMA ViewsKept ==
  ASSUME ReadersInv, UNCHANGED <<kinds, shut, snap, view>>
  PROVE  Views'
  BY DEF ReadersInv, Views, ViewOK

\* Nobody closes a plain reader when nobody begins to.
LEMMA OnceKept ==
  ASSUME ReadersInv, NEW c \in Searchers, Moved(c), \A r \in DOMAIN kinds : AtClose(c, r)' => AtClose(c, r)
  PROVE  Once'
<1> SUFFICES ASSUME NEW r \in DOMAIN kinds, kinds[r] = "plain", NEW d \in Searchers, NEW e \in Searchers,
                    AtClose(d, r)', AtClose(e, r)'
             PROVE  d = e
  BY DEF Once, ClosedOnce, Moved
<1>1. AtClose(d, r) /\ AtClose(e, r)
  BY DEF Moved, AtClose, IsAt
<1> QED
  BY <1>1 DEF ReadersInv, Once, ClosedOnce

\* Addresses and the table that do not change are whose they were.
LEMMA HomesKept ==
  ASSUME ReadersInv, UNCHANGED <<kinds, view, addr, owner, table, robbed>>
  PROVE  Homes'
  BY DEF ReadersInv, Homes, HomeOK

\* Those who stay keep the gate that they found.
LEMMA WithGatesKept ==
  ASSUME ReadersInv, NEW c \in Searchers, Moved(c), robbed \subseteq robbed', GateOf(c)'
  PROVE  WithGates'
<1> SUFFICES ASSUME NEW d \in Searchers, d # c PROVE GateOf(d)'
  BY DEF WithGates
<1> QED
  BY DEF ReadersInv, WithGates, GateOf, Moved

\* A step of somebody without permits does not change what gates count.
LEMMA CensusKept ==
  ASSUME ReadersInv, NEW c \in Searchers, Moved(c), UNCHANGED gates,
         at[c].pc \notin Holding, at'[c].pc \notin Holding
  PROVE  Census'
<1>1. (\A d \in Searchers \ {c} : at'[d] = at[d]) /\ Gates' = Gates
  BY DEF Moved
<1>2. \A g \in Gates : Permitted(g)' = Permitted(g) /\ Excluding(g)' = Excluding(g)
  BY <1>1 DEF Permitted, Excluding, Holding
<1>3. \A g \in Gates : \A d \in Excluding(g) : at'[d] = at[d]
  BY <1>1 DEF Excluding, Holding
<1>4. \A g \in Gates : gates[g].exclusive # NoOne => gates[g].exclusive \in Excluding(g)
  BY DEF ReadersInv, Census, CountOf, Typed
<1> SUFFICES ASSUME NEW g \in Gates PROVE CountOf(g)'
  BY <1>1 DEF Census
<1>5. CountOf(g)
  BY DEF ReadersInv, Census
<1> QED
  BY <1>1, <1>2, <1>3, <1>4, <1>5 DEF CountOf, Cap

\* Whoever stays has taken what it had taken.
LEMMA EmptyKept ==
  ASSUME ReadersInv, NEW c \in Searchers, Moved(c), EmptyOf(c)'
  PROVE  Empty'
  BY DEF ReadersInv, Empty, EmptyOf, Moved

\* A step that only changes where somebody is.
LEMMA TypedKept ==
  ASSUME ReadersInv, NEW c \in Searchers, Moved(c),
         UNCHANGED <<lock, opener, view, shut, snap, addr, owner, table, gates, robbed>>
  PROVE  Typed'
  BY DEF ReadersInv, Typed, Moved

-----------------------------------------------------------------------------
(* The locks of a reader *)

\* A search comes in when nobody wants the lock alone.
LEMMA LockSharedKeeps == ASSUME ReadersInv, NEW c \in Searchers, LockShared(c) PROVE ReadersInv'
<1> DEFINE r == at[c].reader
           pc == IF view[r] = "closed" \/ (kinds[r] = "collection" /\ shut[r]) THEN "unlocking"
                 ELSE IF kinds[r] = "collection" THEN "cached" ELSE "calls"
<1>1. /\ at[c].pc = "locking" /\ at[c].op = "search" /\ lock[r].wanted = NoOne
      /\ lock' = [lock EXCEPT ![r].inside = @ \cup {c}]
      /\ UNCHANGED <<kinds, shut, snap, gates, opener, view, addr, owner, table, robbed>>
      /\ Goto(c, pc) /\ pc \in Pcs
  BY DEF LockShared, handles, Kind, Pcs
<1>2. /\ pc \in {"unlocking", "cached", "calls"}
      /\ pc # "unlocking" => view[r] # "closed" /\ (kinds[r] = "collection" => ~shut[r])
      /\ pc = "cached" => kinds[r] = "collection"
      /\ pc = "calls" => kinds[r] # "collection"
  OBVIOUS
<1> HIDE DEF pc
<1>3. Goes(c, pc)
  BY <1>1, Going
<1>4. /\ PositionOf(c) /\ EmptyOf(c) /\ LocksOf(c) /\ SeesOf(c)
  BY DEF ReadersInv, Positions, Empty, Locks, Sees
<1>5. r \in DOMAIN kinds /\ kinds[r] \in ReaderKinds \ {"bare"} /\ at[c].got = 0
  BY <1>1, <1>4, KindsOf DEF PositionOf, EmptyOf, Calling, Holding
<1>6. /\ lock[r] \in [inside : SUBSET Searchers, wanted : Searchers \cup {NoOne}]
      /\ lock \in [DOMAIN kinds -> [inside : SUBSET Searchers, wanted : Searchers \cup {NoOne}]]
  BY <1>5 DEF ReadersInv, Typed
<1>7. /\ lock'[r].inside = lock[r].inside \cup {c} /\ lock'[r].wanted = NoOne
      /\ \A q \in DOMAIN kinds \ {r} : lock'[q] = lock[q]
  BY <1>1, <1>5, <1>6
<1>8. Typed'
  <2>1. lock' \in [DOMAIN kinds -> [inside : SUBSET Searchers, wanted : Searchers \cup {NoOne}]]
    BY <1>1, <1>5, <1>6
  <2> QED
    BY <1>1, <1>3, <2>1 DEF ReadersInv, Typed, Goes, Moved
<1>9. Positions'
  <2>1. PositionOf(c)'
    BY <1>1, <1>2, <1>3, <1>4, <1>5 DEF PositionOf, Goes, Moved, ReaderKinds, Calling
  <2> QED
    BY <1>3, <2>1, PositionsKept DEF Goes
<1>10. Locks'
  <2> SUFFICES ASSUME NEW d \in Searchers, NEW q \in DOMAIN kinds PROVE LockOK(q, d)'
    BY <1>1 DEF Locks, LocksOf
  <2>1. LockOK(q, d)
    BY DEF ReadersInv, Locks, LocksOf
  <2>2. CASE d = c
    BY <1>1, <1>2, <1>3, <1>5, <1>7, <2>1, <2>2, VectorReadersAssumption
       DEF LockOK, Shares, AtClose, Closes, Opens, IsAt, Goes, Moved
  <2>3. CASE d # c
    <3>1. at'[d] = at[d] /\ kinds' = kinds /\ opener' = opener
      BY <1>1, <1>3, <2>3 DEF Goes, Moved
    <3>2. q = r => ~Closes(d, q)
      BY <1>1, <2>1, VectorReadersAssumption DEF LockOK
    <3> QED
      BY <1>1, <1>7, <2>1, <2>3, <3>1, <3>2 DEF LockOK, Shares, AtClose, Closes, Opens, IsAt
  <2> QED
    BY <2>2, <2>3
<1>11. Sees'
  <2>1. SeesOf(c)'
    BY <1>1, <1>2, <1>3, <1>4, <1>5
       DEF ReadersInv, Views, ViewOK, Typed, SeesOf, SeesOK, Shares, AtClose, Closes, Opens, IsAt, Goes, Moved, Calling
  <2> QED
    BY <1>1, <1>3, <2>1, SeesKept DEF Goes
<1>12. Views' /\ Homes'
  BY <1>1, ViewsKept, HomesKept
<1>13. Once'
  BY <1>1, <1>3, OnceKept DEF Goes, AtClose, IsAt
<1>14. WithGates'
  <2>1. GateOf(c)'
    BY <1>2, <1>3 DEF GateOf, Goes, WithGate
  <2> QED
    BY <1>1, <1>3, <2>1, WithGatesKept DEF Goes
<1>15. Census'
  BY <1>1, <1>2, <1>3, CensusKept DEF Goes, Holding
<1>16. Empty'
  <2>1. EmptyOf(c)'
    BY <1>3, <1>5 DEF EmptyOf, Goes
  <2> QED
    BY <1>3, <2>1, EmptyKept DEF Goes
<1> QED
  BY <1>8, <1>9, <1>10, <1>11, <1>12, <1>13, <1>14, <1>15, <1>16 DEF ReadersInv

\* Close keeps newcomers out.
LEMMA WantKeeps == ASSUME ReadersInv, NEW c \in Searchers, Want(c) PROVE ReadersInv'
<1> DEFINE r == at[c].reader
<1>1. /\ at[c].pc = "locking" /\ at[c].op = "close" /\ lock[r].wanted = NoOne
      /\ lock' = [lock EXCEPT ![r].wanted = c]
      /\ UNCHANGED <<kinds, shut, snap, gates, opener, view, addr, owner, table, robbed>>
      /\ Goto(c, "wanting") /\ "wanting" \in Pcs
  BY DEF Want, handles, Pcs
<1>3. Goes(c, "wanting")
  BY <1>1, Going
<1>4. /\ PositionOf(c) /\ EmptyOf(c) /\ LocksOf(c) /\ SeesOf(c)
  BY DEF ReadersInv, Positions, Empty, Locks, Sees
<1>5. r \in DOMAIN kinds /\ kinds[r] \in ReaderKinds \ {"bare"} /\ at[c].got = 0
  BY <1>1, <1>4, KindsOf DEF PositionOf, EmptyOf, Calling, Holding
<1>6. /\ lock[r] \in [inside : SUBSET Searchers, wanted : Searchers \cup {NoOne}]
      /\ lock \in [DOMAIN kinds -> [inside : SUBSET Searchers, wanted : Searchers \cup {NoOne}]]
  BY <1>5 DEF ReadersInv, Typed
<1>7. /\ lock'[r].inside = lock[r].inside /\ lock'[r].wanted = c
      /\ \A q \in DOMAIN kinds \ {r} : lock'[q] = lock[q]
  BY <1>1, <1>5, <1>6
<1>8. Typed'
  <2>1. lock' \in [DOMAIN kinds -> [inside : SUBSET Searchers, wanted : Searchers \cup {NoOne}]]
    BY <1>1, <1>5, <1>6
  <2> QED
    BY <1>1, <1>3, <2>1 DEF ReadersInv, Typed, Goes, Moved
<1>9. Positions'
  <2>1. PositionOf(c)'
    BY <1>1, <1>3, <1>4, <1>5 DEF PositionOf, Goes, Moved, ReaderKinds, Calling
  <2> QED
    BY <1>3, <2>1, PositionsKept DEF Goes
<1>10. Locks'
  <2> SUFFICES ASSUME NEW d \in Searchers, NEW q \in DOMAIN kinds PROVE LockOK(q, d)'
    BY <1>1 DEF Locks, LocksOf
  <2>1. LockOK(q, d)
    BY DEF ReadersInv, Locks, LocksOf
  <2>2. CASE d = c
    BY <1>1, <1>3, <1>5, <1>7, <2>1, <2>2, VectorReadersAssumption
       DEF LockOK, Shares, AtClose, Closes, Opens, IsAt, Goes, Moved
  <2>3. CASE d # c
    <3>1. at'[d] = at[d] /\ kinds' = kinds /\ opener' = opener
      BY <1>1, <1>3, <2>3 DEF Goes, Moved
    <3>2. q = r => ~Closes(d, q)
      BY <1>1, <2>1, VectorReadersAssumption DEF LockOK
    <3> QED
      BY <1>1, <1>7, <2>1, <2>3, <3>1, <3>2 DEF LockOK, Shares, AtClose, Closes, Opens, IsAt
  <2> QED
    BY <2>2, <2>3
<1>11. Sees'
  <2>1. SeesOf(c)'
    BY <1>1, <1>3, <1>4, <1>5
       DEF SeesOf, SeesOK, Shares, AtClose, Closes, Opens, IsAt, Goes, Moved, Calling
  <2> QED
    BY <1>1, <1>3, <2>1, SeesKept DEF Goes
<1>12. Views' /\ Homes'
  BY <1>1, ViewsKept, HomesKept
<1>13. Once'
  BY <1>1, <1>3, OnceKept DEF Goes, AtClose, IsAt
<1>14. WithGates'
  <2>1. GateOf(c)'
    BY <1>3 DEF GateOf, Goes, WithGate
  <2> QED
    BY <1>1, <1>3, <2>1, WithGatesKept DEF Goes
<1>15. Census'
  BY <1>1, <1>3, CensusKept DEF Goes, Holding
<1>16. Empty'
  <2>1. EmptyOf(c)'
    BY <1>3, <1>5 DEF EmptyOf, Goes
  <2> QED
    BY <1>3, <2>1, EmptyKept DEF Goes
<1> QED
  BY <1>8, <1>9, <1>10, <1>11, <1>12, <1>13, <1>14, <1>15, <1>16 DEF ReadersInv

\* A call begins; a plain reader's Close has begun with it.
LEMMA BeginCallKeeps ==
  ASSUME ReadersInv, NEW c \in Searchers, NEW r \in DOMAIN kinds,
         NEW op \in {"search", "save", "close"}, BeginCall(c, r, op)
  PROVE  ReadersInv'
<1> DEFINE pc == IF kinds[r] = "bare" THEN "calls"
                 ELSE IF kinds[r] = "plain" /\ op = "close" THEN "closing" ELSE "locking"
           closing == kinds[r] = "plain" /\ op = "close"
<1>1. /\ at[c].pc = "idle" /\ op \in {"search", IF kinds[r] = "bare" THEN "save" ELSE "close"}
      /\ closing => ~shut[r]
      /\ shut' = [shut EXCEPT ![r] = @ \/ closing]
      /\ UNCHANGED <<kinds, lock, snap, gates, opener, view, addr, owner, table, robbed>>
  BY DEF BeginCall, handles
<1>2. kinds[r] \in ReaderKinds /\ r \in Nat
  BY KindsOf, VectorReadersAssumption DEF ReadersInv, Typed
<1> DEFINE start == [AtRest EXCEPT !.op = op, !.reader = r, !.pc = pc]
<1>3. at' = [at EXCEPT ![c] = start]
  <2>1. pc = CASE kinds[r] = "bare" -> "calls"
                [] kinds[r] = "plain" /\ op = "close" -> "closing"
                [] OTHER -> "locking"
    BY <1>2 DEF ReaderKinds
  <2> DEFINE there == CASE kinds[r] = "bare" -> "calls"
                        [] kinds[r] = "plain" /\ op = "close" -> "closing"
                        [] OTHER -> "locking"
  <2>2. at' = [at EXCEPT ![c] = [AtRest EXCEPT !.op = op, !.reader = r, !.pc = there]]
    BY DEF BeginCall
  <2>3. there = pc
    BY <2>1
  <2> HIDE DEF there, pc
  <2> QED
    BY <2>2, <2>3
<1>4. /\ pc \in {"calls", "closing", "locking"} /\ (pc = "calls" <=> kinds[r] = "bare")
      /\ pc = "closing" <=> closing
  BY <1>2 DEF ReaderKinds
<1> HIDE DEF pc
<1>5. /\ Moved(c) /\ at'[c].pc = pc /\ at'[c].op = op /\ at'[c].reader = r
      /\ at'[c].gate = NoOne /\ at'[c].got = 0
  <2>1. /\ start \in AtType /\ start.pc = pc /\ start.op = op /\ start.reader = r
        /\ start.gate = NoOne /\ start.got = 0
    BY <1>2, <1>4 DEF AtType, Pcs, AtRest
  <2> HIDE DEF start
  <2>2. Gates' = Gates
    BY <1>1 DEF Gates
  <2>3. AtType' = AtType
    BY <2>2 DEF AtType
  <2>4. /\ at' \in [Searchers -> AtType] /\ \A d \in Searchers \ {c} : at'[d] = at[d]
        /\ at'[c] = start
    BY <1>3, <2>1 DEF ReadersInv, Typed
  <2> QED
    BY <1>1, <2>1, <2>2, <2>3, <2>4 DEF Moved
<1>6. shut \in [DOMAIN kinds -> BOOLEAN]
  BY DEF ReadersInv, Typed
<1>7. /\ \A q \in DOMAIN kinds \ {r} : shut'[q] = shut[q]
      /\ shut[r] => shut'[r]
      /\ closing => shut'[r]
      /\ ~closing => (shut'[r] <=> shut[r])
  BY <1>1, <1>6
<1>8. Typed'
  <2>1. shut' \in [DOMAIN kinds -> BOOLEAN]
    <3>1. (shut[r] \/ closing) \in BOOLEAN
      OBVIOUS
    <3> HIDE DEF closing
    <3> QED
      BY <1>1, <1>6, <3>1
  <2> QED
    BY <1>1, <1>5, <2>1 DEF ReadersInv, Typed, Moved
<1>9. Positions'
  <2>1. PositionOf(c)'
    BY <1>1, <1>2, <1>4, <1>5 DEF PositionOf, Calling, ReaderKinds, Moved
  <2> QED
    BY <1>5, <2>1, PositionsKept
<1>10. Locks'
  <2>1. LocksOf(c)
    BY DEF ReadersInv, Locks
  <2>2. LocksOf(c)'
    BY <1>1, <1>4, <1>5, <2>1 DEF LocksOf, LockOK, Shares, AtClose, Closes, Opens, IsAt, Moved
  <2> QED
    BY <1>1, <1>5, <2>2, LocksKept
<1>11. Sees'
  <2> SUFFICES ASSUME NEW d \in Searchers, NEW q \in DOMAIN kinds PROVE SeesOK(q, d)'
    BY <1>1 DEF Sees, SeesOf
  <2>1. SeesOK(q, d) /\ ViewOK(q)
    BY DEF ReadersInv, Sees, SeesOf, Views
  <2>2. CASE d = c
    BY <1>1, <1>4, <1>5, <1>7, <2>1, <2>2
       DEF SeesOK, ViewOK, Shares, AtClose, Closes, Opens, IsAt, Moved, Calling
  <2>3. CASE d # c
    <3>1. at'[d] = at[d] /\ kinds' = kinds
      BY <1>5, <2>3 DEF Moved
    <3>2. (shut[q] => shut'[q]) /\ (kinds[q] = "collection" => (shut'[q] <=> shut[q]))
      BY <1>7
    <3> QED
      BY <1>1, <2>1, <3>1, <3>2 DEF SeesOK, Shares, AtClose, Closes, Opens, IsAt
  <2> QED
    BY <2>2, <2>3
<1>12. Views' /\ Homes'
  <2>1. Views'
    BY <1>1, <1>7 DEF ReadersInv, Views, ViewOK
  <2> QED
    BY <1>1, <2>1, HomesKept
<1>13. Once'
  <2> SUFFICES ASSUME NEW q \in DOMAIN kinds, kinds[q] = "plain", NEW d \in Searchers,
                      NEW e \in Searchers, AtClose(d, q)', AtClose(e, q)', d # e
               PROVE  FALSE
    BY <1>1 DEF Once, ClosedOnce
  <2>1. \A f \in Searchers \ {c} : AtClose(f, q)' => AtClose(f, q)
    BY <1>5 DEF Moved, AtClose, IsAt
  <2>2. CASE d # c /\ e # c
    BY <2>1, <2>2 DEF ReadersInv, Once, ClosedOnce
  <2>3. CASE d = c \/ e = c
    <3>1. AtClose(c, q)' /\ \E f \in Searchers : AtClose(f, q)
      BY <2>1, <2>3
    <3>2. q = r /\ closing
      BY <1>5, <3>1 DEF AtClose, IsAt
    <3>3. shut[q]
      BY <3>1 DEF ReadersInv, Sees, SeesOf, SeesOK
    <3> QED
      BY <1>1, <3>2, <3>3
  <2> QED
    BY <2>2, <2>3
<1>14. WithGates'
  <2>1. GateOf(c)'
    BY <1>4, <1>5 DEF GateOf, WithGate
  <2> QED
    BY <1>1, <1>5, <2>1, WithGatesKept
<1>15. Census'
  BY <1>1, <1>4, <1>5, CensusKept DEF Holding
<1>16. Empty'
  <2>1. EmptyOf(c)'
    BY <1>5 DEF EmptyOf
  <2> QED
    BY <1>5, <2>1, EmptyKept
<1> QED
  BY <1>8, <1>9, <1>10, <1>11, <1>12, <1>13, <1>14, <1>15, <1>16 DEF ReadersInv

\* Close has the lock when the last search has left.
LEMMA LockAloneKeeps == ASSUME ReadersInv, NEW c \in Searchers, LockAlone(c) PROVE ReadersInv'
<1> DEFINE r == at[c].reader
           pc == IF kinds[r] = "collection" /\ shut[r] THEN "unlocking"
                 ELSE IF view[r] = "ready" THEN "calls" ELSE "closing"
<1>1. /\ at[c].pc = "wanting" /\ lock[r].inside = {}
      /\ shut' = [shut EXCEPT ![r] = TRUE]
      /\ UNCHANGED <<kinds, lock, snap, gates, opener, view, addr, owner, table, robbed>>
      /\ Goto(c, pc) /\ pc \in Pcs
  BY DEF LockAlone, handles, Kind, Pcs
<1>2. /\ pc \in {"unlocking", "calls", "closing"}
      /\ pc = "calls" => view[r] = "ready"
      /\ pc = "closing" => view[r] # "ready"
      /\ pc = "unlocking" => kinds[r] = "collection"
  OBVIOUS
<1> HIDE DEF pc
<1>3. Goes(c, pc)
  BY <1>1, Going
<1>4. PositionOf(c) /\ EmptyOf(c)
  BY DEF ReadersInv, Positions, Empty
<1>5. /\ r \in DOMAIN kinds /\ kinds[r] \in ReaderKinds \ {"bare"} /\ at[c].got = 0
      /\ at[c].op = "close"
  <2>1. r \in DOMAIN kinds /\ kinds[r] # "bare" /\ at[c].op \in {"search", "save", "close"}
    <3>1. at[c].op \in {"none", "search", "save", "close"}
      BY DEF ReadersInv, Typed, AtType
    <3> QED
      BY <1>1, <1>4, <3>1 DEF PositionOf, Calling
  <2> QED
    BY <1>1, <1>4, <2>1, KindsOf DEF PositionOf, EmptyOf, Holding
<1>6. shut \in [DOMAIN kinds -> BOOLEAN]
  BY DEF ReadersInv, Typed
<1>7. shut'[r] /\ \A q \in DOMAIN kinds \ {r} : shut'[q] = shut[q]
  BY <1>1, <1>5, <1>6
<1>8. Typed'
  <2>1. shut' \in [DOMAIN kinds -> BOOLEAN]
    BY <1>1, <1>5, <1>6
  <2> QED
    BY <1>1, <1>3, <2>1 DEF ReadersInv, Typed, Goes, Moved
<1>17. SeesOK(r, c) /\ LockOK(r, c)
  BY <1>5 DEF ReadersInv, Sees, SeesOf, Locks, LocksOf
<1>18. pc = "closing" => kinds[r] = "collection"
  BY <1>1, <1>2, <1>5, <1>17 DEF SeesOK, AtClose, IsAt, ReaderKinds
<1>9. Positions'
  <2>1. PositionOf(c)'
    BY <1>1, <1>2, <1>3, <1>4, <1>5 DEF PositionOf, Goes, Moved, ReaderKinds, Calling
  <2> QED
    BY <1>3, <2>1, PositionsKept DEF Goes
<1>10. Locks'
  <2>1. LocksOf(c)
    BY DEF ReadersInv, Locks
  <2>2. LocksOf(c)'
    BY <1>1, <1>2, <1>3, <1>5, <1>18, <2>1
       DEF LocksOf, LockOK, Shares, AtClose, Closes, Opens, IsAt, Goes, Moved
  <2> QED
    BY <1>1, <1>3, <2>2, LocksKept DEF Goes
<1>11. Sees'
  <2> SUFFICES ASSUME NEW d \in Searchers, NEW q \in DOMAIN kinds PROVE SeesOK(q, d)'
    BY <1>1 DEF Sees, SeesOf
  <2>1. SeesOK(q, d) /\ LockOK(q, d)
    BY DEF ReadersInv, Sees, SeesOf, Locks, LocksOf
  <2>2. CASE d = c
    BY <1>1, <1>2, <1>3, <1>5, <1>7, <1>18, <2>1, <2>2
       DEF SeesOK, Shares, AtClose, Closes, Opens, IsAt, Goes, Moved, Calling
  <2>3. CASE d # c
    <3>1. at'[d] = at[d] /\ kinds' = kinds
      BY <1>3, <2>3 DEF Goes, Moved
    <3>2. (shut[q] => shut'[q]) /\ (q # r => (shut'[q] <=> shut[q]))
      BY <1>7
    <3>3. q = r => ~Shares(d, q)
      BY <1>1, <2>1 DEF LockOK
    <3> QED
      BY <1>1, <2>1, <3>1, <3>2, <3>3 DEF SeesOK, Shares, AtClose, Closes, Opens, IsAt
  <2> QED
    BY <2>2, <2>3
<1>12. Views' /\ Homes'
  <2>1. Views'
    BY <1>1, <1>7 DEF ReadersInv, Views, ViewOK
  <2> QED
    BY <1>1, <2>1, HomesKept
<1>13. Once'
  BY <1>1, <1>3, OnceKept DEF Goes, AtClose, IsAt
<1>14. WithGates'
  <2>1. GateOf(c)'
    BY <1>2, <1>3 DEF GateOf, Goes, WithGate
  <2> QED
    BY <1>1, <1>3, <2>1, WithGatesKept DEF Goes
<1>15. Census'
  BY <1>1, <1>2, <1>3, CensusKept DEF Goes, Holding
<1>16. Empty'
  <2>1. EmptyOf(c)'
    BY <1>3, <1>5 DEF EmptyOf, Goes
  <2> QED
    BY <1>3, <2>1, EmptyKept DEF Goes
<1> QED
  BY <1>8, <1>9, <1>10, <1>11, <1>12, <1>13, <1>14, <1>15, <1>16 DEF ReadersInv

\* The text goes after the vectors of a collection, and before those of a plain reader.
LEMMA CloseSnapshotKeeps == ASSUME ReadersInv, NEW c \in Searchers, CloseSnapshot(c) PROVE ReadersInv'
<1> DEFINE r == at[c].reader
           pc == IF kinds[r] = "collection" THEN "unlocking" ELSE "locking"
<1>1. /\ at[c].pc = "closing"
      /\ snap' = [snap EXCEPT ![r] = FALSE]
      /\ UNCHANGED <<kinds, lock, shut, gates, opener, view, addr, owner, table, robbed>>
      /\ Goto(c, pc) /\ pc \in Pcs
  BY DEF CloseSnapshot, handles, Kind, Pcs
<1>2. pc \in {"unlocking", "locking"} /\ (pc = "unlocking" <=> kinds[r] = "collection")
  OBVIOUS
<1> HIDE DEF pc
<1>3. Goes(c, pc)
  BY <1>1, Going
<1>4. PositionOf(c) /\ EmptyOf(c)
  BY DEF ReadersInv, Positions, Empty
<1>5. /\ r \in DOMAIN kinds /\ kinds[r] \in ReaderKinds \ {"bare"}
      /\ at[c].op = "close" /\ (at[c].got # 0 => kinds[r] = "collection")
  <2>1. r \in DOMAIN kinds /\ kinds[r] # "bare" /\ at[c].op \in {"search", "save", "close"}
    <3>1. at[c].op \in {"none", "search", "save", "close"}
      BY DEF ReadersInv, Typed, AtType
    <3> QED
      BY <1>1, <1>4, <3>1 DEF PositionOf, Calling
  <2> QED
    BY <1>1, <1>4, <2>1, KindsOf DEF PositionOf, EmptyOf, Holding
<1>6. snap \in [DOMAIN kinds -> BOOLEAN]
  BY DEF ReadersInv, Typed
<1>7. ~snap'[r] /\ \A q \in DOMAIN kinds \ {r} : snap'[q] = snap[q]
  BY <1>1, <1>5, <1>6
<1>8. Typed'
  <2>1. snap' \in [DOMAIN kinds -> BOOLEAN]
    BY <1>1, <1>5, <1>6
  <2> QED
    BY <1>1, <1>3, <2>1 DEF ReadersInv, Typed, Goes, Moved
<1>17. SeesOK(r, c)
  BY <1>5 DEF ReadersInv, Sees, SeesOf
<1>9. Positions'
  <2>1. PositionOf(c)'
    BY <1>1, <1>2, <1>3, <1>4, <1>5 DEF PositionOf, Goes, Moved, ReaderKinds, Calling
  <2> QED
    BY <1>3, <2>1, PositionsKept DEF Goes
<1>10. Locks'
  <2>1. LocksOf(c)
    BY DEF ReadersInv, Locks
  <2>2. LocksOf(c)'
    BY <1>1, <1>2, <1>3, <1>5, <2>1
       DEF LocksOf, LockOK, Shares, AtClose, Closes, Opens, IsAt, Goes, Moved
  <2> QED
    BY <1>1, <1>3, <2>2, LocksKept DEF Goes
<1>11. Sees'
  <2>1. SeesOf(c)
    BY DEF ReadersInv, Sees
  <2>2. SeesOf(c)'
    BY <1>1, <1>2, <1>3, <1>5, <2>1
       DEF SeesOf, SeesOK, Shares, AtClose, Closes, Opens, IsAt, Goes, Moved, Calling
  <2> QED
    BY <1>1, <1>3, <2>2, SeesKept DEF Goes
<1>12. Views' /\ Homes'
  <2>1. kinds[r] = "collection" => shut[r]
    BY <1>1, <1>5, <1>17 DEF SeesOK, AtClose, Closes, IsAt
  <2>2. Views'
    BY <1>1, <1>7, <2>1 DEF ReadersInv, Views, ViewOK
  <2> QED
    BY <1>1, <2>2, HomesKept
<1>13. Once'
  BY <1>1, <1>3, OnceKept DEF Goes, AtClose, IsAt
<1>14. WithGates'
  <2>1. GateOf(c)'
    BY <1>2, <1>3 DEF GateOf, Goes, WithGate
  <2> QED
    BY <1>1, <1>3, <2>1, WithGatesKept DEF Goes
<1>15. Census'
  BY <1>1, <1>2, <1>3, CensusKept DEF Goes, Holding
<1>16. Empty'
  <2>1. EmptyOf(c)'
    BY <1>2, <1>3, <1>4, <1>5 DEF EmptyOf, Goes
  <2> QED
    BY <1>3, <2>1, EmptyKept DEF Goes
<1> QED
  BY <1>8, <1>9, <1>10, <1>11, <1>12, <1>13, <1>14, <1>15, <1>16 DEF ReadersInv

\* A search leaves, or Close lets the others in.
LEMMA UnlockKeeps == ASSUME ReadersInv, NEW c \in Searchers, Unlock(c) PROVE ReadersInv'
<1> DEFINE r == at[c].reader
<1>1. /\ at[c].pc = "unlocking"
      /\ lock' = IF at[c].op = "search" THEN [lock EXCEPT ![r].inside = @ \ {c}]
                                       ELSE [lock EXCEPT ![r].wanted = NoOne]
      /\ UNCHANGED <<kinds, snap, shut, gates, opener, view, addr, owner, table, robbed>>
      /\ Rest(c)
  BY DEF Unlock, handles
<1>3. Rests(c) /\ at'[c].pc = "idle" /\ at'[c].got = 0
  BY <1>1, Resting DEF Rests, AtRest
<1>4. PositionOf(c)
  BY DEF ReadersInv, Positions
<1>5. /\ r \in DOMAIN kinds /\ kinds[r] # "bare" /\ at[c].op \in {"search", "close"}
  <2>1. at[c].op \in {"none", "search", "save", "close"}
    BY DEF ReadersInv, Typed, AtType
  <2> QED
    BY <1>1, <1>4, <2>1 DEF PositionOf, Calling
<1>6. /\ lock[r] \in [inside : SUBSET Searchers, wanted : Searchers \cup {NoOne}]
      /\ lock \in [DOMAIN kinds -> [inside : SUBSET Searchers, wanted : Searchers \cup {NoOne}]]
  BY <1>5 DEF ReadersInv, Typed
<1>7. /\ \A q \in DOMAIN kinds \ {r} : lock'[q] = lock[q]
      /\ at[c].op = "search" => lock'[r].inside = lock[r].inside \ {c} /\ lock'[r].wanted = lock[r].wanted
      /\ at[c].op # "search" => lock'[r].inside = lock[r].inside /\ lock'[r].wanted = NoOne
  BY <1>1, <1>5, <1>6
<1>8. Typed'
  <2>1. lock' \in [DOMAIN kinds -> [inside : SUBSET Searchers, wanted : Searchers \cup {NoOne}]]
    BY <1>1, <1>5, <1>6
  <2> QED
    BY <1>1, <1>3, <2>1 DEF ReadersInv, Typed, Rests, Moved
<1>9. Positions'
  <2>1. PositionOf(c)'
    BY <1>3 DEF PositionOf
  <2> QED
    BY <1>3, <2>1, PositionsKept DEF Rests
<1>10. Locks'
  <2> SUFFICES ASSUME NEW d \in Searchers, NEW q \in DOMAIN kinds PROVE LockOK(q, d)'
    BY <1>1 DEF Locks, LocksOf
  <2>1. LockOK(q, d) /\ LockOK(q, c)
    BY DEF ReadersInv, Locks, LocksOf
  <2>2. CASE d = c
    BY <1>1, <1>3, <1>5, <1>7, <2>1, <2>2, VectorReadersAssumption
       DEF LockOK, Shares, AtClose, Closes, Opens, IsAt, Rests, Moved
  <2>3. CASE d # c
    <3>1. at'[d] = at[d] /\ kinds' = kinds /\ opener' = opener
      BY <1>1, <1>3, <2>3 DEF Rests, Moved
    <3>2. q = r /\ at[c].op # "search" => ~Closes(d, q) /\ lock[q].wanted = c
      BY <1>1, <1>5, <2>1, <2>3 DEF LockOK, Closes, AtClose, IsAt
    <3> QED
      BY <1>1, <1>7, <2>1, <2>3, <3>1, <3>2, VectorReadersAssumption
         DEF LockOK, Shares, AtClose, Closes, Opens, IsAt
  <2> QED
    BY <2>2, <2>3
<1>11. Sees'
  <2>1. SeesOf(c)'
    BY <1>3 DEF SeesOf, SeesOK, Shares, AtClose, Closes, Opens, IsAt
  <2> QED
    BY <1>1, <1>3, <2>1, SeesKept DEF Rests
<1>12. Views' /\ Homes'
  BY <1>1, ViewsKept, HomesKept
<1>13. Once'
  BY <1>1, <1>3, OnceKept DEF Rests, AtClose, IsAt
<1>14. WithGates'
  <2>1. GateOf(c)'
    BY <1>3 DEF GateOf, WithGate
  <2> QED
    BY <1>1, <1>3, <2>1, WithGatesKept DEF Rests
<1>15. Census'
  BY <1>1, <1>3, CensusKept DEF Rests, Holding
<1>16. Empty'
  <2>1. EmptyOf(c)'
    BY <1>3 DEF EmptyOf
  <2> QED
    BY <1>3, <2>1, EmptyKept DEF Rests
<1> QED
  BY <1>8, <1>9, <1>10, <1>11, <1>12, <1>13, <1>14, <1>15, <1>16 DEF ReadersInv

-----------------------------------------------------------------------------
(* The view of a collection's reader *)

\* Who opens the view, or finds it, is a search at a collection with the reader's lock.
LEMMA AtView ==
  ASSUME ReadersInv, NEW c \in Searchers, at[c].pc \in {"cached", "opening", "storing", "reading"}
  PROVE  /\ at[c].reader \in DOMAIN kinds /\ at[c].op = "search" /\ at[c].got = 0
         /\ kinds[at[c].reader] # "bare"
         /\ at[c].pc # "reading" => kinds[at[c].reader] = "collection"
         /\ LocksOf(c) /\ SeesOf(c) /\ PositionOf(c)
         /\ SeesOK(at[c].reader, c) /\ LockOK(at[c].reader, c)
<1>1. PositionOf(c) /\ EmptyOf(c) /\ SeesOf(c) /\ LocksOf(c)
  BY DEF ReadersInv, Positions, Empty, Sees, Locks
<1>2. at[c].op \in {"none", "search", "save", "close"}
  BY DEF ReadersInv, Typed, AtType
<1>3. /\ at[c].reader \in DOMAIN kinds /\ at[c].op = "search" /\ at[c].got = 0
      /\ kinds[at[c].reader] # "bare"
      /\ at[c].pc # "reading" => kinds[at[c].reader] = "collection"
  BY <1>1, <1>2 DEF PositionOf, EmptyOf, Calling, Holding
<1> QED
  BY <1>1, <1>3 DEF SeesOf, LocksOf

\* A search finds the view, or is the one that opens it.
LEMMA VectorReaderKeeps == ASSUME ReadersInv, NEW c \in Searchers, VectorReader(c) PROVE ReadersInv'
<1> DEFINE r == at[c].reader
           pc == IF view[r] = "ready" THEN "reading" ELSE "opening"
<1>1. /\ at[c].pc = "cached" /\ opener[r] = NoOne
      /\ opener' = IF view[r] = "ready" THEN opener ELSE [opener EXCEPT ![r] = c]
      /\ UNCHANGED <<kinds, lock, shut, snap, gates, view, addr, owner, table, robbed>>
      /\ Goto(c, pc) /\ pc \in Pcs
  BY DEF VectorReader, locks, Pcs
<1>2. pc \in {"reading", "opening"} /\ (pc = "reading" <=> view[r] = "ready")
  OBVIOUS
<1>19. opener' = IF pc = "reading" THEN opener ELSE [opener EXCEPT ![r] = c]
  BY <1>1, <1>2
<1> HIDE DEF pc
<1>3. Goes(c, pc)
  BY <1>1, Going
<1>5. /\ r \in DOMAIN kinds /\ at[c].op = "search" /\ at[c].got = 0 /\ kinds[r] = "collection"
      /\ PositionOf(c) /\ LocksOf(c) /\ SeesOf(c) /\ SeesOK(r, c)
  BY <1>1, AtView
<1>6. opener \in [DOMAIN kinds -> Searchers \cup {NoOne}]
  BY DEF ReadersInv, Typed
<1>7. /\ \A q \in DOMAIN kinds \ {r} : opener'[q] = opener[q]
      /\ pc = "reading" => opener'[r] = NoOne
      /\ pc = "opening" => opener'[r] = c
  BY <1>1, <1>2, <1>5, <1>6, <1>19
<1>8. Typed'
  <2>1. opener' \in [DOMAIN kinds -> Searchers \cup {NoOne}]
    BY <1>5, <1>6, <1>19
  <2> QED
    BY <1>1, <1>3, <2>1 DEF ReadersInv, Typed, Goes, Moved
<1>9. Positions'
  <2>1. PositionOf(c)'
    BY <1>1, <1>2, <1>3, <1>5 DEF PositionOf, Goes, Moved, Calling
  <2> QED
    BY <1>3, <2>1, PositionsKept DEF Goes
<1>10. Locks'
  <2> SUFFICES ASSUME NEW d \in Searchers, NEW q \in DOMAIN kinds PROVE LockOK(q, d)'
    BY <1>1 DEF Locks, LocksOf
  <2>1. LockOK(q, d)
    BY DEF ReadersInv, Locks, LocksOf
  <2>2. CASE d = c
    BY <1>1, <1>2, <1>3, <1>5, <1>7, <2>1, <2>2, VectorReadersAssumption
       DEF LockOK, Shares, AtClose, Closes, Opens, IsAt, Goes, Moved
  <2>3. CASE d # c
    <3>1. at'[d] = at[d] /\ kinds' = kinds /\ lock' = lock
      BY <1>1, <1>3, <2>3 DEF Goes, Moved
    <3>2. opener'[q] = d <=> opener[q] = d
      BY <1>1, <1>2, <1>7, <2>3, VectorReadersAssumption
    <3> QED
      BY <2>1, <3>1, <3>2 DEF LockOK, Shares, AtClose, Closes, Opens, IsAt
  <2> QED
    BY <2>2, <2>3
<1>11. Sees'
  <2>2. view[r] \in {"none", "ready", "closed"}
    BY <1>5 DEF ReadersInv, Typed
  <2>3. SeesOf(c)'
    BY <1>1, <1>2, <1>3, <1>5, <2>2
       DEF SeesOf, SeesOK, Shares, AtClose, Closes, Opens, IsAt, Goes, Moved, Calling
  <2> QED
    BY <1>1, <1>3, <2>3, SeesKept DEF Goes
<1>12. Views' /\ Homes'
  BY <1>1, ViewsKept, HomesKept
<1>13. Once'
  BY <1>1, <1>3, OnceKept DEF Goes, AtClose, IsAt
<1>14. WithGates'
  <2>1. GateOf(c)'
    BY <1>2, <1>3 DEF GateOf, Goes, WithGate
  <2> QED
    BY <1>1, <1>3, <2>1, WithGatesKept DEF Goes
<1>15. Census'
  BY <1>1, <1>2, <1>3, CensusKept DEF Goes, Holding
<1>16. Empty'
  <2>1. EmptyOf(c)'
    BY <1>3, <1>5 DEF EmptyOf, Goes
  <2> QED
    BY <1>3, <2>1, EmptyKept DEF Goes
<1> QED
  BY <1>8, <1>9, <1>10, <1>11, <1>12, <1>13, <1>14, <1>15, <1>16 DEF ReadersInv

\* Nothing is cached when the view cannot be opened.
LEMMA OpenFailsKeeps == ASSUME ReadersInv, NEW c \in Searchers, OpenFails(c) PROVE ReadersInv'
<1> DEFINE r == at[c].reader
<1>1. /\ at[c].pc = "opening"
      /\ opener' = [opener EXCEPT ![r] = NoOne]
      /\ UNCHANGED <<kinds, lock, shut, snap, gates, view, addr, owner, table, robbed>>
      /\ Goto(c, "unlocking") /\ "unlocking" \in Pcs
  BY DEF OpenFails, locks, Pcs
<1>3. Goes(c, "unlocking")
  BY <1>1, Going
<1>5. /\ r \in DOMAIN kinds /\ at[c].op = "search" /\ at[c].got = 0 /\ kinds[r] = "collection"
      /\ PositionOf(c) /\ LocksOf(c) /\ SeesOf(c) /\ LockOK(r, c)
  BY <1>1, AtView
<1>6. opener \in [DOMAIN kinds -> Searchers \cup {NoOne}] /\ opener[r] = c
  BY <1>1, <1>5 DEF ReadersInv, Typed, LockOK, Opens, IsAt
<1>7. opener'[r] = NoOne /\ \A q \in DOMAIN kinds \ {r} : opener'[q] = opener[q]
  BY <1>1, <1>5, <1>6
<1>8. Typed'
  <2>1. opener' \in [DOMAIN kinds -> Searchers \cup {NoOne}]
    BY <1>1, <1>5, <1>6
  <2> QED
    BY <1>1, <1>3, <2>1 DEF ReadersInv, Typed, Goes, Moved
<1>9. Positions'
  <2>1. PositionOf(c)'
    BY <1>1, <1>3, <1>5 DEF PositionOf, Goes, Moved, Calling
  <2> QED
    BY <1>3, <2>1, PositionsKept DEF Goes
<1>10. Locks'
  <2> SUFFICES ASSUME NEW d \in Searchers, NEW q \in DOMAIN kinds PROVE LockOK(q, d)'
    BY <1>1 DEF Locks, LocksOf
  <2>1. LockOK(q, d)
    BY DEF ReadersInv, Locks, LocksOf
  <2>2. CASE d = c
    BY <1>1, <1>3, <1>5, <1>7, <2>1, <2>2, VectorReadersAssumption
       DEF LockOK, Shares, AtClose, Closes, Opens, IsAt, Goes, Moved
  <2>3. CASE d # c
    <3>1. at'[d] = at[d] /\ kinds' = kinds /\ lock' = lock
      BY <1>1, <1>3, <2>3 DEF Goes, Moved
    <3>2. opener'[q] = d <=> opener[q] = d
      BY <1>6, <1>7, <2>3, VectorReadersAssumption
    <3> QED
      BY <2>1, <3>1, <3>2 DEF LockOK, Shares, AtClose, Closes, Opens, IsAt
  <2> QED
    BY <2>2, <2>3
<1>11. Sees'
  <2>1. SeesOf(c)'
    BY <1>1, <1>3, <1>5
       DEF SeesOf, SeesOK, Shares, AtClose, Closes, Opens, IsAt, Goes, Moved, Calling
  <2> QED
    BY <1>1, <1>3, <2>1, SeesKept DEF Goes
<1>12. Views' /\ Homes'
  BY <1>1, ViewsKept, HomesKept
<1>13. Once'
  BY <1>1, <1>3, OnceKept DEF Goes, AtClose, IsAt
<1>14. WithGates'
  <2>1. GateOf(c)'
    BY <1>3 DEF GateOf, Goes, WithGate
  <2> QED
    BY <1>1, <1>3, <2>1, WithGatesKept DEF Goes
<1>15. Census'
  BY <1>1, <1>3, CensusKept DEF Goes, Holding
<1>16. Empty'
  <2>1. EmptyOf(c)'
    BY <1>3, <1>5 DEF EmptyOf, Goes
  <2> QED
    BY <1>3, <2>1, EmptyKept DEF Goes
<1> QED
  BY <1>8, <1>9, <1>10, <1>11, <1>12, <1>13, <1>14, <1>15, <1>16 DEF ReadersInv

\* The native library gives an address that nobody has.
LEMMA OpenNativeKeeps ==
  ASSUME ReadersInv, NEW c \in Searchers, NEW a \in Addresses, OpenNative(c, a)
  PROVE  ReadersInv'
<1> DEFINE r == at[c].reader
<1>1. /\ at[c].pc = "opening" /\ owner[a] = 0
      /\ owner' = [owner EXCEPT ![a] = r] /\ addr' = [addr EXCEPT ![r] = a]
      /\ UNCHANGED <<kinds, lock, shut, snap, gates, opener, view, table, robbed>>
      /\ Goto(c, "storing") /\ "storing" \in Pcs
  BY DEF OpenNative, locks, Pcs
<1>3. Goes(c, "storing")
  BY <1>1, Going
<1>5. /\ r \in DOMAIN kinds /\ at[c].op = "search" /\ at[c].got = 0 /\ kinds[r] = "collection"
      /\ PositionOf(c) /\ LocksOf(c) /\ SeesOf(c) /\ LockOK(r, c) /\ SeesOK(r, c)
  BY <1>1, AtView
<1>6. /\ owner \in [Addresses -> DOMAIN kinds \cup {0}] /\ addr \in [DOMAIN kinds -> Addresses \cup {0}]
      /\ a # 0 /\ \A q \in DOMAIN kinds : q # 0
  BY VectorReadersAssumption DEF ReadersInv, Typed, Addresses
<1>7. /\ addr'[r] = a /\ \A q \in DOMAIN kinds \ {r} : addr'[q] = addr[q]
      /\ owner'[a] = r /\ \A b \in Addresses \ {a} : owner'[b] = owner[b]
  BY <1>1, <1>5, <1>6
<1>8. Typed'
  <2>1. owner' \in [Addresses -> DOMAIN kinds \cup {0}] /\ addr' \in [DOMAIN kinds -> Addresses \cup {0}]
    BY <1>1, <1>5, <1>6
  <2> QED
    BY <1>1, <1>3, <2>1 DEF ReadersInv, Typed, Goes, Moved, Addresses
<1>17. opener[r] = c /\ view[r] = "none"
  BY <1>1, <1>5 DEF LockOK, SeesOK, Opens, IsAt
<1>9. Positions'
  <2>1. PositionOf(c)'
    BY <1>1, <1>3, <1>5 DEF PositionOf, Goes, Moved, Calling
  <2> QED
    BY <1>3, <2>1, PositionsKept DEF Goes
<1>10. Locks'
  <2>1. LocksOf(c)'
    BY <1>1, <1>3, <1>5 DEF LocksOf, LockOK, Shares, AtClose, Closes, Opens, IsAt, Goes, Moved
  <2> QED
    BY <1>1, <1>3, <2>1, LocksKept DEF Goes
<1>18. ASSUME NEW q \in DOMAIN kinds, q # r, addr[q] # 0, owner[addr[q]] = q
       PROVE  addr'[q] = addr[q] /\ owner'[addr[q]] = q
  <2>1. addr[q] \in Addresses /\ addr[q] # a
    BY <1>1, <1>6, <1>18
  <2> QED
    BY <1>7, <1>18, <2>1
<1>11. Sees'
  <2> SUFFICES ASSUME NEW d \in Searchers, NEW q \in DOMAIN kinds PROVE SeesOK(q, d)'
    BY <1>1 DEF Sees, SeesOf
  <2>1. SeesOK(q, d) /\ LockOK(q, d)
    BY DEF ReadersInv, Sees, SeesOf, Locks, LocksOf
  <2>2. CASE d = c
    BY <1>1, <1>3, <1>5, <1>6, <1>7, <1>17, <2>1, <2>2
       DEF SeesOK, Shares, AtClose, Closes, Opens, IsAt, Goes, Moved, Calling
  <2>3. CASE d # c
    <3>1. at'[d] = at[d] /\ kinds' = kinds
      BY <1>3, <2>3 DEF Goes, Moved
    <3>2. CASE q # r
      BY <1>1, <1>7, <1>18, <2>1, <3>1, <3>2 DEF SeesOK, Shares, AtClose, Closes, Opens, IsAt
    <3>3. CASE q = r
      <4>1. ~Opens(d, q)
        BY <1>17, <2>1, <2>3, <3>3 DEF LockOK
      <4> QED
        BY <1>1, <1>17, <2>1, <3>1, <3>3, <4>1 DEF SeesOK, Shares, AtClose, Closes, Opens, IsAt
    <3> QED
      BY <3>2, <3>3
  <2> QED
    BY <2>2, <2>3
<1>12. Views' /\ Homes'
  <2>1. ASSUME NEW q \in DOMAIN kinds PROVE HomeOK(q)'
    <3>1. HomeOK(q)
      BY DEF ReadersInv, Homes
    <3> QED
      BY <1>1, <1>17, <1>18, <3>1 DEF HomeOK
  <2> QED
    BY <1>1, <2>1, ViewsKept DEF Homes
<1>13. Once'
  BY <1>1, <1>3, OnceKept DEF Goes, AtClose, IsAt
<1>14. WithGates'
  <2>1. GateOf(c)'
    BY <1>3 DEF GateOf, Goes, WithGate
  <2> QED
    BY <1>1, <1>3, <2>1, WithGatesKept DEF Goes
<1>15. Census'
  BY <1>1, <1>3, CensusKept DEF Goes, Holding
<1>16. Empty'
  <2>1. EmptyOf(c)'
    BY <1>3, <1>5 DEF EmptyOf, Goes
  <2> QED
    BY <1>3, <2>1, EmptyKept DEF Goes
<1> QED
  BY <1>8, <1>9, <1>10, <1>11, <1>12, <1>13, <1>14, <1>15, <1>16 DEF ReadersInv

\* The handle gets a gate, and the view is there for all searches.
LEMMA StoreGateKeeps == ASSUME ReadersInv, NEW c \in Searchers, StoreGate(c) PROVE ReadersInv'
<1> DEFINE r == at[c].reader
<1>1. /\ at[c].pc = "storing"
      /\ table' = [table EXCEPT ![addr[r]] = <<r, "own">>]
      /\ view' = [view EXCEPT ![r] = "ready"] /\ opener' = [opener EXCEPT ![r] = NoOne]
      /\ UNCHANGED <<kinds, lock, shut, snap, gates, addr, owner, robbed>>
      /\ Goto(c, "reading") /\ "reading" \in Pcs
  BY DEF StoreGate, locks, Pcs
<1>3. Goes(c, "reading")
  BY <1>1, Going
<1>5. /\ r \in DOMAIN kinds /\ at[c].op = "search" /\ at[c].got = 0 /\ kinds[r] = "collection"
      /\ PositionOf(c) /\ LocksOf(c) /\ SeesOf(c) /\ LockOK(r, c) /\ SeesOK(r, c)
  BY <1>1, AtView
<1>6. /\ table \in [Addresses -> Gates \cup {NoOne}] /\ addr \in [DOMAIN kinds -> Addresses \cup {0}]
      /\ view \in [DOMAIN kinds -> {"none", "ready", "closed"}]
      /\ opener \in [DOMAIN kinds -> Searchers \cup {NoOne}]
  BY DEF ReadersInv, Typed
<1>17. /\ opener[r] = c /\ view[r] = "none" /\ addr[r] # 0 /\ owner[addr[r]] = r /\ addr[r] \in Addresses
  BY <1>1, <1>5, <1>6 DEF LockOK, SeesOK, Opens, IsAt
<1>7. /\ table'[addr[r]] = <<r, "own">> /\ \A b \in Addresses \ {addr[r]} : table'[b] = table[b]
      /\ view'[r] = "ready" /\ \A q \in DOMAIN kinds \ {r} : view'[q] = view[q]
      /\ opener'[r] = NoOne /\ \A q \in DOMAIN kinds \ {r} : opener'[q] = opener[q]
  BY <1>1, <1>5, <1>6, <1>17
<1>8. Typed'
  <2>1. <<r, "own">> \in Gates
    BY <1>5 DEF Gates
  <2>2. /\ table' \in [Addresses -> Gates \cup {NoOne}]
        /\ view' \in [DOMAIN kinds -> {"none", "ready", "closed"}]
        /\ opener' \in [DOMAIN kinds -> Searchers \cup {NoOne}]
    BY <1>1, <1>5, <1>6, <1>17, <2>1
  <2> QED
    BY <1>1, <1>3, <2>2 DEF ReadersInv, Typed, Goes, Moved, Addresses
<1>9. Positions'
  <2>1. PositionOf(c)'
    BY <1>1, <1>3, <1>5 DEF PositionOf, Goes, Moved, Calling
  <2> QED
    BY <1>3, <2>1, PositionsKept DEF Goes
<1>10. Locks'
  <2> SUFFICES ASSUME NEW d \in Searchers, NEW q \in DOMAIN kinds PROVE LockOK(q, d)'
    BY <1>1 DEF Locks, LocksOf
  <2>1. LockOK(q, d)
    BY DEF ReadersInv, Locks, LocksOf
  <2>2. CASE d = c
    BY <1>1, <1>3, <1>5, <1>7, <2>1, <2>2, VectorReadersAssumption
       DEF LockOK, Shares, AtClose, Closes, Opens, IsAt, Goes, Moved
  <2>3. CASE d # c
    <3>1. at'[d] = at[d] /\ kinds' = kinds /\ lock' = lock
      BY <1>1, <1>3, <2>3 DEF Goes, Moved
    <3>2. opener'[q] = d <=> opener[q] = d
      BY <1>7, <1>17, <2>3, VectorReadersAssumption
    <3> QED
      BY <2>1, <3>1, <3>2 DEF LockOK, Shares, AtClose, Closes, Opens, IsAt
  <2> QED
    BY <2>2, <2>3
<1>11. Sees'
  <2> SUFFICES ASSUME NEW d \in Searchers, NEW q \in DOMAIN kinds PROVE SeesOK(q, d)'
    BY <1>1 DEF Sees, SeesOf
  <2>1. SeesOK(q, d) /\ LockOK(q, d)
    BY DEF ReadersInv, Sees, SeesOf, Locks, LocksOf
  <2>2. CASE d = c
    BY <1>1, <1>3, <1>5, <1>6, <1>7, <1>17, <2>1, <2>2
       DEF SeesOK, Shares, AtClose, Closes, Opens, IsAt, Goes, Moved, Calling
  <2>3. CASE d # c
    <3>1. at'[d] = at[d] /\ kinds' = kinds
      BY <1>3, <2>3 DEF Goes, Moved
    <3>2. CASE q # r
      BY <1>1, <1>7, <2>1, <3>1, <3>2 DEF SeesOK, Shares, AtClose, Closes, Opens, IsAt
    <3>3. CASE q = r
      <4>1. ~Opens(d, q)
        BY <1>17, <2>1, <2>3, <3>3 DEF LockOK
      <4> QED
        BY <1>1, <1>5, <1>7, <1>17, <2>1, <3>1, <3>3, <4>1 DEF SeesOK, Shares, AtClose, Closes, Opens, IsAt
    <3> QED
      BY <3>2, <3>3
  <2> QED
    BY <2>2, <2>3
<1>12. Views' /\ Homes'
  <2>1. ASSUME NEW q \in DOMAIN kinds PROVE HomeOK(q)'
    <3>1. HomeOK(q)
      BY DEF ReadersInv, Homes
    <3>2. CASE q = r
      BY <1>1, <1>7, <1>17, <3>2 DEF HomeOK
    <3>3. CASE q # r
      <4> SUFFICES ASSUME view[q] = "ready" PROVE HomeOK(q)'
        BY <1>7, <3>3 DEF HomeOK
      <4>1. addr[q] # 0 /\ owner[addr[q]] = q /\ addr[q] \in Addresses
        BY <1>6, <3>1 DEF HomeOK
      <4>2. addr[q] # addr[r]
        BY <1>17, <3>3, <4>1
      <4> QED
        BY <1>1, <1>7, <3>1, <3>3, <4>1, <4>2 DEF HomeOK
    <3> QED
      BY <3>2, <3>3
  <2>2. Views'
    BY <1>1, <1>5, <1>7 DEF ReadersInv, Views, ViewOK
  <2> QED
    BY <1>1, <2>1, <2>2 DEF Homes
<1>13. Once'
  BY <1>1, <1>3, OnceKept DEF Goes, AtClose, IsAt
<1>14. WithGates'
  <2>1. GateOf(c)'
    BY <1>3 DEF GateOf, Goes, WithGate
  <2> QED
    BY <1>1, <1>3, <2>1, WithGatesKept DEF Goes
<1>15. Census'
  BY <1>1, <1>3, CensusKept DEF Goes, Holding
<1>16. Empty'
  <2>1. EmptyOf(c)'
    BY <1>3, <1>5 DEF EmptyOf, Goes
  <2> QED
    BY <1>3, <2>1, EmptyKept DEF Goes
<1> QED
  BY <1>8, <1>9, <1>10, <1>11, <1>12, <1>13, <1>14, <1>15, <1>16 DEF ReadersInv

-----------------------------------------------------------------------------
(* The gate of a handle *)

\* Who makes a call, or is done with a handle, and what it can rely on.
LEMMA AtCall ==
  ASSUME ReadersInv, NEW c \in Searchers,
         at[c].pc \in Calling \cup {"deleting", "releasing"}
  PROVE  /\ at[c].reader \in DOMAIN kinds /\ kinds[at[c].reader] \in ReaderKinds
         /\ at[c].op \in {"search", "save", "close"} /\ at[c].got \in Nat
         /\ PositionOf(c) /\ LocksOf(c) /\ SeesOf(c) /\ GateOf(c) /\ EmptyOf(c)
         /\ LockOK(at[c].reader, c) /\ SeesOK(at[c].reader, c) /\ HomeOK(at[c].reader)
<1>1. PositionOf(c) /\ LocksOf(c) /\ SeesOf(c) /\ GateOf(c) /\ EmptyOf(c)
  BY DEF ReadersInv, Positions, Locks, Sees, WithGates, Empty
<1>2. at[c].op \in {"none", "search", "save", "close"} /\ at[c].got \in Nat
  BY DEF ReadersInv, Typed, AtType
<1>3. at[c].reader \in DOMAIN kinds /\ at[c].op # "none"
  BY <1>1 DEF PositionOf, Calling
<1>4. HomeOK(at[c].reader)
  BY <1>3 DEF ReadersInv, Homes
<1> QED
  BY <1>1, <1>2, <1>3, <1>4, KindsOf DEF SeesOf, LocksOf

\* The gate of somebody who has one.
LEMMA AtGate ==
  ASSUME ReadersInv, NEW c \in Searchers, at[c].pc \in WithGate
  PROVE  /\ at[c].gate \in Gates /\ Cap(at[c].gate) \in Nat \ {0}
         /\ gates \in [Gates -> [taken : Int, exclusive : Searchers \cup {NoOne}]]
         /\ CountOf(at[c].gate)
<1>1. at[c].gate \in Gates
  BY DEF ReadersInv, WithGates, GateOf
<1>2. \A g \in Gates : Cap(g) \in Nat \ {0}
  BY VectorReadersAssumption DEF Cap
<1> QED
  BY <1>1, <1>2 DEF ReadersInv, Typed, Census

\* A step that changes nothing but gates and where one goroutine is.
LEMMA GateStep ==
  ASSUME ReadersInv, NEW c \in Searchers, Moved(c),
         UNCHANGED <<lock, opener, view, shut, snap, addr, owner, table, robbed>>,
         gates' \in [Gates -> [taken : Int, exclusive : Searchers \cup {NoOne}]],
         \A r \in DOMAIN kinds : AtClose(c, r)' => AtClose(c, r),
         PositionOf(c)', LocksOf(c)', SeesOf(c)', GateOf(c)', EmptyOf(c)', Census'
  PROVE  ReadersInv'
<1>1. Typed'
  BY DEF ReadersInv, Typed, Moved
<1>2. Positions' /\ Locks'
  BY PositionsKept, LocksKept
<1>3. Sees' /\ Once'
  BY SeesKept, OnceKept
<1>4. Views' /\ Homes'
  BY ViewsKept, HomesKept DEF Moved
<1>5. WithGates' /\ Empty'
  BY WithGatesKept, EmptyKept
<1> QED
  BY <1>1, <1>2, <1>3, <1>4, <1>5 DEF ReadersInv

\* A gate that one has nothing to do with counts as before.
LEMMA OtherGate ==
  ASSUME ReadersInv, NEW c \in Searchers, Moved(c), NEW h \in Gates, gates'[h] = gates[h],
         at[c].gate # h, at'[c].gate # h
  PROVE  CountOf(h)'
<1>1. \A d \in Searchers \ {c} : at'[d] = at[d]
  BY DEF Moved
<1>2. Permitted(h)' = Permitted(h) /\ Excluding(h)' = Excluding(h)
  BY <1>1 DEF Permitted, Excluding
<1>3. \A d \in Excluding(h) : at'[d] = at[d]
  BY <1>1 DEF Excluding
<1>4. gates[h].exclusive # NoOne => gates[h].exclusive \in Excluding(h)
  BY DEF ReadersInv, Census, CountOf, Typed
<1>5. CountOf(h)
  BY DEF ReadersInv, Census
<1> QED
  BY <1>1, <1>2, <1>3, <1>4, <1>5 DEF CountOf, Cap

\* A search reads the text, before or after its native call.
LEMMA ReadTextKeeps == ASSUME ReadersInv, NEW c \in Searchers, ReadText(c) PROVE ReadersInv'
<1> DEFINE r == at[c].reader
           pc == IF kinds[r] = "collection" THEN "calls" ELSE "unlocking"
<1>1. /\ at[c].pc = "reading"
      /\ UNCHANGED <<kinds, lock, shut, snap, gates, opener, view, addr, owner, table, robbed>>
      /\ Goto(c, pc) /\ pc \in Pcs
  BY DEF ReadText, locks, handles, Kind, Pcs
<1>2. pc \in {"calls", "unlocking"} /\ (pc = "calls" <=> kinds[r] = "collection")
  OBVIOUS
<1> HIDE DEF pc
<1>3. Goes(c, pc)
  BY <1>1, Going
<1>5. /\ r \in DOMAIN kinds /\ at[c].op = "search" /\ at[c].got = 0 /\ kinds[r] # "bare"
      /\ PositionOf(c) /\ LocksOf(c) /\ SeesOf(c)
  BY <1>1, AtView
<1>6. PositionOf(c)' /\ GateOf(c)' /\ EmptyOf(c)'
  BY <1>1, <1>2, <1>3, <1>5
     DEF PositionOf, GateOf, EmptyOf, Goes, Moved, Calling, WithGate
<1>7. LocksOf(c)'
  BY <1>1, <1>2, <1>3, <1>5 DEF LocksOf, LockOK, Shares, AtClose, Closes, Opens, IsAt, Goes, Moved
<1>8. SeesOf(c)'
  BY <1>1, <1>2, <1>3, <1>5
     DEF SeesOf, SeesOK, Shares, AtClose, Closes, Opens, IsAt, Goes, Moved, Calling
<1>9. Census'
  BY <1>1, <1>2, <1>3, CensusKept DEF Goes, Holding
<1>10. \A q \in DOMAIN kinds : AtClose(c, q)' => AtClose(c, q)
  BY <1>1, <1>3 DEF Goes, AtClose, IsAt
<1>11. gates' \in [Gates -> [taken : Int, exclusive : Searchers \cup {NoOne}]]
  BY <1>1 DEF ReadersInv, Typed
<1> QED
  BY <1>1, <1>3, <1>6, <1>7, <1>8, <1>9, <1>10, <1>11, GateStep DEF Goes

\* A permit is taken for a search.
LEMMA AcquireKeeps == ASSUME ReadersInv, NEW c \in Searchers, Acquire(c) PROVE ReadersInv'
<1> DEFINE r == at[c].reader
<1>4. at[c].pc \in Calling /\ at[c].pc \in WithGate
  BY DEF Acquire, Calling, WithGate
<1>2. PICK g \in Gates : g = at[c].gate
  BY <1>4, AtGate
<1>1. /\ at[c].pc = "acquiring" /\ gates[g].taken < Cap(g)
      /\ gates' = [gates EXCEPT ![g].taken = @ + 1]
      /\ UNCHANGED <<kinds, lock, shut, snap, opener, view, addr, owner, table, robbed>>
      /\ Goto(c, "inside") /\ "inside" \in Pcs
  BY <1>2 DEF Acquire, locks, handles, Pcs
<1>3. Goes(c, "inside")
  BY <1>1, Going
<1>5. /\ r \in DOMAIN kinds /\ kinds[r] \in ReaderKinds /\ at[c].op = "search"
      /\ PositionOf(c) /\ LocksOf(c) /\ SeesOf(c) /\ GateOf(c) /\ EmptyOf(c)
  BY <1>1, <1>4, AtCall DEF PositionOf
<1>6. PositionOf(c)' /\ GateOf(c)' /\ EmptyOf(c)'
  BY <1>1, <1>3, <1>5
     DEF PositionOf, GateOf, EmptyOf, Goes, Moved, Calling, WithGate
<1>7. LocksOf(c)'
  BY <1>1, <1>3, <1>5 DEF LocksOf, LockOK, Shares, AtClose, Closes, Opens, IsAt, Goes, Moved
<1>8. SeesOf(c)'
  BY <1>1, <1>3, <1>5
     DEF SeesOf, SeesOK, Shares, AtClose, Closes, Opens, IsAt, Goes, Moved, Calling
<1>10. \A q \in DOMAIN kinds : AtClose(c, q)' => AtClose(c, q)
  BY <1>1, <1>3 DEF Goes, AtClose, IsAt
<1>11. /\ g \in Gates /\ Cap(g) \in Nat /\ CountOf(g)
       /\ gates \in [Gates -> [taken : Int, exclusive : Searchers \cup {NoOne}]]
  BY <1>2, <1>4, AtGate
<1>12. /\ gates' \in [Gates -> [taken : Int, exclusive : Searchers \cup {NoOne}]]
       /\ gates'[g].taken = gates[g].taken + 1 /\ gates'[g].exclusive = gates[g].exclusive
       /\ \A h \in Gates \ {g} : gates'[h] = gates[h]
  BY <1>1, <1>11
<1>9. Census'
  <2> SUFFICES ASSUME NEW h \in Gates PROVE CountOf(h)'
    BY <1>3 DEF Census, Goes, Moved
  <2>1. CASE h # g
    BY <1>2, <1>3, <1>12, <2>1, OtherGate DEF Goes
  <2>2. CASE h = g
    <3>1. \A d \in Searchers \ {c} : at'[d] = at[d]
      BY <1>3 DEF Goes, Moved
    <3>2. Permitted(g)' = Permitted(g) \cup {c} /\ c \notin Permitted(g)
      BY <1>1, <1>2, <1>3, <1>5, <3>1 DEF Permitted, Goes
    <3>3. Excluding(g)' = Excluding(g) /\ c \notin Excluding(g)
      BY <1>3, <1>5, <3>1 DEF Excluding, Goes
    <3>4. /\ IsFiniteSet(Permitted(g)') /\ Cardinality(Permitted(g)) \in Nat
          /\ Cardinality(Permitted(g)') = Cardinality(Permitted(g)) + 1
      BY <1>11, <3>2, FS_AddElement, FS_CardinalityType DEF CountOf
    <3>5. gates[g].exclusive # NoOne => gates[g].exclusive \in Excluding(g)
      BY <1>11 DEF CountOf
    <3>6. \A d \in Excluding(g) : d \in Searchers /\ at'[d] = at[d] /\ at[d].got \in Nat
      BY <3>1, <3>3 DEF Excluding, ReadersInv, Typed, AtType
    <3>7. gates[g].taken \in Int
      BY <1>11
    <3>8. gates'[g].taken <= Cap(g)
      BY <1>1, <1>11, <1>12, <3>7
    <3>9. gates'[g].exclusive = NoOne => gates'[g].taken = Cardinality(Permitted(g)')
      BY <1>11, <1>12, <3>4, <3>7 DEF CountOf
    <3>10. gates'[g].exclusive # NoOne =>
             gates'[g].taken = Cardinality(Permitted(g)') + at'[gates'[g].exclusive].got
      BY <1>11, <1>12, <3>4, <3>5, <3>6, <3>7 DEF CountOf
    <3> QED
      BY <1>11, <1>12, <2>2, <3>3, <3>4, <3>6, <3>8, <3>9, <3>10 DEF CountOf, Cap
  <2> QED
    BY <2>1, <2>2
<1> QED
  BY <1>1, <1>3, <1>6, <1>7, <1>8, <1>9, <1>10, <1>12, GateStep DEF Goes

\* Who wants all permits waits for whoever had that before.
LEMMA ExcludeKeeps == ASSUME ReadersInv, NEW c \in Searchers, Exclude(c) PROVE ReadersInv'
<1> DEFINE r == at[c].reader
<1>4. at[c].pc \in Calling /\ at[c].pc \in WithGate
  BY DEF Exclude, Calling, WithGate
<1>2. PICK g \in Gates : g = at[c].gate
  BY <1>4, AtGate
<1>1. /\ at[c].pc = "excluding" /\ gates[g].exclusive = NoOne
      /\ gates' = [gates EXCEPT ![g].exclusive = c]
      /\ UNCHANGED <<kinds, lock, shut, snap, opener, view, addr, owner, table, robbed>>
      /\ Goto(c, "taking") /\ "taking" \in Pcs
  BY <1>2 DEF Exclude, locks, handles, Pcs
<1>3. Goes(c, "taking")
  BY <1>1, Going
<1>5. /\ r \in DOMAIN kinds /\ kinds[r] \in ReaderKinds /\ at[c].op # "search" /\ at[c].got = 0
      /\ PositionOf(c) /\ LocksOf(c) /\ SeesOf(c) /\ GateOf(c) /\ EmptyOf(c)
  BY <1>1, <1>4, AtCall DEF PositionOf, EmptyOf, Holding
<1>6. PositionOf(c)' /\ GateOf(c)' /\ EmptyOf(c)'
  BY <1>1, <1>3, <1>5
     DEF PositionOf, GateOf, EmptyOf, Goes, Moved, Calling, WithGate
<1>7. LocksOf(c)'
  BY <1>1, <1>3, <1>5 DEF LocksOf, LockOK, Shares, AtClose, Closes, Opens, IsAt, Goes, Moved
<1>8. SeesOf(c)'
  BY <1>1, <1>3, <1>5
     DEF SeesOf, SeesOK, Shares, AtClose, Closes, Opens, IsAt, Goes, Moved, Calling
<1>10. \A q \in DOMAIN kinds : AtClose(c, q)' => AtClose(c, q)
  BY <1>1, <1>3 DEF Goes, AtClose, IsAt
<1>11. /\ g \in Gates /\ Cap(g) \in Nat \ {0} /\ CountOf(g)
       /\ gates \in [Gates -> [taken : Int, exclusive : Searchers \cup {NoOne}]]
  BY <1>2, <1>4, AtGate
<1>12. /\ gates' \in [Gates -> [taken : Int, exclusive : Searchers \cup {NoOne}]]
       /\ gates'[g].taken = gates[g].taken /\ gates'[g].exclusive = c
       /\ \A h \in Gates \ {g} : gates'[h] = gates[h]
  BY <1>1, <1>11
<1>9. Census'
  <2> SUFFICES ASSUME NEW h \in Gates PROVE CountOf(h)'
    BY <1>3 DEF Census, Goes, Moved
  <2>1. CASE h # g
    BY <1>2, <1>3, <1>12, <2>1, OtherGate DEF Goes
  <2>2. CASE h = g
    <3>1. \A d \in Searchers \ {c} : at'[d] = at[d]
      BY <1>3 DEF Goes, Moved
    <3>2. Permitted(g)' = Permitted(g)
      BY <1>2, <1>3, <1>5, <3>1 DEF Permitted, Goes
    <3>3. \A d \in Excluding(g) : gates[g].exclusive = d /\ d \in Searchers
      BY <1>11 DEF CountOf, Excluding
    <3>4. Excluding(g) = {}
      BY <1>1, <3>3, VectorReadersAssumption
    <3>5. Excluding(g)' = {c}
      BY <1>2, <1>3, <1>5, <3>1, <3>4 DEF Excluding, Goes, Holding
    <3>6. Cardinality(Permitted(g)) \in Nat
      BY <1>11, FS_CardinalityType DEF CountOf
    <3>7. at'[c].got = 0 /\ at'[c].pc = "taking" /\ gates[g].taken \in Int
      BY <1>3, <1>5, <1>11 DEF Goes
    <3>8. gates'[g].taken = Cardinality(Permitted(g)') + at'[gates'[g].exclusive].got
      BY <1>1, <1>11, <1>12, <3>2, <3>6, <3>7 DEF CountOf
    <3>9. \A d \in Searchers : gates'[g].exclusive = d <=> d \in Excluding(g)'
      BY <1>12, <3>5
    <3>10. \A d \in Excluding(g)' : /\ at'[d].pc = "taking" => at'[d].got < Cap(g)
                                    /\ at'[d].pc # "taking" => at'[d].got = Cap(g)
      BY <1>11, <3>5, <3>7
    <3>11. gates'[g].taken <= Cap(g) /\ gates'[g].exclusive # NoOne /\ IsFiniteSet(Permitted(g)')
      BY <1>11, <1>12, <3>2, VectorReadersAssumption DEF CountOf
    <3> QED
      BY <2>2, <3>8, <3>9, <3>10, <3>11 DEF CountOf, Cap
  <2> QED
    BY <2>1, <2>2
<1> QED
  BY <1>1, <1>3, <1>6, <1>7, <1>8, <1>9, <1>10, <1>12, GateStep DEF Goes

\* Whoever wants all permits takes one more of them.
LEMMA TakeAllKeeps == ASSUME ReadersInv, NEW c \in Searchers, TakeAll(c) PROVE ReadersInv'
<1> DEFINE r == at[c].reader
<1>4. at[c].pc \in Calling /\ at[c].pc \in WithGate
  BY DEF TakeAll, Calling, WithGate
<1>2. PICK g \in Gates : g = at[c].gate
  BY <1>4, AtGate
<1> DEFINE pc == IF at[c].got + 1 < Cap(g) THEN "taking" ELSE "inside"
<1>1. /\ at[c].pc = "taking" /\ gates[g].taken < Cap(g)
      /\ gates' = [gates EXCEPT ![g].taken = @ + 1]
      /\ UNCHANGED <<kinds, lock, shut, snap, opener, view, addr, owner, table, robbed>>
  BY <1>2 DEF TakeAll, locks, handles
<1>11. /\ Cap(g) \in Nat \ {0} /\ CountOf(g)
       /\ gates \in [Gates -> [taken : Int, exclusive : Searchers \cup {NoOne}]]
  BY <1>2, <1>4, AtGate
<1>3. /\ Moved(c) /\ at'[c].pc = pc /\ at'[c].op = at[c].op /\ at'[c].reader = at[c].reader
      /\ at'[c].gate = at[c].gate /\ at'[c].got = at[c].got + 1
  <2>1. at \in [Searchers -> AtType] /\ at[c] \in AtType
    BY DEF ReadersInv, Typed
  <2>2. at' = [at EXCEPT ![c] = [at[c] EXCEPT !.got = @ + 1, !.pc = pc]]
    BY <1>1, <1>2, <2>1 DEF TakeAll, AtType
  <2>3. pc \in Pcs
    BY DEF Pcs
  <2> DEFINE there == [at[c] EXCEPT !.got = @ + 1, !.pc = pc]
  <2> HIDE DEF pc
  <2>4. /\ there \in AtType /\ there.pc = pc /\ there.op = at[c].op /\ there.reader = at[c].reader
        /\ there.gate = at[c].gate /\ there.got = at[c].got + 1
    <3>1. at[c].got + 1 \in Nat
      BY <2>1 DEF AtType
    <3> DEFINE more == at[c].got + 1
    <3>2. there = [at[c] EXCEPT !.got = more, !.pc = pc] /\ more \in Nat
      BY <3>1
    <3> HIDE DEF more
    <3>3. /\ there \in AtType /\ there.pc = pc /\ there.op = at[c].op /\ there.reader = at[c].reader
          /\ there.gate = at[c].gate /\ there.got = more
      BY <2>1, <2>3, <3>2 DEF AtType
    <3> QED
      BY <3>3 DEF more
  <2>5. at' = [at EXCEPT ![c] = there]
    BY <2>2
  <2> HIDE DEF there
  <2>6. Gates' = Gates
    BY <1>1 DEF Gates
  <2>7. AtType' = AtType
    BY <2>6 DEF AtType
  <2>8. /\ at' \in [Searchers -> AtType] /\ \A d \in Searchers \ {c} : at'[d] = at[d]
        /\ at'[c] = there
    BY <2>1, <2>4, <2>5
  <2> QED
    BY <1>1, <2>4, <2>6, <2>7, <2>8 DEF Moved
<1>13. pc \in {"taking", "inside"}
  OBVIOUS
<1>5. /\ r \in DOMAIN kinds /\ kinds[r] \in ReaderKinds /\ at[c].op \in {"save", "close"}
      /\ at[c].got \in Nat
      /\ PositionOf(c) /\ LocksOf(c) /\ SeesOf(c) /\ GateOf(c) /\ EmptyOf(c)
  BY <1>1, <1>4, AtCall DEF PositionOf
<1>14. c \in Excluding(g)
  BY <1>1, <1>2, <1>5 DEF Excluding, Holding
<1>15. at[c].got < Cap(g) /\ gates[g].exclusive = c
  BY <1>1, <1>11, <1>14 DEF CountOf
<1>16. pc = "taking" => at[c].got + 1 < Cap(g)
  OBVIOUS
<1>17. pc # "taking" => at[c].got + 1 = Cap(g)
  <2>1. pc # "taking" => ~(at[c].got + 1 < Cap(g))
    OBVIOUS
  <2> HIDE DEF pc
  <2> QED
    BY <1>5, <1>11, <1>15, <2>1
<1> HIDE DEF pc
<1>6. PositionOf(c)' /\ GateOf(c)' /\ EmptyOf(c)'
  BY <1>1, <1>3, <1>5, <1>13
     DEF PositionOf, GateOf, EmptyOf, Moved, Calling, WithGate, Holding
<1>7. LocksOf(c)'
  BY <1>1, <1>3, <1>5, <1>13 DEF LocksOf, LockOK, Shares, AtClose, Closes, Opens, IsAt, Moved
<1>8. SeesOf(c)'
  BY <1>1, <1>3, <1>5, <1>13
     DEF SeesOf, SeesOK, Shares, AtClose, Closes, Opens, IsAt, Moved, Calling
<1>10. \A q \in DOMAIN kinds : AtClose(c, q)' => AtClose(c, q)
  BY <1>1, <1>3 DEF AtClose, IsAt
<1>12. /\ gates' \in [Gates -> [taken : Int, exclusive : Searchers \cup {NoOne}]]
       /\ gates'[g].taken = gates[g].taken + 1 /\ gates'[g].exclusive = gates[g].exclusive
       /\ \A h \in Gates \ {g} : gates'[h] = gates[h]
  BY <1>1, <1>11
<1>9. Census'
  <2> SUFFICES ASSUME NEW h \in Gates PROVE CountOf(h)'
    BY <1>3 DEF Census, Moved
  <2>1. CASE h # g
    BY <1>2, <1>3, <1>12, <2>1, OtherGate
  <2>2. CASE h = g
    <3>1. \A d \in Searchers \ {c} : at'[d] = at[d]
      BY <1>3 DEF Moved
    <3>2. Permitted(g)' = Permitted(g)
      BY <1>2, <1>3, <1>5, <3>1 DEF Permitted
    <3>3. Excluding(g)' = {c}
      <4>1. \A d \in Excluding(g) : d = c
        BY <1>11, <1>15 DEF CountOf, Excluding
      <4> QED
        BY <1>2, <1>3, <1>5, <1>13, <3>1, <4>1 DEF Excluding, Holding
    <3>4. Cardinality(Permitted(g)) \in Nat
      BY <1>11, FS_CardinalityType DEF CountOf
    <3>5. gates[g].taken \in Int /\ gates[g].taken = Cardinality(Permitted(g)) + at[c].got
      BY <1>11, <1>15, VectorReadersAssumption DEF CountOf
    <3>6. gates'[g].taken = Cardinality(Permitted(g)') + at'[gates'[g].exclusive].got
      BY <1>3, <1>5, <1>12, <1>15, <3>2, <3>4, <3>5
    <3>7. gates'[g].taken <= Cap(g)
      BY <1>1, <1>11, <1>12, <3>5
    <3>8. \A d \in Searchers : gates'[g].exclusive = d <=> d \in Excluding(g)'
      BY <1>12, <1>15, <3>3
    <3>9. \A d \in Excluding(g)' : /\ at'[d].pc = "taking" => at'[d].got < Cap(g)
                                   /\ at'[d].pc # "taking" => at'[d].got = Cap(g)
      BY <1>3, <1>16, <1>17, <3>3
    <3>10. gates'[g].exclusive # NoOne /\ IsFiniteSet(Permitted(g)')
      BY <1>11, <1>12, <1>15, <3>2, VectorReadersAssumption DEF CountOf
    <3> QED
      BY <2>2, <3>6, <3>7, <3>8, <3>9, <3>10 DEF CountOf, Cap
  <2> QED
    BY <2>1, <2>2
<1> QED
  BY <1>1, <1>3, <1>6, <1>7, <1>8, <1>9, <1>10, <1>12, GateStep

\* A search gives its permit back.
LEMMA ReturnPermitKeeps == ASSUME ReadersInv, NEW c \in Searchers, ReturnPermit(c) PROVE ReadersInv'
<1> DEFINE r == at[c].reader
<1>4. at[c].pc \in Calling /\ at[c].pc \in WithGate
  BY DEF ReturnPermit, Calling, WithGate
<1>2. PICK g \in Gates : g = at[c].gate
  BY <1>4, AtGate
<1>1. /\ at[c].pc = "inside" /\ at[c].op = "search"
      /\ gates' = [gates EXCEPT ![g].taken = @ - 1]
      /\ UNCHANGED <<kinds, lock, shut, snap, opener, view, addr, owner, table, robbed>>
  BY <1>2 DEF ReturnPermit, locks, handles
<1>11. /\ Cap(g) \in Nat \ {0} /\ CountOf(g)
       /\ gates \in [Gates -> [taken : Int, exclusive : Searchers \cup {NoOne}]]
  BY <1>2, <1>4, AtGate
<1>5. /\ r \in DOMAIN kinds /\ kinds[r] \in ReaderKinds /\ at[c].got = 0
      /\ PositionOf(c) /\ LocksOf(c) /\ SeesOf(c)
  BY <1>1, <1>4, AtCall DEF EmptyOf
<1>3. \/ kinds[r] = "bare" /\ Rests(c) /\ at'[c].pc = "idle" /\ at'[c].got = 0
      \/ kinds[r] = "plain" /\ Goes(c, "reading")
      \/ kinds[r] = "collection" /\ Goes(c, "unlocking")
  <2>1. CASE kinds[r] = "bare"
    BY <1>1, <2>1, Resting DEF ReturnPermit, Kind, Rests, AtRest
  <2>2. CASE kinds[r] = "plain"
    <3>1. Goto(c, "reading") /\ "reading" \in Pcs
      BY <2>2 DEF ReturnPermit, Kind, Pcs
    <3> QED
      BY <1>1, <2>2, <3>1, Going
  <2>3. CASE kinds[r] = "collection"
    <3>1. Goto(c, "unlocking") /\ "unlocking" \in Pcs
      BY <2>3 DEF ReturnPermit, Kind, Pcs
    <3> QED
      BY <1>1, <2>3, <3>1, Going
  <2> QED
    BY <1>5, <2>1, <2>2, <2>3 DEF ReaderKinds
<1>13. /\ Moved(c) /\ at'[c].pc \in {"idle", "reading", "unlocking"} /\ at'[c].got = 0
       /\ at'[c].pc # "idle" => /\ at'[c].op = "search" /\ at'[c].reader = r
                                /\ kinds[r] # "bare"
       /\ at'[c].pc = "idle" => kinds[r] = "bare"
  BY <1>1, <1>3, <1>5 DEF Goes, Rests
<1>6. PositionOf(c)' /\ GateOf(c)' /\ EmptyOf(c)'
  BY <1>5, <1>13 DEF PositionOf, GateOf, EmptyOf, Moved, Calling, WithGate
<1>7. LocksOf(c)'
  BY <1>1, <1>5, <1>13 DEF LocksOf, LockOK, Shares, AtClose, Closes, Opens, IsAt, Moved
<1>8. SeesOf(c)'
  <2> SUFFICES ASSUME NEW q \in DOMAIN kinds PROVE SeesOK(q, c)'
    BY <1>1 DEF SeesOf
  <2>1. SeesOK(q, c)
    BY <1>5 DEF SeesOf
  <2> QED
    BY <1>1, <1>3, <1>5, <1>13, <2>1
       DEF SeesOK, Shares, AtClose, Closes, Opens, IsAt, Calling, Goes, Moved
<1>10. \A q \in DOMAIN kinds : AtClose(c, q)' => AtClose(c, q)
  BY <1>13 DEF AtClose, IsAt
<1>12. /\ gates' \in [Gates -> [taken : Int, exclusive : Searchers \cup {NoOne}]]
       /\ gates'[g].taken = gates[g].taken - 1 /\ gates'[g].exclusive = gates[g].exclusive
       /\ \A h \in Gates \ {g} : gates'[h] = gates[h]
  BY <1>1, <1>11
<1>9. Census'
  <2> SUFFICES ASSUME NEW h \in Gates PROVE CountOf(h)'
    BY <1>13 DEF Census, Moved
  <2>3. /\ \A d \in Searchers \ {c} : at'[d] = at[d]
        /\ at'[c].gate = NoOne \/ at'[c].gate = g
    BY <1>2, <1>3, <1>13 DEF Moved, Goes, Rests, AtRest
  <2>1. CASE h # g
    <3>1. at'[c].gate # h
      BY <2>1, <2>3, VectorReadersAssumption DEF Gates, ReadersInv, Typed
    <3> QED
      BY <1>2, <1>12, <1>13, <2>1, <3>1, OtherGate
  <2>2. CASE h = g
    <3>2. Permitted(g)' = Permitted(g) \ {c} /\ c \in Permitted(g)
      BY <1>1, <1>2, <1>13, <2>3 DEF Permitted
    <3>3. Excluding(g)' = Excluding(g) /\ c \notin Excluding(g)
      BY <1>1, <1>13, <2>3 DEF Excluding, Holding
    <3>4. /\ IsFiniteSet(Permitted(g)') /\ Cardinality(Permitted(g)) \in Nat
          /\ Cardinality(Permitted(g)') = Cardinality(Permitted(g)) - 1
      BY <1>11, <3>2, FS_RemoveElement, FS_CardinalityType DEF CountOf
    <3>5. gates[g].exclusive # NoOne => gates[g].exclusive \in Excluding(g)
      BY <1>11 DEF CountOf
    <3>6. \A d \in Excluding(g) : d \in Searchers /\ at'[d] = at[d] /\ at[d].got \in Nat
      BY <2>3, <3>3 DEF Excluding, ReadersInv, Typed, AtType
    <3>7. gates[g].taken \in Int
      BY <1>11
    <3>8. gates'[g].taken <= Cap(g)
      BY <1>11, <1>12, <3>7 DEF CountOf
    <3>9. gates'[g].exclusive = NoOne => gates'[g].taken = Cardinality(Permitted(g)')
      BY <1>11, <1>12, <3>4, <3>7 DEF CountOf
    <3>10. gates'[g].exclusive # NoOne =>
             gates'[g].taken = Cardinality(Permitted(g)') + at'[gates'[g].exclusive].got
      BY <1>11, <1>12, <3>4, <3>5, <3>6, <3>7 DEF CountOf
    <3> QED
      BY <1>11, <1>12, <2>2, <3>3, <3>4, <3>6, <3>8, <3>9, <3>10 DEF CountOf, Cap
  <2> QED
    BY <2>1, <2>2
<1> QED
  BY <1>1, <1>6, <1>7, <1>8, <1>9, <1>10, <1>12, <1>13, GateStep

\* Whoever had all permits gives all of them back.
LEMMA ReleaseAllKeeps == ASSUME ReadersInv, NEW c \in Searchers, ReleaseAll(c) PROVE ReadersInv'
<1> DEFINE r == at[c].reader
<1>4. at[c].pc \in Calling \cup {"deleting", "releasing"} /\ at[c].pc \in WithGate
  BY DEF ReleaseAll, Calling, WithGate
<1>2. PICK g \in Gates : g = at[c].gate
  BY <1>4, AtGate
<1>1. /\ at[c].pc = "releasing" \/ (at[c].pc = "inside" /\ at[c].op = "save")
      /\ gates' = [gates EXCEPT ![g] = [taken |-> @.taken - Cap(g), exclusive |-> NoOne]]
      /\ UNCHANGED <<kinds, lock, shut, snap, opener, view, addr, owner, table, robbed>>
  BY <1>2 DEF ReleaseAll, locks, handles
<1>11. /\ Cap(g) \in Nat \ {0} /\ CountOf(g)
       /\ gates \in [Gates -> [taken : Int, exclusive : Searchers \cup {NoOne}]]
  BY <1>2, <1>4, AtGate
<1>5. /\ r \in DOMAIN kinds /\ kinds[r] \in ReaderKinds /\ at[c].op \in {"save", "close"}
      /\ PositionOf(c) /\ LocksOf(c) /\ SeesOf(c)
  BY <1>1, <1>4, AtCall DEF PositionOf
<1>3. \/ kinds[r] = "bare" /\ at[c].op = "save" /\ Rests(c) /\ at'[c].pc = "idle" /\ at'[c].got = 0
      \/ kinds[r] = "plain" /\ at[c].op = "close" /\ Goes(c, "unlocking")
      \/ kinds[r] = "collection" /\ at[c].op = "close" /\ Goes(c, "closing")
  <2>1. CASE at[c].op = "save"
    <3>3. kinds[r] = "bare"
      BY <1>1, <1>5, <2>1 DEF PositionOf
    <3>1. Rest(c)
      BY <2>1, <3>3 DEF ReleaseAll, Kind
    <3>2. Rests(c)
      BY <1>1, <3>1, Resting
    <3> QED
      BY <2>1, <3>2, <3>3 DEF Rests, AtRest
  <2>2. CASE kinds[r] = "plain" /\ at[c].op = "close"
    <3>1. Goto(c, "unlocking") /\ "unlocking" \in Pcs
      BY <2>2 DEF ReleaseAll, Kind, Pcs
    <3> QED
      BY <1>1, <2>2, <3>1, Going
  <2>3. CASE kinds[r] = "collection" /\ at[c].op = "close"
    <3>1. Goto(c, "closing") /\ "closing" \in Pcs
      BY <2>3 DEF ReleaseAll, Kind, Pcs
    <3> QED
      BY <1>1, <2>3, <3>1, Going
  <2>4. at[c].op = "close" => kinds[r] # "bare"
    BY <1>1, <1>5 DEF PositionOf
  <2>5. \/ at[c].op = "save"
        \/ kinds[r] = "plain" /\ at[c].op = "close"
        \/ kinds[r] = "collection" /\ at[c].op = "close"
    BY <1>5, <2>4 DEF ReaderKinds
  <2> QED
    BY <2>1, <2>2, <2>3, <2>5
<1>13. /\ Moved(c) /\ at'[c].pc \in {"idle", "closing", "unlocking"}
       /\ at'[c].pc = "idle" => at'[c].got = 0
       /\ at'[c].pc # "idle" => /\ at'[c].op = "close" /\ at'[c].reader = r
                                /\ at[c].op = "close" /\ kinds[r] # "bare"
                                /\ at[c].pc = "releasing"
       /\ at'[c].pc = "idle" => kinds[r] = "bare" /\ at[c].op = "save"
       /\ at'[c].pc = "closing" => kinds[r] = "collection"
  BY <1>1, <1>3, <1>5 DEF Goes, Rests
<1>6. PositionOf(c)' /\ GateOf(c)' /\ EmptyOf(c)'
  BY <1>5, <1>13 DEF PositionOf, GateOf, EmptyOf, Moved, Calling, WithGate
<1>7. LocksOf(c)'
  BY <1>1, <1>5, <1>13 DEF LocksOf, LockOK, Shares, AtClose, Closes, Opens, IsAt, Moved
<1>8. SeesOf(c)'
  <2> SUFFICES ASSUME NEW q \in DOMAIN kinds PROVE SeesOK(q, c)'
    BY <1>1 DEF SeesOf
  <2>1. SeesOK(q, c)
    BY <1>5 DEF SeesOf
  <2> QED
    BY <1>1, <1>3, <1>5, <1>13, <2>1
       DEF SeesOK, Shares, AtClose, Closes, Opens, IsAt, Calling, Goes, Moved
<1>10. \A q \in DOMAIN kinds : AtClose(c, q)' => AtClose(c, q)
  BY <1>13 DEF AtClose, IsAt, Moved
<1>12. /\ gates' \in [Gates -> [taken : Int, exclusive : Searchers \cup {NoOne}]]
       /\ gates'[g].taken = gates[g].taken - Cap(g) /\ gates'[g].exclusive = NoOne
       /\ \A h \in Gates \ {g} : gates'[h] = gates[h]
  <2> DEFINE new == [taken |-> gates[g].taken - Cap(g), exclusive |-> NoOne]
  <2>1. new \in [taken : Int, exclusive : Searchers \cup {NoOne}]
    BY <1>11
  <2>2. gates' = [gates EXCEPT ![g] = new]
    BY <1>1
  <2>3. new.taken = gates[g].taken - Cap(g) /\ new.exclusive = NoOne
    OBVIOUS
  <2> HIDE DEF new
  <2> QED
    BY <1>11, <2>1, <2>2, <2>3
<1>9. Census'
  <2> SUFFICES ASSUME NEW h \in Gates PROVE CountOf(h)'
    BY <1>13 DEF Census, Moved
  <2>3. /\ \A d \in Searchers \ {c} : at'[d] = at[d]
        /\ at'[c].gate = NoOne \/ at'[c].gate = g
    BY <1>2, <1>3, <1>13 DEF Moved, Goes, Rests, AtRest
  <2>1. CASE h # g
    <3>1. at'[c].gate # h
      BY <2>1, <2>3, VectorReadersAssumption DEF Gates, ReadersInv, Typed
    <3> QED
      BY <1>2, <1>12, <1>13, <2>1, <3>1, OtherGate
  <2>2. CASE h = g
    <3>1. c \in Excluding(g)
      BY <1>1, <1>2, <1>5 DEF Excluding, Holding
    <3>2. gates[g].exclusive = c /\ at[c].got = Cap(g)
      BY <1>1, <1>11, <3>1 DEF CountOf
    <3>3. \A d \in Excluding(g) : d = c
      BY <1>11, <3>2 DEF CountOf, Excluding
    <3>4. Permitted(g)' = Permitted(g)
      BY <1>5, <1>13, <2>3 DEF Permitted
    <3>5. Excluding(g)' = {}
      BY <1>13, <2>3, <3>3 DEF Excluding, Holding
    <3>6. Cardinality(Permitted(g)) \in Nat
      BY <1>11, FS_CardinalityType DEF CountOf
    <3>7. gates[g].taken \in Int /\ gates[g].taken = Cardinality(Permitted(g)) + Cap(g)
      BY <1>11, <3>2, VectorReadersAssumption DEF CountOf
    <3>8. gates'[g].taken = Cardinality(Permitted(g)') /\ gates'[g].taken <= Cap(g)
      BY <1>11, <1>12, <3>4, <3>6, <3>7 DEF CountOf
    <3>9. IsFiniteSet(Permitted(g)')
      BY <1>11, <3>4 DEF CountOf
    <3> QED
      BY <1>12, <2>2, <3>5, <3>8, <3>9, VectorReadersAssumption DEF CountOf, Cap
  <2> QED
    BY <2>1, <2>2
<1> QED
  BY <1>1, <1>6, <1>7, <1>8, <1>9, <1>10, <1>12, <1>13, GateStep

\* A handle that has no gate gets one.
LEMMA FindGateKeeps == ASSUME ReadersInv, NEW c \in Searchers, FindGate(c) PROVE ReadersInv'
<1> DEFINE r == at[c].reader
           a == addr[r]
           g == IF table[a] = NoOne THEN <<r, "spare">> ELSE table[a]
           pc == IF at[c].op = "search" THEN "acquiring" ELSE "excluding"
<1>1. /\ at[c].pc = "calls"
      /\ table' = [table EXCEPT ![a] = g]
      /\ at' = [at EXCEPT ![c].gate = g, ![c].pc = pc]
      /\ UNCHANGED <<kinds, lock, shut, snap, gates, opener, view, addr, owner, robbed>>
  BY DEF FindGate, locks, Home
<1>2. at[c].pc \in Calling
  BY <1>1 DEF Calling
<1>3. /\ r \in DOMAIN kinds /\ kinds[r] \in ReaderKinds /\ at[c].op \in {"search", "save", "close"}
      /\ at[c].got = 0
      /\ PositionOf(c) /\ LocksOf(c) /\ SeesOf(c) /\ SeesOK(r, c) /\ HomeOK(r)
  BY <1>1, <1>2, AtCall DEF EmptyOf, Holding
<1>4. /\ view[r] = "ready" /\ a # 0 /\ owner[a] = r
      /\ table[a] = NoOne \/ table[a][1] = r
      /\ r \notin robbed => table[a] = <<r, "own">>
  BY <1>2, <1>1, <1>3 DEF SeesOK, IsAt, HomeOK
<1>5. /\ addr \in [DOMAIN kinds -> Addresses \cup {0}]
      /\ table \in [Addresses -> Gates \cup {NoOne}] /\ a \in Addresses
  BY <1>3, <1>4 DEF ReadersInv, Typed
<1>6. /\ g \in Gates /\ g[1] = r
      /\ r \notin robbed => g = <<r, "own">>
  <2>1. <<r, "spare">> \in Gates /\ <<r, "own">> \in Gates
    BY <1>3 DEF Gates
  <2>2. NoOne \notin Gates
    BY VectorReadersAssumption DEF Gates, ReadersInv, Typed
  <2>3. table[a] \in Gates \cup {NoOne}
    BY <1>5
  <2> QED
    BY <1>4, <2>1, <2>2, <2>3
<1>7. /\ pc \in {"acquiring", "excluding"} /\ (pc = "acquiring" <=> at[c].op = "search")
      /\ pc \in Pcs
  BY DEF Pcs
<1> HIDE DEF g, pc
<1>8. /\ Moved(c) /\ at'[c].pc = pc /\ at'[c].op = at[c].op /\ at'[c].reader = at[c].reader
      /\ at'[c].gate = g /\ at'[c].got = at[c].got
  <2>1. at \in [Searchers -> AtType] /\ at[c] \in AtType
    BY DEF ReadersInv, Typed
  <2> DEFINE there == [at[c] EXCEPT !.gate = g, !.pc = pc]
  <2>2. at' = [at EXCEPT ![c] = there]
    BY <1>1, <2>1 DEF AtType
  <2>3. /\ there \in AtType /\ there.pc = pc /\ there.op = at[c].op /\ there.reader = at[c].reader
        /\ there.gate = g /\ there.got = at[c].got
    BY <1>6, <1>7, <2>1 DEF AtType
  <2> HIDE DEF there
  <2>4. Gates' = Gates
    BY <1>1 DEF Gates
  <2>5. AtType' = AtType
    BY <2>4 DEF AtType
  <2>6. /\ at' \in [Searchers -> AtType] /\ \A d \in Searchers \ {c} : at'[d] = at[d]
        /\ at'[c] = there
    BY <2>1, <2>2, <2>3
  <2> QED
    BY <1>1, <2>3, <2>4, <2>5, <2>6 DEF Moved
<1>9. /\ table'[a] = g /\ \A b \in Addresses \ {a} : table'[b] = table[b]
      /\ table' \in [Addresses -> Gates \cup {NoOne}]
  BY <1>1, <1>5, <1>6
<1>10. Typed'
  BY <1>1, <1>8, <1>9 DEF ReadersInv, Typed, Moved, Addresses
<1>11. Positions' /\ WithGates' /\ Empty'
  <2>1. PositionOf(c)' /\ GateOf(c)' /\ EmptyOf(c)'
    BY <1>1, <1>3, <1>6, <1>7, <1>8
       DEF PositionOf, GateOf, EmptyOf, Moved, Calling, WithGate, ReaderKinds
  <2> QED
    BY <1>1, <1>8, <2>1, PositionsKept, WithGatesKept, EmptyKept
<1>12. Locks'
  <2>1. LocksOf(c)'
    BY <1>1, <1>3, <1>7, <1>8 DEF LocksOf, LockOK, Shares, AtClose, Closes, Opens, IsAt, Moved
  <2> QED
    BY <1>1, <1>8, <2>1, LocksKept
<1>13. Sees'
  <2>1. SeesOf(c)'
    BY <1>1, <1>3, <1>7, <1>8
       DEF SeesOf, SeesOK, Shares, AtClose, Closes, Opens, IsAt, Moved, Calling
  <2> QED
    BY <1>1, <1>8, <2>1, SeesKept
<1>14. Views' /\ Once'
  <2>1. \A q \in DOMAIN kinds : AtClose(c, q)' => AtClose(c, q)
    BY <1>1, <1>8 DEF AtClose, IsAt
  <2> QED
    BY <1>1, <1>8, <2>1, ViewsKept, OnceKept
<1>15. Homes'
  <2> SUFFICES ASSUME NEW q \in DOMAIN kinds, view[q] = "ready" PROVE HomeOK(q)'
    BY <1>1 DEF Homes, HomeOK
  <2>1. HomeOK(q)
    BY DEF ReadersInv, Homes
  <2>2. CASE q = r
    BY <1>1, <1>4, <1>6, <1>9, <2>2 DEF HomeOK
  <2>3. CASE q # r
    <3>1. addr[q] # a /\ addr[q] \in Addresses
      BY <1>4, <1>5, <2>1, <2>3 DEF HomeOK
    <3> QED
      BY <1>1, <1>9, <2>1, <3>1 DEF HomeOK
  <2> QED
    BY <2>2, <2>3
<1>16. Census'
  BY <1>1, <1>7, <1>8, CensusKept DEF Holding
<1> QED
  BY <1>10, <1>11, <1>12, <1>13, <1>14, <1>15, <1>16 DEF ReadersInv

\* Whoever has all permits keeps them while the handle goes away.
LEMMA HeldOn ==
  ASSUME ReadersInv, NEW c \in Searchers, NEW pc \in Pcs, Goes(c, pc), UNCHANGED gates,
         at[c].op # "search", at[c].pc \in Holding \ {"taking"}, pc \in Holding \ {"taking"}
  PROVE  Census'
<1>1. (\A d \in Searchers \ {c} : at'[d] = at[d]) /\ Gates' = Gates
  BY DEF Goes, Moved
<1>2. \A g \in Gates : Permitted(g)' = Permitted(g) /\ Excluding(g)' = Excluding(g)
  BY <1>1 DEF Permitted, Excluding, Goes
<1>3. \A d \in Searchers : /\ at'[d].got = at[d].got
                           /\ at'[d].pc = "taking" <=> at[d].pc = "taking"
  BY <1>1 DEF Goes
<1>4. \A g \in Gates : gates[g].exclusive # NoOne => gates[g].exclusive \in Searchers
  BY DEF ReadersInv, Typed
<1> SUFFICES ASSUME NEW g \in Gates PROVE CountOf(g)'
  BY <1>1 DEF Census
<1>5. CountOf(g)
  BY DEF ReadersInv, Census
<1>6. \A d \in Excluding(g) : d \in Searchers
  BY DEF Excluding
<1> QED
  BY <1>2, <1>3, <1>4, <1>5, <1>6 DEF CountOf, Cap

\* The index is destroyed, and its address is free.
LEMMA DestroyKeeps == ASSUME ReadersInv, NEW c \in Searchers, Destroy(c) PROVE ReadersInv'
<1> DEFINE r == at[c].reader
           a == addr[r]
<1>1. /\ at[c].pc = "inside" /\ at[c].op = "close"
      /\ owner' = [owner EXCEPT ![a] = 0] /\ view' = [view EXCEPT ![r] = "closed"]
      /\ UNCHANGED <<kinds, lock, shut, snap, gates, opener, addr, table, robbed>>
      /\ Goto(c, "deleting") /\ "deleting" \in Pcs
  BY DEF Destroy, locks, Home, Pcs
<1>2. Goes(c, "deleting")
  BY <1>1, Going
<1>3. at[c].pc \in Calling
  BY <1>1 DEF Calling
<1>4. /\ r \in DOMAIN kinds /\ kinds[r] \in ReaderKinds
      /\ PositionOf(c) /\ LocksOf(c) /\ SeesOf(c) /\ GateOf(c) /\ EmptyOf(c)
      /\ LockOK(r, c) /\ SeesOK(r, c) /\ HomeOK(r)
  BY <1>1, <1>3, AtCall
<1>5. /\ Closes(c, r) /\ AtClose(c, r) /\ kinds[r] # "bare" /\ shut[r] /\ view[r] = "ready"
      /\ lock[r].inside = {} /\ lock[r].wanted = c /\ a # 0 /\ owner[a] = r
  BY <1>1, <1>3, <1>4 DEF PositionOf, LockOK, SeesOK, HomeOK, Closes, AtClose, IsAt
<1>6. /\ owner \in [Addresses -> DOMAIN kinds \cup {0}] /\ addr \in [DOMAIN kinds -> Addresses \cup {0}]
      /\ view \in [DOMAIN kinds -> {"none", "ready", "closed"}] /\ a \in Addresses
  BY <1>4, <1>5 DEF ReadersInv, Typed
<1>7. /\ owner'[a] = 0 /\ \A b \in Addresses \ {a} : owner'[b] = owner[b]
      /\ view'[r] = "closed" /\ \A q \in DOMAIN kinds \ {r} : view'[q] = view[q]
      /\ owner' \in [Addresses -> DOMAIN kinds \cup {0}]
      /\ view' \in [DOMAIN kinds -> {"none", "ready", "closed"}]
  BY <1>1, <1>4, <1>6
<1>8. Typed'
  BY <1>1, <1>2, <1>7 DEF ReadersInv, Typed, Goes, Moved, Addresses
<1>9. Positions' /\ WithGates' /\ Empty'
  <2>1. PositionOf(c)' /\ GateOf(c)' /\ EmptyOf(c)'
    BY <1>1, <1>2, <1>4, <1>5
       DEF PositionOf, GateOf, EmptyOf, Goes, Moved, Calling, WithGate, Holding
  <2> QED
    BY <1>1, <1>2, <2>1, PositionsKept, WithGatesKept, EmptyKept DEF Goes
<1>10. Locks'
  <2>1. LocksOf(c)'
    BY <1>1, <1>2, <1>4 DEF LocksOf, LockOK, Shares, AtClose, Closes, Opens, IsAt, Goes, Moved
  <2> QED
    BY <1>1, <1>2, <2>1, LocksKept DEF Goes
<1>11. ASSUME NEW d \in Searchers, d # c, IsAt(d, r)
       PROVE  /\ at[d].pc \notin Calling \cup {"reading", "cached", "opening", "storing"}
              /\ kinds[r] = "plain" => at[d].op # "close"
  <2>1. PositionOf(d) /\ LockOK(r, d) /\ ClosedOnce(r)
    BY <1>4 DEF ReadersInv, Positions, Locks, LocksOf, Once
  <2>2. at[d].op \in {"search", "close"}
    <3>1. at[d].op \in {"none", "search", "save", "close"}
      BY DEF ReadersInv, Typed, AtType
    <3> QED
      BY <1>5, <1>11, <2>1, <3>1 DEF PositionOf, IsAt
  <2>3. ~Shares(d, r) /\ ~Closes(d, r)
    BY <1>5, <1>11, <2>1 DEF LockOK
  <2>4. kinds[r] = "plain" => at[d].op # "close"
    BY <1>5, <1>11, <2>1 DEF ClosedOnce, AtClose
  <2>5. CASE at[d].op = "search"
    BY <1>5, <1>11, <2>3, <2>4, <2>5 DEF Shares, Calling
  <2>6. CASE at[d].op = "close"
    BY <1>11, <2>1, <2>3, <2>4, <2>6 DEF Closes, AtClose, Calling, IsAt, PositionOf
  <2> QED
    BY <2>2, <2>5, <2>6
<1>12. Sees'
  <2> SUFFICES ASSUME NEW d \in Searchers, NEW q \in DOMAIN kinds PROVE SeesOK(q, d)'
    BY <1>1 DEF Sees, SeesOf
  <2>1. SeesOK(q, d)
    BY DEF ReadersInv, Sees, SeesOf
  <2>2. CASE d = c
    BY <1>1, <1>2, <1>5, <1>7, <2>1, <2>2
       DEF SeesOK, Shares, AtClose, Closes, Opens, IsAt, Goes, Moved, Calling
  <2>3. CASE d # c
    <3>1. at'[d] = at[d] /\ kinds' = kinds
      BY <1>2, <2>3 DEF Goes, Moved
    <3>2. CASE q # r
      <4>1. addr[q] # 0 /\ owner[addr[q]] = q => addr[q] \in Addresses \ {a}
        BY <1>5, <1>6, <3>2
      <4> QED
        BY <1>1, <1>7, <2>1, <3>1, <3>2, <4>1 DEF SeesOK, Shares, AtClose, Closes, Opens, IsAt
    <3>3. CASE q = r
      BY <1>1, <1>7, <1>11, <2>1, <2>3, <3>1, <3>3
         DEF SeesOK, Shares, AtClose, Closes, Opens, IsAt
    <3> QED
      BY <3>2, <3>3
  <2> QED
    BY <2>2, <2>3
<1>13. Views'
  BY <1>1, <1>5, <1>7 DEF ReadersInv, Views, ViewOK
<1>14. Once'
  BY <1>1, <1>2, OnceKept DEF Goes, AtClose, IsAt
<1>15. Homes'
  <2> SUFFICES ASSUME NEW q \in DOMAIN kinds, view'[q] = "ready" PROVE HomeOK(q)'
    BY <1>1 DEF Homes, HomeOK
  <2>1. HomeOK(q) /\ q # r /\ view[q] = "ready"
    BY <1>7 DEF ReadersInv, Homes
  <2>2. addr[q] \in Addresses \ {a}
    BY <1>5, <1>6, <2>1 DEF HomeOK
  <2> QED
    BY <1>1, <1>7, <2>1, <2>2 DEF HomeOK
<1>16. Census'
  BY <1>1, <1>2, HeldOn DEF Holding
<1> QED
  BY <1>8, <1>9, <1>10, <1>12, <1>13, <1>14, <1>15, <1>16 DEF ReadersInv

\* Its gate goes after it: whoever has got the address since then loses a gate.
LEMMA DeleteGateKeeps == ASSUME ReadersInv, NEW c \in Searchers, DeleteGate(c) PROVE ReadersInv'
<1> DEFINE r == at[c].reader
           a == addr[r]
<1>1. /\ at[c].pc = "deleting"
      /\ table' = [table EXCEPT ![a] = NoOne]
      /\ robbed' = IF table[a] \in {NoOne, at[c].gate} THEN robbed ELSE robbed \cup {table[a][1]}
      /\ UNCHANGED <<kinds, lock, shut, snap, gates, opener, view, addr, owner>>
      /\ Goto(c, "releasing") /\ "releasing" \in Pcs
  BY DEF DeleteGate, locks, Home, Pcs
<1>2. Goes(c, "releasing")
  BY <1>1, Going
<1>3. /\ r \in DOMAIN kinds /\ at[c].op \in {"search", "save", "close"}
      /\ PositionOf(c) /\ LocksOf(c) /\ SeesOf(c) /\ GateOf(c) /\ EmptyOf(c)
      /\ LockOK(r, c) /\ SeesOK(r, c)
  BY <1>1, AtCall
<1>4. /\ at[c].op # "search" /\ kinds[r] # "bare" /\ a # 0 /\ view[r] = "closed"
      /\ at[c].gate[1] = r
  BY <1>1, <1>3 DEF PositionOf, SeesOK, GateOf, IsAt, WithGate, Calling
<1>5. /\ addr \in [DOMAIN kinds -> Addresses \cup {0}]
      /\ table \in [Addresses -> Gates \cup {NoOne}] /\ a \in Addresses
  BY <1>3, <1>4 DEF ReadersInv, Typed
<1>6. /\ table'[a] = NoOne /\ \A b \in Addresses \ {a} : table'[b] = table[b]
      /\ table' \in [Addresses -> Gates \cup {NoOne}]
  BY <1>1, <1>5
<1>7. robbed' \subseteq DOMAIN kinds /\ robbed \subseteq robbed'
  <2>1. robbed \subseteq DOMAIN kinds /\ table[a] \in Gates \cup {NoOne}
    BY <1>5 DEF ReadersInv, Typed
  <2> QED
    BY <1>1, <2>1 DEF Gates
<1>8. Typed'
  BY <1>1, <1>2, <1>6, <1>7 DEF ReadersInv, Typed, Goes, Moved, Addresses
<1>9. Positions' /\ WithGates' /\ Empty'
  <2>1. PositionOf(c)' /\ GateOf(c)' /\ EmptyOf(c)'
    BY <1>1, <1>2, <1>3, <1>4, <1>7
       DEF PositionOf, GateOf, EmptyOf, Goes, Moved, Calling, WithGate, Holding
  <2> QED
    BY <1>1, <1>2, <1>7, <2>1, PositionsKept, WithGatesKept, EmptyKept DEF Goes
<1>10. Locks'
  <2>1. LocksOf(c)'
    BY <1>1, <1>2, <1>3 DEF LocksOf, LockOK, Shares, AtClose, Closes, Opens, IsAt, Goes, Moved
  <2> QED
    BY <1>1, <1>2, <2>1, LocksKept DEF Goes
<1>11. Sees'
  <2>1. SeesOf(c)'
    BY <1>1, <1>2, <1>3
       DEF SeesOf, SeesOK, Shares, AtClose, Closes, Opens, IsAt, Goes, Moved, Calling
  <2> QED
    BY <1>1, <1>2, <2>1, SeesKept DEF Goes
<1>12. Views' /\ Once'
  <2>1. \A q \in DOMAIN kinds : AtClose(c, q)' => AtClose(c, q)
    BY <1>1, <1>2 DEF AtClose, IsAt, Goes
  <2> QED
    BY <1>1, <1>2, <2>1, ViewsKept, OnceKept DEF Goes
<1>13. Homes'
  <2> SUFFICES ASSUME NEW q \in DOMAIN kinds, view[q] = "ready" PROVE HomeOK(q)'
    BY <1>1 DEF Homes, HomeOK
  <2>1. HomeOK(q) /\ q # r
    BY <1>4 DEF ReadersInv, Homes
  <2>2. addr[q] \in Addresses
    BY <1>5, <2>1 DEF HomeOK
  <2>3. CASE addr[q] # a
    BY <1>1, <1>6, <1>7, <2>1, <2>2, <2>3 DEF HomeOK
  <2>4. CASE addr[q] = a
    <3>1. ASSUME q \notin robbed' PROVE FALSE
      <4>1. table[a] = <<q, "own">>
        BY <1>7, <2>1, <2>4, <3>1 DEF HomeOK
      <4>2. table[a] # NoOne /\ table[a][1] = q
        BY <4>1, VectorReadersAssumption DEF ReadersInv, Typed
      <4>3. table[a] # at[c].gate
        BY <1>4, <2>1, <4>2
      <4> QED
        BY <1>1, <3>1, <4>2, <4>3
    <3> QED
      BY <1>1, <1>6, <2>1, <2>4, <3>1 DEF HomeOK
  <2> QED
    BY <2>3, <2>4
<1>14. Census'
  BY <1>1, <1>2, <1>4, HeldOn DEF Holding
<1> QED
  BY <1>8, <1>9, <1>10, <1>11, <1>12, <1>13, <1>14 DEF ReadersInv

-----------------------------------------------------------------------------
(* Searches and Close: what follows *)

\* Plain and bare readers start with an index at an address of their own, and nobody is there.
LEMMA ReadersInitially == ReadersInit => ReadersInv
<1> SUFFICES ASSUME ReadersInit PROVE ReadersInv
  OBVIOUS
<1> DEFINE Opened == {r \in DOMAIN kinds : kinds[r] # "collection"}
<1>1. /\ kinds \in Layouts /\ kinds \in Seq(ReaderKinds) /\ Len(kinds) <= MaxAddresses
      /\ DOMAIN kinds \subseteq Addresses /\ DOMAIN kinds \subseteq Nat \ {0}
  BY VectorReadersAssumption DEF ReadersInit, ReaderKinds, Addresses
<1>2. /\ view  = [r \in DOMAIN kinds |-> IF r \in Opened THEN "ready" ELSE "none"]
      /\ addr  = [r \in DOMAIN kinds |-> IF r \in Opened THEN r ELSE 0]
      /\ owner = [a \in Addresses |-> IF a \in Opened THEN a ELSE 0]
      /\ table = [a \in Addresses |-> IF a \in Opened THEN <<a, "own">> ELSE NoOne]
      /\ lock = [r \in DOMAIN kinds |-> [inside |-> {}, wanted |-> NoOne]]
      /\ opener = [r \in DOMAIN kinds |-> NoOne]
      /\ shut = [r \in DOMAIN kinds |-> FALSE] /\ snap = [r \in DOMAIN kinds |-> TRUE]
      /\ gates = [g \in Gates |-> NoGate]
      /\ at = [c \in Searchers |-> AtRest] /\ robbed = {}
  BY DEF ReadersInit
<1>3. /\ \A r \in DOMAIN kinds : r \in Opened <=> kinds[r] # "collection"
      /\ Opened \subseteq DOMAIN kinds
  OBVIOUS
<1> HIDE DEF Opened
<1>4. \A c \in Searchers : at[c].pc = "idle" /\ at[c].got = 0
  BY <1>2 DEF AtRest
<1>5. Typed
  <2>1. \A a \in Opened : <<a, "own">> \in Gates
    BY <1>3 DEF Gates
  <2>2. table \in [Addresses -> Gates \cup {NoOne}]
    BY <1>2, <2>1
  <2>3. at \in [Searchers -> AtType]
    BY <1>2 DEF AtRest, AtType, Pcs
  <2>4. gates \in [Gates -> [taken : Int, exclusive : Searchers \cup {NoOne}]]
    BY <1>2 DEF NoGate
  <2>5. lock \in [DOMAIN kinds -> [inside : SUBSET Searchers, wanted : Searchers \cup {NoOne}]]
    BY <1>2
  <2>6. /\ opener \in [DOMAIN kinds -> Searchers \cup {NoOne}]
        /\ view \in [DOMAIN kinds -> {"none", "ready", "closed"}]
        /\ shut \in [DOMAIN kinds -> BOOLEAN] /\ snap \in [DOMAIN kinds -> BOOLEAN]
        /\ addr \in [DOMAIN kinds -> Addresses \cup {0}]
        /\ owner \in [Addresses -> DOMAIN kinds \cup {0}]
        /\ robbed \subseteq DOMAIN kinds
    BY <1>1, <1>2, <1>3
  <2> QED
    BY <1>1, <2>2, <2>3, <2>4, <2>5, <2>6 DEF Typed
<1>6. Positions /\ Empty /\ WithGates
  BY <1>4 DEF Positions, PositionOf, Empty, EmptyOf, WithGates, GateOf, WithGate
<1>7. Locks
  BY <1>2, <1>4, VectorReadersAssumption
     DEF Locks, LocksOf, LockOK, Shares, Closes, AtClose, Opens, IsAt
<1>8. Sees /\ Once
  BY <1>4 DEF Sees, SeesOf, SeesOK, Shares, Closes, AtClose, Opens, IsAt, Once, ClosedOnce
<1>9. Views
  BY <1>2, <1>3 DEF Views, ViewOK
<1>10. Homes
  <2> SUFFICES ASSUME NEW r \in DOMAIN kinds, view[r] = "ready" PROVE HomeOK(r)
    BY DEF Homes, HomeOK
  <2>1. r \in Opened /\ addr[r] = r /\ r # 0 /\ r \in Addresses
    BY <1>1, <1>2
  <2> QED
    BY <1>2, <2>1 DEF HomeOK
<1>11. Census
  <2> SUFFICES ASSUME NEW g \in Gates PROVE CountOf(g)
    BY DEF Census
  <2>1. Permitted(g) = {} /\ Excluding(g) = {}
    BY <1>4 DEF Permitted, Excluding, Holding
  <2>2. gates[g].taken = 0 /\ gates[g].exclusive = NoOne
    BY <1>2 DEF NoGate
  <2>3. 0 <= Cap(g)
    BY VectorReadersAssumption DEF Cap
  <2> QED
    BY <2>1, <2>2, <2>3, FS_EmptySet, VectorReadersAssumption DEF CountOf
<1> QED
  BY <1>5, <1>6, <1>7, <1>8, <1>9, <1>10, <1>11 DEF ReadersInv

\* Every step of every goroutine keeps the invariant.
LEMMA ReadersInductive == ReadersInv /\ [ReadersNext]_readersVars => ReadersInv'
<1> SUFFICES ASSUME ReadersInv, [ReadersNext]_readersVars PROVE ReadersInv'
  OBVIOUS
<1>1. CASE ReadersNext
  <2>1. PICK c \in Searchers :
          \/ \E r \in DOMAIN kinds, op \in {"search", "save", "close"} : BeginCall(c, r, op)
          \/ Continue(c)
    BY <1>1 DEF ReadersNext
  <2>2. CASE \E r \in DOMAIN kinds, op \in {"search", "save", "close"} : BeginCall(c, r, op)
    BY <2>2, BeginCallKeeps
  <2>3. CASE LockShared(c) \/ Want(c) \/ LockAlone(c) \/ CloseSnapshot(c) \/ Unlock(c)
    BY <2>3, LockSharedKeeps, WantKeeps, LockAloneKeeps, CloseSnapshotKeeps, UnlockKeeps
  <2>4. CASE \/ VectorReader(c) \/ OpenFails(c) \/ (\E a \in Addresses : OpenNative(c, a))
             \/ StoreGate(c) \/ ReadText(c)
    BY <2>4, VectorReaderKeeps, OpenFailsKeeps, OpenNativeKeeps, StoreGateKeeps, ReadTextKeeps
  <2>5. CASE FindGate(c) \/ Acquire(c) \/ Exclude(c) \/ TakeAll(c) \/ ReturnPermit(c)
    BY <2>5, FindGateKeeps, AcquireKeeps, ExcludeKeeps, TakeAllKeeps, ReturnPermitKeeps
  <2>6. CASE Destroy(c) \/ DeleteGate(c) \/ ReleaseAll(c)
    BY <2>6, DestroyKeeps, DeleteGateKeeps, ReleaseAllKeeps
  <2> QED
    BY <2>1, <2>2, <2>3, <2>4, <2>5, <2>6 DEF Continue
<1>2. CASE UNCHANGED readersVars
  <2>1. UNCHANGED <<kinds, lock, opener, view, shut, snap, addr, owner, table, gates, at, robbed>>
    BY <1>2 DEF readersVars
  <2>2. Typed' = Typed
    BY <2>1 DEF Typed, AtType, Gates
  <2>3. (Positions' = Positions) /\ (Empty' = Empty)
    BY <2>1 DEF Positions, PositionOf, Empty, EmptyOf
  <2>4. Locks' = Locks
    BY <2>1 DEF Locks, LocksOf, LockOK, Shares, Closes, AtClose, Opens, IsAt
  <2>5. Sees' = Sees
    BY <2>1 DEF Sees, SeesOf, SeesOK, Shares, Closes, AtClose, Opens, IsAt
  <2>6. (Views' = Views) /\ (Once' = Once) /\ (Homes' = Homes)
    BY <2>1 DEF Views, ViewOK, Once, ClosedOnce, AtClose, IsAt, Homes, HomeOK
  <2>7. WithGates' = WithGates
    BY <2>1 DEF WithGates, GateOf, Gates
  <2>8. Census' = Census
    BY <2>1 DEF Census, CountOf, Permitted, Excluding, Cap, Gates
  <2> QED
    BY <2>2, <2>3, <2>4, <2>5, <2>6, <2>7, <2>8 DEF ReadersInv
<1> QED
  BY <1>1, <1>2

\* A call with a permit is at the index of its reader.
LEMMA CallsAreHome == ReadersInv => CallsMeetTheirIndex
<1> SUFFICES ASSUME ReadersInv, NEW c \in Searchers, at[c].pc = "inside"
             PROVE  owner[addr[at[c].reader]] = at[c].reader
  BY DEF CallsMeetTheirIndex, Home
<1>1. SeesOK(at[c].reader, c) /\ HomeOK(at[c].reader)
  BY AtCall DEF Calling
<1> QED
  BY <1>1 DEF SeesOK, HomeOK, IsAt, Calling

\* A search of a collection has the lock that Close needs for itself.
LEMMA SearchesArePinned == ReadersInv => CollectionsStayPinned
<1> SUFFICES ASSUME ReadersInv, NEW c \in Searchers, at[c].op = "search",
                    kinds[at[c].reader] = "collection",
                    at[c].pc \in {"opening", "storing", "reading", "calls", "acquiring", "inside"}
             PROVE  snap[at[c].reader]
  BY DEF CollectionsStayPinned, Kind
<1>1. PositionOf(c) /\ SeesOf(c)
  BY DEF ReadersInv, Positions, Sees
<1>2. at[c].reader \in DOMAIN kinds
  BY <1>1 DEF PositionOf
<1>3. ~shut[at[c].reader]
  BY <1>1, <1>2 DEF SeesOf, SeesOK, Shares, IsAt
<1> QED
  BY <1>2, <1>3 DEF ReadersInv, Views, ViewOK

\* Gates count the calls of the readers that still have theirs.
LEMMA GatesAreKept == ReadersInv => GatesHold
<1> SUFFICES ASSUME ReadersInv, NEW r \in DOMAIN kinds \ robbed
             PROVE  LET Inside == {c \in Searchers : at[c].reader = r /\ at[c].pc = "inside"}
                    IN  /\ Cardinality(Inside) <= Permits
                        /\ (\E c \in Inside : at[c].op # "search") => Cardinality(Inside) = 1
  BY DEF GatesHold
<1> DEFINE Inside == {c \in Searchers : at[c].reader = r /\ at[c].pc = "inside"}
<1>1. PICK g \in Gates : g = <<r, "own">>
  BY DEF Gates
<1>2. Cap(g) = Permits /\ Permits \in Nat \ {0} /\ CountOf(g)
  BY <1>1, VectorReadersAssumption DEF Cap, ReadersInv, Census
<1>3. gates[g].taken \in Int /\ gates[g].exclusive \in Searchers \cup {NoOne}
  BY DEF ReadersInv, Typed
<1>4. \A c \in Inside : c \in Searchers /\ at[c].gate = g /\ at[c].got \in Nat
  BY <1>1 DEF ReadersInv, WithGates, GateOf, WithGate, Typed, AtType
<1>5. \A c \in Inside : /\ at[c].op = "search" => c \in Permitted(g)
                        /\ at[c].op # "search" => c \in Excluding(g)
  BY <1>4 DEF Permitted, Excluding, Holding
<1>6. IsFiniteSet(Permitted(g)) /\ Cardinality(Permitted(g)) \in Nat
  BY <1>2, FS_CardinalityType DEF CountOf
<1>7. Cardinality(Permitted(g)) <= Permits
  <2>1. gates[g].exclusive # NoOne => at[gates[g].exclusive].got \in Nat
    BY <1>3 DEF ReadersInv, Typed, AtType
  <2> QED
    BY <1>2, <1>3, <1>6, <2>1 DEF CountOf
<1>8. CASE \E c \in Inside : at[c].op # "search"
  <2>1. PICK e \in Inside : at[e].op # "search"
    BY <1>8
  <2>2. e \in Excluding(g) /\ gates[g].exclusive = e /\ at[e].got = Permits /\ e \in Searchers
    BY <1>2, <1>5, <2>1 DEF CountOf, Excluding
  <2>3. Cardinality(Permitted(g)) = 0
    BY <1>2, <1>3, <1>6, <2>2, VectorReadersAssumption DEF CountOf
  <2>4. Permitted(g) = {}
    BY <1>6, <2>3, FS_EmptySet
  <2>5. \A d \in Excluding(g) : d = e
    BY <1>2, <2>2 DEF CountOf, Excluding
  <2>6. Inside = {e}
    BY <1>5, <2>4, <2>5
  <2>7. Cardinality(Inside) = 1
    BY <2>6, FS_Singleton
  <2> QED
    BY <1>2, <2>7
<1>9. CASE ~ \E c \in Inside : at[c].op # "search"
  <2>1. Inside \subseteq Permitted(g)
    BY <1>5, <1>9
  <2>2. /\ Cardinality(Inside) <= Cardinality(Permitted(g)) /\ Cardinality(Inside) \in Nat
    <3> HIDE DEF Inside
    <3> QED
      BY <1>6, <2>1, FS_Subset, FS_CardinalityType
  <2>3. Cardinality(Inside) <= Permits
    BY <1>2, <1>6, <1>7, <2>2
  <2> QED
    BY <1>9, <2>3
<1> QED
  BY <1>8, <1>9

\* For any readers, goroutines and sizes of pools, while readers are closed (reader.go,
\* collection_reader.go, vector_usearch_purego.go): a native call of any reader meets the
\* index of its own reader, and a search of a collection has the snapshot that it pins; and a
\* handle that has kept its gate is never called more often at a time than it has contexts,
\* nor beside a call that moves what others read.  The text of a plain reader that is being
\* closed is not in it.
THEOREM NothingIsUsedLater == ReadersSpec => []NothingIsUsedAfterClose
<1>1. ReadersInv => NothingIsUsedAfterClose
  BY CallsAreHome, SearchesArePinned, GatesAreKept DEF NothingIsUsedAfterClose
<1> QED
  BY <1>1, ReadersInitially, ReadersInductive, PTL DEF ReadersSpec

-----------------------------------------------------------------------------
(* Pages of the best matches *)

\* What holds at zero and is kept from each number to the next holds up to the last.
LEMMA OneByOne ==
  ASSUME NEW N \in Nat, NEW G, 0 \in G, \A k \in 1 .. N : k - 1 \in G => k \in G
  PROVE  \A k \in 0 .. N : k \in G
<1> DEFINE bad == {k \in 0 .. N : k \notin G}
<1> SUFFICES ASSUME bad # {} PROVE FALSE
  OBVIOUS
<1>1. bad \in SUBSET Nat
  OBVIOUS
<1>2. PICK k \in bad : \A i \in bad : k <= i
  BY <1>1, LeastNumber
<1>3. k \in 1 .. N /\ k \notin G
  BY <1>2
<1>4. k - 1 \in 0 .. N /\ ~(k <= k - 1)
  BY <1>3
<1>5. k - 1 \in G
  BY <1>2, <1>4
<1> QED
  BY <1>3, <1>5

\* There is a function that is defined step by step.
Steps(g, n, base, step) == g[0] = base /\ \A k \in 1 .. n : g[k] = step[<<g[k - 1], k>>]

\* Any such steps define one.
LEMMA StepByStep ==
  ASSUME NEW N \in Nat, NEW P, NEW base \in P, NEW step \in [P \X (1 .. N) -> P]
  PROVE  \E g \in [0 .. N -> P] : Steps(g, N, base, step)
<1> DEFINE G == {n \in 0 .. N : \E g \in [0 .. n -> P] : Steps(g, n, base, step)}
<1>1. 0 \in G
  <2>1. PICK g : g = [k \in 0 .. 0 |-> base]
    OBVIOUS
  <2>2. g \in [0 .. 0 -> P] /\ Steps(g, 0, base, step)
    BY <2>1 DEF Steps
  <2> QED
    BY <2>2
<1>2. ASSUME NEW n \in 1 .. N, n - 1 \in G
      PROVE  n \in G
  <2>1. PICK g \in [0 .. n - 1 -> P] : Steps(g, n - 1, base, step)
    BY <1>2
  <2>2. PICK h : h = [k \in 0 .. n |-> IF k = n THEN step[<<g[n - 1], n>>] ELSE g[k]]
    OBVIOUS
  <2>3. step[<<g[n - 1], n>>] \in P
    OBVIOUS
  <2>4. \A k \in 0 .. n : k # n => k \in 0 .. n - 1
    OBVIOUS
  <2>5. h \in [0 .. n -> P]
    BY <2>2, <2>3, <2>4
  <2>6. \A k \in 1 .. n : k \in 0 .. n /\ k - 1 \in 0 .. n /\ k - 1 # n
    OBVIOUS
  <2>7. h[0] = base
    BY <2>1, <2>2 DEF Steps
  <2>8. ASSUME NEW k \in 1 .. n PROVE h[k] = step[<<h[k - 1], k>>]
    <3>1. h[k - 1] = g[k - 1]
      BY <2>2, <2>6
    <3>2. CASE k = n
      BY <2>2, <2>6, <3>1, <3>2
    <3>3. CASE k # n
      <4>1. k \in 1 .. n - 1 /\ k \in 0 .. n
        BY <3>3
      <4>2. g[k] = step[<<g[k - 1], k>>]
        BY <2>1, <4>1 DEF Steps
      <4> QED
        BY <2>2, <3>1, <3>3, <4>1, <4>2
    <3> QED
      BY <3>2, <3>3
  <2> QED
    BY <2>5, <2>7, <2>8 DEF Steps
<1> HIDE DEF G
<1>3. N \in G
  BY <1>1, <1>2, OneByOne
<1> QED
  BY <1>3 DEF G

-----------------------------------------------------------------------------
(* The best matches: sums *)

\* The member of a set that a sum takes next.
NextOf(s) == CHOOSE x \in s : TRUE

\* The sums of a function over the subsets of its domain.
SumsOf(h, f) ==
  h = [s \in SUBSET DOMAIN f |-> IF s = {} THEN 0 ELSE f[NextOf(s)] + h[s \ {NextOf(s)}]]

\* A sum over a finite set is defined.
LEMMA SumsExist ==
  ASSUME NEW S, IsFiniteSet(S), NEW f \in [S -> Nat]
  PROVE  \E h : SumsOf(h, f)
<1> DEFINE N == Cardinality(S)
           right(h, s) == h[s] = IF s = {} THEN 0 ELSE f[NextOf(s)] + h[s \ {NextOf(s)}]
           G == {n \in 0 .. N : \E h \in [SUBSET S -> Nat] :
                   \A s \in SUBSET S : Cardinality(s) <= n => right(h, s)}
<1>1. N \in Nat /\ \A s \in SUBSET S : IsFiniteSet(s) /\ Cardinality(s) \in Nat /\ Cardinality(s) <= N
  BY FS_CardinalityType, FS_Subset
<1> HIDE DEF N
<1>2. ASSUME NEW s \in SUBSET S, s # {}
      PROVE  /\ NextOf(s) \in s /\ s \ {NextOf(s)} \in SUBSET S
             /\ Cardinality(s \ {NextOf(s)}) = Cardinality(s) - 1
  <2>1. NextOf(s) \in s
    BY <1>2 DEF NextOf
  <2> QED
    BY <1>1, <2>1, FS_RemoveElement
<1>3. 0 \in G
  <2>1. PICK h : h = [s \in SUBSET S |-> 0]
    OBVIOUS
  <2>2. h \in [SUBSET S -> Nat]
    BY <2>1
  <2>3. \A s \in SUBSET S : Cardinality(s) <= 0 => right(h, s)
    BY <1>1, <2>1, FS_EmptySet
  <2> QED
    BY <1>1, <2>2, <2>3
<1>4. ASSUME NEW n \in 1 .. N, n - 1 \in G PROVE n \in G
  <2>1. PICK h \in [SUBSET S -> Nat] : \A s \in SUBSET S : Cardinality(s) <= n - 1 => right(h, s)
    BY <1>4
  <2>2. PICK g : g = [s \in SUBSET S |-> IF Cardinality(s) = n THEN f[NextOf(s)] + h[s \ {NextOf(s)}] ELSE h[s]]
    OBVIOUS
  <2>3. \A s \in SUBSET S : Cardinality(s) = n => s # {}
    BY <1>1, FS_EmptySet
  <2>4. ASSUME NEW s \in SUBSET S PROVE g[s] \in Nat
    <3>1. CASE Cardinality(s) = n
      <4>1. NextOf(s) \in S /\ s \ {NextOf(s)} \in SUBSET S
        BY <1>2, <2>3, <3>1
      <4> QED
        BY <2>2, <3>1, <4>1
    <3> QED
      BY <2>2, <3>1
  <2>5. g \in [SUBSET S -> Nat]
    BY <2>2, <2>4
  <2>6. ASSUME NEW s \in SUBSET S, Cardinality(s) <= n PROVE right(g, s)
    <3>1. CASE s = {}
      <4>1. Cardinality(s) = 0 /\ Cardinality(s) <= n - 1 /\ Cardinality(s) # n
        BY <3>1, FS_EmptySet
      <4> QED
        BY <2>1, <2>2, <3>1, <4>1
    <3>2. CASE s # {}
      <4> DEFINE r == s \ {NextOf(s)}
      <4>1. r \in SUBSET S /\ Cardinality(r) = Cardinality(s) - 1 /\ Cardinality(s) \in Nat
        BY <1>1, <1>2, <3>2
      <4>2. g[r] = h[r]
        BY <2>2, <2>6, <4>1
      <4>3. g[s] = f[NextOf(s)] + h[r]
        <5>1. CASE Cardinality(s) = n
          BY <2>2, <5>1
        <5>2. CASE Cardinality(s) # n
          <6>1. Cardinality(s) <= n - 1
            BY <2>6, <4>1, <5>2
          <6>2. right(h, s) /\ g[s] = h[s]
            BY <2>1, <2>2, <5>2, <6>1
          <6> QED
            BY <3>2, <6>2
        <5> QED
          BY <5>1, <5>2
      <4> QED
        BY <3>2, <4>2, <4>3
    <3> QED
      BY <3>1, <3>2
  <2> QED
    BY <2>5, <2>6
<1> HIDE DEF G
<1>5. N \in G
  BY <1>1, <1>3, <1>4, OneByOne
<1>6. PICK h \in [SUBSET S -> Nat] : \A s \in SUBSET S : right(h, s)
  BY <1>1, <1>5 DEF G
<1>7. h = [s \in SUBSET S |-> IF s = {} THEN 0 ELSE f[NextOf(s)] + h[s \ {NextOf(s)}]]
  BY <1>6
<1> QED
  BY <1>7 DEF SumsOf

Splits(h, f, S) ==
  /\ h \in [SUBSET S -> Nat] /\ h[{}] = 0
  /\ \A s \in SUBSET S : \A x \in s : h[s] = f[x] + h[s \ {x}]

\* A sum can be taken apart at any place.
LEMMA SumsAre ==
  ASSUME NEW S, IsFiniteSet(S), NEW f \in [S -> Nat], NEW h, SumsOf(h, f)
  PROVE  Splits(h, f, S)
<1> DEFINE N == Cardinality(S)
<1>1. N \in Nat /\ \A s \in SUBSET S : IsFiniteSet(s) /\ Cardinality(s) \in Nat /\ Cardinality(s) <= N
  BY FS_CardinalityType, FS_Subset
<1>2. ASSUME NEW s \in SUBSET S, NEW x \in s
      PROVE  s \ {x} \in SUBSET S /\ Cardinality(s \ {x}) = Cardinality(s) - 1
  BY <1>1, FS_RemoveElement
<1>3. \A s \in SUBSET S : s # {} => NextOf(s) \in s
  BY DEF NextOf
<1>4. \A s \in SUBSET S : h[s] = IF s = {} THEN 0 ELSE f[NextOf(s)] + h[s \ {NextOf(s)}]
  BY DEF SumsOf
<1>5. h = [s \in SUBSET S |-> h[s]]
  BY DEF SumsOf
<1> HIDE DEF N
<1>6. \A s \in SUBSET S : h[s] \in Nat
  <2> DEFINE G == {n \in 0 .. N : \A s \in SUBSET S : Cardinality(s) = n => h[s] \in Nat}
  <2>1. 0 \in G
    <3>1. ASSUME NEW s \in SUBSET S, Cardinality(s) = 0 PROVE h[s] \in Nat
      <4>1. s = {}
        BY <1>1, <3>1, FS_EmptySet
      <4> QED
        BY <1>4, <4>1
    <3> QED
      BY <1>1, <3>1
  <2>2. ASSUME NEW n \in 1 .. N, n - 1 \in G PROVE n \in G
    <3>1. ASSUME NEW s \in SUBSET S, Cardinality(s) = n PROVE h[s] \in Nat
      <4>1. s # {}
        BY <3>1, FS_EmptySet
      <4>2. NextOf(s) \in s /\ s \ {NextOf(s)} \in SUBSET S /\ Cardinality(s \ {NextOf(s)}) = n - 1
        BY <1>2, <1>3, <3>1, <4>1
      <4>3. h[s \ {NextOf(s)}] \in Nat
        BY <2>2, <4>2
      <4>4. f[NextOf(s)] \in Nat
        BY <4>2
      <4>5. h[s] = f[NextOf(s)] + h[s \ {NextOf(s)}]
        BY <1>4, <4>1
      <4>6. ASSUME NEW i \in Nat, NEW k \in Nat PROVE i + k \in Nat
        OBVIOUS
      <4> QED
        BY <4>3, <4>4, <4>5, <4>6
    <3> QED
      BY <3>1
  <2> HIDE DEF G
  <2>3. \A n \in 0 .. N : n \in G
    BY <1>1, <2>1, <2>2, OneByOne
  <2> QED
    BY <1>1, <2>3 DEF G
<1>7. \A s \in SUBSET S : \A x \in s : h[s] = f[x] + h[s \ {x}]
  <2> DEFINE G == {n \in 0 .. N : \A s \in SUBSET S : Cardinality(s) = n => \A x \in s : h[s] = f[x] + h[s \ {x}]}
  <2>1. 0 \in G
    <3>1. \A s \in SUBSET S : Cardinality(s) = 0 => s = {}
      BY <1>1, FS_EmptySet
    <3> QED
      BY <1>1, <3>1
  <2>2. ASSUME NEW n \in 1 .. N, n - 1 \in G PROVE n \in G
    <3>1. ASSUME NEW s \in SUBSET S, Cardinality(s) = n, NEW x \in s PROVE h[s] = f[x] + h[s \ {x}]
      <4> DEFINE c == NextOf(s)
      <4>1. c \in s /\ h[s] = f[c] + h[s \ {c}]
        BY <1>3, <1>4
      <4> HIDE DEF c
      <4>2. CASE c = x
        BY <4>1, <4>2
      <4>3. CASE c # x
        <5>1. /\ s \ {c} \in SUBSET S /\ Cardinality(s \ {c}) = n - 1 /\ x \in s \ {c}
              /\ s \ {x} \in SUBSET S /\ Cardinality(s \ {x}) = n - 1 /\ c \in s \ {x}
          BY <1>2, <3>1, <4>1, <4>3
        <5>2. h[s \ {c}] = f[x] + h[(s \ {c}) \ {x}] /\ h[s \ {x}] = f[c] + h[(s \ {x}) \ {c}]
          BY <2>2, <5>1
        <5>3. (s \ {c}) \ {x} = (s \ {x}) \ {c} /\ (s \ {x}) \ {c} \in SUBSET S
          BY <5>1
        <5>4. PICK m \in Nat : m = h[(s \ {x}) \ {c}]
          BY <1>6, <5>3
        <5>5. f[c] \in Nat /\ f[x] \in Nat
          BY <3>1, <4>1
        <5>6. h[s \ {c}] = f[x] + m /\ h[s \ {x}] = f[c] + m
          BY <5>2, <5>3, <5>4
        <5>7. ASSUME NEW i \in Nat, NEW k \in Nat PROVE i + (k + m) = k + (i + m)
          OBVIOUS
        <5> QED
          BY <4>1, <5>5, <5>6, <5>7
      <4> QED
        BY <4>2, <4>3
    <3> QED
      BY <3>1
  <2> HIDE DEF G
  <2>3. \A n \in 0 .. N : n \in G
    BY <1>1, <2>1, <2>2, OneByOne
  <2> TAKE s \in SUBSET S
  <2>4. Cardinality(s) \in G
    BY <1>1, <2>3
  <2> QED
    BY <2>4 DEF G
<1>8. h \in [SUBSET S -> Nat] /\ h[{}] = 0
  BY <1>4, <1>5, <1>6
<1> QED
  BY <1>7, <1>8 DEF Splits

\* The sum of a function is one of them.
LEMMA SumIs ==
  ASSUME NEW S, IsFiniteSet(S), NEW f \in [S -> Nat]
  PROVE  \E h : SumsOf(h, f) /\ Sum(f) = h[S]
<1> DEFINE sum == CHOOSE h : SumsOf(h, f)
<1>1. SumsOf(sum, f)
  BY SumsExist
<1>2. Sum(f) = sum[S]
  BY DEF Sum, MapThenSumSet, MapThenFoldSet, SumsOf, NextOf
<1> QED
  BY <1>1, <1>2

\* A sum is no greater than one of more in some places, if there is nothing in the others.
LEMMA SumsCompare ==
  ASSUME NEW S, IsFiniteSet(S), NEW f \in [S -> Nat], NEW A \in SUBSET S, NEW g \in [A -> Nat],
         \A x \in S : f[x] = 0 \/ (x \in A /\ f[x] <= g[x])
  PROVE  Sum(f) \in Nat /\ Sum(g) \in Nat /\ Sum(f) <= Sum(g)
<1>1. PICK h : SumsOf(h, f) /\ Sum(f) = h[S]
  BY SumIs
<1>2. IsFiniteSet(A)
  BY FS_Subset
<1>3. PICK e : SumsOf(e, g) /\ Sum(g) = e[A]
  BY <1>2, SumIs
<1>a. Splits(h, f, S) /\ Splits(e, g, A)
  BY <1>1, <1>2, <1>3, SumsAre
<1>4. /\ h \in [SUBSET S -> Nat] /\ h[{}] = 0
      /\ \A s \in SUBSET S : \A x \in s : h[s] = f[x] + h[s \ {x}]
  BY <1>a DEF Splits
<1>5. /\ e \in [SUBSET A -> Nat] /\ e[{}] = 0
      /\ \A s \in SUBSET A : \A x \in s : e[s] = g[x] + e[s \ {x}]
  BY <1>a DEF Splits
<1> DEFINE N == Cardinality(S)
           G == {n \in 0 .. N : \A s \in SUBSET S : Cardinality(s) = n => h[s] <= e[s \cap A]}
<1>6. N \in Nat /\ \A s \in SUBSET S : IsFiniteSet(s) /\ Cardinality(s) \in Nat /\ Cardinality(s) <= N
  BY FS_CardinalityType, FS_Subset
<1> HIDE DEF N
<1>7. 0 \in G
  <2>1. ASSUME NEW s \in SUBSET S, Cardinality(s) = 0 PROVE h[s] <= e[s \cap A]
    <3>1. s = {} /\ s \cap A = {}
      BY <1>6, <2>1, FS_EmptySet
    <3> QED
      BY <1>4, <1>5, <3>1
  <2> QED
    BY <1>6, <2>1
<1>8. ASSUME NEW n \in 1 .. N, n - 1 \in G PROVE n \in G
  <2>1. ASSUME NEW s \in SUBSET S, Cardinality(s) = n PROVE h[s] <= e[s \cap A]
    <3>1. s # {}
      BY <2>1, FS_EmptySet
    <3>2. PICK x : x \in s
      BY <3>1
    <3>3. s \ {x} \in SUBSET S /\ Cardinality(s \ {x}) = n - 1
      BY <1>6, <2>1, <3>2, FS_RemoveElement
    <3>4. h[s \ {x}] <= e[(s \ {x}) \cap A]
      BY <1>8, <3>3
    <3>5. h[s] = f[x] + h[s \ {x}] /\ f[x] \in Nat /\ h[s \ {x}] \in Nat
      BY <1>4, <3>2, <3>3
    <3>6. CASE x \in A
      <4>1. s \cap A \in SUBSET A /\ x \in s \cap A /\ (s \cap A) \ {x} = (s \ {x}) \cap A
        BY <3>2, <3>6
      <4>2. e[s \cap A] = g[x] + e[(s \ {x}) \cap A] /\ (s \ {x}) \cap A \in SUBSET A
        BY <1>5, <4>1
      <4>3. e[(s \ {x}) \cap A] \in Nat /\ g[x] \in Nat /\ f[x] <= g[x]
        BY <1>5, <3>2, <3>6, <4>2
      <4> QED
        BY <3>4, <3>5, <4>2, <4>3
    <3>7. CASE x \notin A
      <4>1. s \cap A = (s \ {x}) \cap A /\ f[x] = 0
        BY <3>2, <3>7
      <4> QED
        BY <3>4, <3>5, <4>1
    <3> QED
      BY <3>6, <3>7
  <2> QED
    BY <2>1
<1> HIDE DEF G
<1>9. N \in G
  BY <1>6, <1>7, <1>8, OneByOne
<1>10. h[S] <= e[S \cap A] /\ S \cap A = A
  BY <1>9 DEF G, N
<1>11. h[S] \in Nat /\ e[A] \in Nat
  BY <1>4, <1>5
<1> QED
  BY <1>1, <1>3, <1>10, <1>11

\* A sum is positive if one of its parts is.
LEMMA SumIsPositive ==
  ASSUME NEW S, IsFiniteSet(S), NEW f \in [S -> Nat]
  PROVE  Sum(f) \in Nat /\ (Sum(f) > 0 <=> \E x \in S : f[x] > 0)
<1>1. PICK h : SumsOf(h, f) /\ Sum(f) = h[S]
  BY SumIs
<1>2. h \in [SUBSET S -> Nat] /\ \A x \in S : h[S] = f[x] + h[S \ {x}]
  <2>1. Splits(h, f, S)
    BY <1>1, SumsAre
  <2> QED
    BY <2>1 DEF Splits
<1>3. ASSUME NEW x \in S, f[x] > 0 PROVE Sum(f) > 0
  <2>1. h[S \ {x}] \in Nat /\ h[S] = f[x] + h[S \ {x}] /\ f[x] \in Nat
    BY <1>2
  <2> QED
    BY <1>1, <1>3, <2>1
<1>4. ASSUME \A x \in S : ~(f[x] > 0) PROVE Sum(f) = 0
  <2>1. PICK g : g = [x \in {} |-> 0]
    OBVIOUS
  <2>2. g \in [{} -> Nat] /\ \A x \in S : f[x] = 0
    BY <1>4, <2>1
  <2>3. Sum(f) \in Nat /\ Sum(g) \in Nat /\ Sum(f) <= Sum(g)
    BY <2>2, SumsCompare
  <2>4. IsFiniteSet({})
    BY FS_EmptySet
  <2>5. PICK e : SumsOf(e, g) /\ Sum(g) = e[{}]
    BY <2>2, <2>4, SumIs
  <2>6. Splits(e, g, {})
    BY <2>2, <2>4, <2>5, SumsAre
  <2>7. e[{}] = 0
    BY <2>6 DEF Splits
  <2> QED
    BY <2>3, <2>5, <2>7
<1> QED
  BY <1>1, <1>2, <1>3, <1>4

-----------------------------------------------------------------------------
(* The best matches: blocks *)

\* What a search is given, and the matches it has passed.
GivenTyped ==
  /\ scores \in [Terms -> Partial] /\ ends \subseteq Documents /\ LastDoc \in ends
  /\ page \in Nat \X Nat /\ way \in {"raw", "collect"}

Passed == {d \in Documents : d < target /\ Score(d) > 0}

\* A term's scores.
LEMMA ScoresAre ==
  ASSUME GivenTyped, NEW t \in Terms
  PROVE  /\ DOMAIN scores[t] \subseteq Documents
         /\ \A d : HasTerm(t, d) => d \in Documents /\ scores[t][d] \in Nat /\ scores[t][d] > 0
                                    /\ scores[t][d] <= MaxScore
<1>1. PICK some \in SUBSET Documents : scores[t] \in [some -> 1 .. MaxScore]
  BY DEF GivenTyped, Partial
<1>2. MaxScore \in Nat
  BY TopNAssumption
<1> QED
  BY <1>1, <1>2 DEF HasTerm

\* A document's score is a number, positive if it has one of the terms.
LEMMA ScoreIs ==
  ASSUME GivenTyped, NEW d
  PROVE  Score(d) \in Nat /\ (Score(d) > 0 <=> \E t \in Terms : HasTerm(t, d))
<1>1. IsFiniteSet(Terms)
  BY TopNAssumption
<1>2. \A t \in Terms : HasTerm(t, d) => scores[t][d] \in Nat /\ scores[t][d] > 0
  BY ScoresAre
<1>3. Share(d) \in [Terms -> Nat]
  BY <1>2 DEF Share
<1>4. \A t \in Terms : Share(d)[t] > 0 <=> HasTerm(t, d)
  BY <1>2 DEF Share
<1> QED
  BY <1>1, <1>3, <1>4, SumIsPositive DEF Score

\* A document is in the segment with the first end that it does not exceed.
LEMMA SegmentIs ==
  ASSUME GivenTyped, NEW d \in Documents
  PROVE  Segment(d) \in ends /\ d <= Segment(d) /\ \A e \in ends : e >= d => Segment(d) <= e
<1> DEFINE S == {e \in ends : e >= d}
<1>1. LastDoc \in Nat /\ LastDoc >= d /\ LastDoc \in ends /\ \A e \in ends : e \in Nat
  BY TopNAssumption DEF GivenTyped, Documents
<1>2. S \in SUBSET Nat /\ LastDoc \in S
  BY <1>1
<1> HIDE DEF S
<1>3. Min(S) \in S /\ \A e \in S : Min(S) <= e
  BY <1>2, LeastNumber
<1>4. Segment(d) = Min(S)
  BY DEF Segment, S
<1> QED
  BY <1>3, <1>4 DEF S

\* The end of a block is in the segment of the block.
LEMMA EndsAre ==
  ASSUME GivenTyped, NEW t \in Terms, NEW e \in BlockEnds(t)
  PROVE  e \in Documents /\ (<<t, Segment(e)>> \notin bare => HasTerm(t, e))
<1>1. DOMAIN scores[t] \subseteq Documents /\ ends \subseteq Documents /\ \A i \in Documents : i \in Nat
  BY ScoresAre, TopNAssumption DEF GivenTyped, Documents
<1>2. PICK s \in Segments(t) : e \in IF <<t, s>> \in bare THEN {s} ELSE Ends(t, s)
  BY DEF BlockEnds
<1>3. s \in ends
  BY <1>1, <1>2, SegmentIs DEF Segments
<1>4. CASE <<t, s>> \in bare
  <2>1. e = s /\ e \in Documents
    BY <1>1, <1>2, <1>3, <1>4
  <2>2. Segment(e) \in Nat /\ e <= Segment(e) /\ Segment(e) <= e /\ e \in Nat
    BY <1>1, <1>3, <2>1, SegmentIs
  <2>3. Segment(e) = s
    BY <2>1, <2>2
  <2> QED
    BY <1>4, <2>1, <2>3
<1>5. CASE <<t, s>> \notin bare
  <2>1. e \in DOMAIN scores[t]
    BY <1>2, <1>5 DEF Ends
  <2> QED
    BY <1>1, <2>1 DEF HasTerm
<1> QED
  BY <1>4, <1>5

\* In the segment of a document that has a term a block of the term ends at the document or later.
LEMMA BlockFollows ==
  ASSUME GivenTyped, NEW t \in Terms, NEW d \in Documents, HasTerm(t, d)
  PROVE  \E e \in BlockEnds(t) : d <= e /\ Segment(e) = Segment(d)
<1> DEFINE s    == Segment(d)
           docs == {c \in DOMAIN scores[t] : Segment(c) = s}
<1>1. LastDoc \in Nat /\ \A i \in Documents : i \in Nat
  BY TopNAssumption DEF Documents
<1>2. s \in Segments(t) /\ s \in ends /\ d <= s /\ s \in Documents
  BY SegmentIs DEF Segments, HasTerm, GivenTyped
<1>3. CASE <<t, s>> \in bare
  <2>1. s \in BlockEnds(t)
    BY <1>2, <1>3 DEF BlockEnds
  <2>2. Segment(s) \in Nat /\ s <= Segment(s) /\ Segment(s) <= s /\ s \in Nat
    BY <1>1, <1>2, SegmentIs DEF GivenTyped
  <2>3. Segment(s) = s
    BY <2>2
  <2> QED
    BY <1>2, <2>1, <2>3
<1>4. CASE <<t, s>> \notin bare
  <2>1. docs \in SUBSET (0 .. LastDoc) /\ d \in docs
    BY ScoresAre DEF HasTerm, Documents
  <2> HIDE DEF docs
  <2>2. Max(docs) \in docs /\ \A c \in docs : c <= Max(docs)
    BY <1>1, <2>1, GreatestNumber
  <2>3. Max(docs) \in Ends(t, s)
    BY <2>2 DEF Ends, docs
  <2>4. Max(docs) \in BlockEnds(t)
    BY <1>2, <1>4, <2>3 DEF BlockEnds
  <2>5. Segment(Max(docs)) = s /\ d <= Max(docs)
    BY <2>1, <2>2 DEF docs
  <2> QED
    BY <2>4, <2>5
<1> QED
  BY <1>3, <1>4

\* The block a term offers is the first that has not been passed.
LEMMA BlockIs ==
  ASSUME GivenTyped, NEW t \in Terms, target \in Nat, Exists(t)
  PROVE  /\ BlockEnd(t) \in BlockEnds(t) /\ BlockEnd(t) \in Documents /\ target <= BlockEnd(t)
         /\ \A e \in BlockEnds(t) : e >= target => BlockEnd(t) <= e
<1> DEFINE S == {e \in BlockEnds(t) : e >= target}
<1>a. S \in SUBSET Documents
  BY EndsAre
<1>b. S # {}
  BY DEF Exists
<1>c. Documents \in SUBSET Nat
  BY TopNAssumption DEF Documents
<1>1. S \in SUBSET Nat /\ S # {} /\ S \in SUBSET Documents
  BY <1>a, <1>b, <1>c
<1> HIDE DEF S
<1>2. Min(S) \in S /\ \A e \in S : Min(S) <= e
  BY <1>1, LeastNumber
<1>3. BlockEnd(t) = Min(S)
  BY DEF BlockEnd, S
<1>4. target <= BlockEnd(t)
  BY <1>1, <1>2, <1>3 DEF S
<1> QED
  BY <1>1, <1>2, <1>3, <1>4 DEF S

\* A document that has a term and was not passed is in the block of the term or behind it.
LEMMA BlockHas ==
  ASSUME GivenTyped, NEW t \in Terms, target \in Nat, NEW d \in Documents, HasTerm(t, d), target <= d
  PROVE  Exists(t) /\ (d <= BlockEnd(t) => InBlock(t, d))
<1>1. PICK e \in BlockEnds(t) : d <= e /\ Segment(e) = Segment(d)
  BY BlockFollows
<1>a. e \in Documents
  BY EndsAre
<1>2. d \in Nat /\ e \in Documents /\ e \in Nat /\ \A i \in Documents : i \in Nat
  BY <1>a, TopNAssumption DEF Documents
<1>3. e >= target
  BY <1>1, <1>2
<1>4. Exists(t)
  BY <1>3 DEF Exists
<1>5. ASSUME d <= BlockEnd(t) PROVE InBlock(t, d)
  <2> DEFINE b == BlockEnd(t)
  <2>1. b \in Documents /\ b <= e /\ target <= b /\ \A i \in BlockEnds(t) : i >= target => b <= i
    BY <1>3, <1>4, BlockIs
  <2> HIDE DEF b
  <2>2. /\ Segment(b) \in ends /\ Segment(d) \in ends /\ b <= Segment(b) /\ e <= Segment(d)
        /\ (\A i \in ends : i >= b => Segment(b) <= i) /\ \A i \in ends : i >= d => Segment(d) <= i
        /\ Segment(b) \in Nat /\ Segment(d) \in Nat /\ b \in Nat
    BY <1>1, <1>2, <2>1, SegmentIs DEF GivenTyped
  <2>3. Segment(b) >= d /\ Segment(d) >= b
    BY <1>2, <1>5, <2>1, <2>2 DEF b
  <2>4. Segment(d) = Segment(b)
    BY <2>2, <2>3
  <2>5. ASSUME NEW i \in BlockEnds(t), i < b PROVE i < d
    <3>1. i \in Nat
      BY <1>2, EndsAre
    <3>2. ~(i >= target)
      BY <2>1, <2>2, <2>5, <3>1
    <3> QED
      BY <1>2, <3>1, <3>2
  <2> QED
    BY <1>5, <2>4, <2>5 DEF InBlock, b
<1> QED
  BY <1>4, <1>5

\* The bound of a block is no less than the scores in it.
LEMMA BoundIs ==
  ASSUME GivenTyped, NEW t \in Terms, target \in Nat, Exists(t), ~Unbounded(t)
  PROVE  Bound(t) \in Nat /\ \A d \in Documents : InBlock(t, d) => scores[t][d] <= Bound(t)
<1> DEFINE S == {scores[t][d] : d \in {c \in Documents : InBlock(t, c)}}
<1>1. MaxScore \in Nat /\ \A i \in Documents : i \in Nat
  BY TopNAssumption DEF Documents
<1>2. S \in SUBSET (0 .. MaxScore)
  BY <1>1, ScoresAre DEF InBlock
<1>3. BlockEnd(t) \in Documents /\ BlockEnd(t) \in BlockEnds(t) /\ BlockEnd(t) \in Nat
  BY <1>1, BlockIs
<1>4. HasTerm(t, BlockEnd(t))
  BY <1>3, EndsAre DEF Unbounded
<1>5. InBlock(t, BlockEnd(t))
  BY <1>3, <1>4 DEF InBlock
<1>6. S # {}
  BY <1>3, <1>5
<1>7. Bound(t) = Max(S)
  BY DEF Bound
<1> HIDE DEF S
<1>8. Max(S) \in S /\ \A i \in S : i <= Max(S)
  BY <1>1, <1>2, <1>6, GreatestNumber
<1> QED
  BY <1>1, <1>2, <1>7, <1>8 DEF S

\* What is left of a range that ends where a block does scores no more than the bounds together.
LEMMA ScoreIsBounded ==
  ASSUME GivenTyped, target \in Nat, NEW active \in SUBSET Terms,
         \A t \in active : Exists(t) /\ ~Unbounded(t),
         NEW d \in Documents, target <= d, \A t \in active : d <= BlockEnd(t),
         \A t \in Terms : HasTerm(t, d) => t \in active
  PROVE  UpperBound(active) \in Nat /\ Score(d) <= UpperBound(active)
<1> DEFINE g == [t \in active |-> Bound(t)]
<1>1. g \in [active -> Nat]
  BY BoundIs
<1>2. IsFiniteSet(Terms)
  BY TopNAssumption
<1>3. Share(d) \in [Terms -> Nat]
  BY ScoresAre DEF Share
<1>4. ASSUME NEW t \in Terms PROVE Share(d)[t] = 0 \/ (t \in active /\ Share(d)[t] <= g[t])
  <2>1. CASE HasTerm(t, d)
    <3>1. t \in active /\ InBlock(t, d)
      BY <2>1, BlockHas
    <3>2. scores[t][d] <= Bound(t)
      BY <3>1, BoundIs
    <3> QED
      BY <2>1, <3>1, <3>2 DEF Share
  <2>2. CASE ~HasTerm(t, d)
    BY <2>2 DEF Share
  <2> QED
    BY <2>1, <2>2
<1> HIDE DEF g
<1>5. Sum(g) \in Nat /\ Sum(Share(d)) <= Sum(g)
  BY <1>1, <1>2, <1>3, <1>4, SumsCompare
<1> QED
  BY <1>5 DEF Score, UpperBound, g

-----------------------------------------------------------------------------
(* The best matches: the order *)

\* Some documents are the best of others, as many as are wanted.
AreBest(some, others) ==
  /\ some \subseteq others /\ Cardinality(some) <= Wanted
  /\ \A d \in others \ some : Cardinality(some) = Wanted /\ \A c \in some : Better(c, d)

Orders ==
  /\ \A d \in Documents : d \in Nat /\ ~Better(d, d)
  /\ \A c, d \in Documents : c # d => Better(c, d) \/ Better(d, c)
  /\ \A c, d \in Documents : ~(Better(c, d) /\ Better(d, c))
  /\ \A b, c, d \in Documents : Better(b, c) /\ Better(c, d) => Better(b, d)

\* Of two documents one is better.
LEMMA BetterOrders == GivenTyped => Orders
<1> SUFFICES ASSUME GivenTyped PROVE Orders
  OBVIOUS
<1>1. \A d \in Documents : d \in Nat /\ Score(d) \in Nat
  BY ScoreIs, TopNAssumption DEF Documents
<1>2. ASSUME NEW i \in Nat, NEW j \in Nat, NEW k \in Nat, NEW x \in Nat, NEW y \in Nat, NEW z \in Nat
      PROVE  /\ ~(x > x \/ (x = x /\ i < i))
             /\ i # j => (x > y \/ (x = y /\ i < j)) \/ (y > x \/ (y = x /\ j < i))
             /\ ~((x > y \/ (x = y /\ i < j)) /\ (y > x \/ (y = x /\ j < i)))
             /\ (x > y \/ (x = y /\ i < j)) /\ (y > z \/ (y = z /\ j < k)) => (x > z \/ (x = z /\ i < k))
  OBVIOUS
<1>3. \A d \in Documents : d \in Nat /\ ~Better(d, d)
  BY <1>1, <1>2 DEF Better
<1>4. \A c, d \in Documents : c # d => Better(c, d) \/ Better(d, c)
  <2> TAKE c, d \in Documents
  <2> QED
    BY <1>1, <1>2 DEF Better
<1>5. \A c, d \in Documents : ~(Better(c, d) /\ Better(d, c))
  <2> TAKE c, d \in Documents
  <2> QED
    BY <1>1, <1>2 DEF Better
<1>6. \A b, c, d \in Documents : Better(b, c) /\ Better(c, d) => Better(b, d)
  <2> TAKE b, c, d \in Documents
  <2> QED
    BY <1>1, <1>2 DEF Better
<1> QED
  BY <1>3, <1>4, <1>5, <1>6 DEF Orders

\* There are finitely many documents.
LEMMA DocumentsAreFew ==
  ASSUME NEW some \in SUBSET Documents
  PROVE  IsFiniteSet(some) /\ Cardinality(some) \in Nat
<1>1. IsFiniteSet(Documents)
  BY TopNAssumption, FS_Interval DEF Documents
<1> QED
  BY <1>1, FS_Subset, FS_CardinalityType

\* Of documents one is the worst.
LEMMA WorstIs ==
  ASSUME GivenTyped, NEW some \in SUBSET Documents, some # {}
  PROVE  Worst(some) \in some /\ \A c \in some \ {Worst(some)} : Better(c, Worst(some))
<1> DEFINE low  == Min({Score(d) : d \in some})
           last == {d \in some : Score(d) = low}
<1>1. LastDoc \in Nat /\ \A d \in some : d \in 0 .. LastDoc /\ d \in Nat /\ Score(d) \in Nat
  BY ScoreIs, TopNAssumption DEF Documents
<1>2. low \in {Score(d) : d \in some} /\ \A i \in {Score(d) : d \in some} : low <= i
  <2> DEFINE S == {Score(d) : d \in some}
  <2>1. S \in SUBSET Nat /\ S # {}
    BY <1>1
  <2> HIDE DEF S
  <2>2. Min(S) \in S /\ \A i \in S : Min(S) <= i
    BY <2>1, LeastNumber
  <2> QED
    BY <2>2 DEF S
<1> HIDE DEF low
<1>3. last \in SUBSET (0 .. LastDoc) /\ last # {}
  BY <1>1, <1>2
<1>4. Max(last) \in last /\ \A d \in last : d <= Max(last)
  <2> HIDE DEF last
  <2> QED
    BY <1>1, <1>3, GreatestNumber
<1> DEFINE w == Max(last)
<1>5. w \in some /\ Score(w) = low /\ \A d \in some : Score(d) = low => d <= w
  BY <1>4
<1> HIDE DEF last, w
<1>6. ASSUME NEW c \in some \ {w} PROVE Better(c, w)
  <2>1. low <= Score(c) /\ low \in Nat /\ Score(c) \in Nat /\ c \in Nat /\ w \in Nat /\ c # w
    BY <1>1, <1>2, <1>5, <1>6
  <2>2. CASE Score(c) = low
    <3>1. c <= w /\ c < w
      BY <1>5, <2>1, <2>2
    <3> QED
      BY <1>5, <2>2, <3>1 DEF Better
  <2>3. CASE Score(c) # low
    <3>1. Score(c) > low
      BY <2>1, <2>3
    <3> QED
      BY <1>5, <3>1 DEF Better
  <2> QED
    BY <2>2, <2>3
<1> QED
  BY <1>5, <1>6 DEF Worst

\* With one more document the worst of them is left out.
LEMMA OneIsLeftOut ==
  ASSUME GivenTyped, NEW others \in SUBSET Documents, NEW some, AreBest(some, others),
         NEW d \in Documents \ others, Cardinality(some) = Wanted,
         NEW w \in some \cup {d}, \A c \in (some \cup {d}) \ {w} : Better(c, w)
  PROVE  AreBest((some \cup {d}) \ {w}, others \cup {d})
<1> DEFINE new == (some \cup {d}) \ {w}
<1>1. some \in SUBSET Documents /\ some \subseteq others /\ d \notin some /\ Orders
  BY BetterOrders DEF AreBest
<1>2. IsFiniteSet(some) /\ Cardinality(some) \in Nat
  BY <1>1, DocumentsAreFew
<1>3. IsFiniteSet(some \cup {d}) /\ Cardinality(some \cup {d}) = Cardinality(some) + 1
  BY <1>1, <1>2, FS_AddElement
<1>4. Cardinality(new) = Wanted
  <2>1. Cardinality(new) = Cardinality(some \cup {d}) - 1
    BY <1>3, FS_RemoveElement
  <2> QED
    BY <1>2, <1>3, <2>1
<1>5. new \subseteq others \cup {d}
  BY <1>1
<1>6. ASSUME NEW x \in (others \cup {d}) \ new, NEW c \in new PROVE Better(c, x)
  <2>1. CASE x = w
    BY <1>6, <2>1
  <2>2. CASE x # w
    <3>1. x \in others \ some
      BY <1>6, <2>2
    <3>2. \A b \in some : Better(b, x)
      BY <3>1 DEF AreBest
    <3>3. CASE c = d
      <4>1. w \in some /\ Better(d, w) /\ Better(w, x)
        BY <1>6, <3>2, <3>3
      <4>2. d \in Documents /\ w \in Documents /\ x \in Documents
        BY <1>1, <3>1, <4>1
      <4> QED
        BY <1>1, <3>3, <4>1, <4>2 DEF Orders
    <3> QED
      BY <1>6, <3>2, <3>3
  <2> QED
    BY <2>1, <2>2
<1>7. Wanted \in Nat
  BY DEF Wanted, GivenTyped
<1> HIDE DEF new
<1> QED
  BY <1>4, <1>5, <1>6, <1>7 DEF AreBest, new

\* While there are too few every document is one of the best.
LEMMA OneIsTaken ==
  ASSUME GivenTyped, NEW others \in SUBSET Documents, NEW some, AreBest(some, others),
         NEW d \in Documents \ others, Cardinality(some) < Wanted
  PROVE  AreBest(some \cup {d}, others \cup {d})
<1>1. some \in SUBSET Documents /\ some \subseteq others /\ d \notin some /\ Wanted \in Nat
  BY DEF AreBest, Wanted, GivenTyped
<1>2. IsFiniteSet(some) /\ Cardinality(some) \in Nat
  BY <1>1, DocumentsAreFew
<1>3. Cardinality(some \cup {d}) = Cardinality(some) + 1
  BY <1>1, <1>2, FS_AddElement
<1>4. others = some
  BY <1>1, <1>2 DEF AreBest
<1> QED
  BY <1>1, <1>2, <1>3, <1>4 DEF AreBest

\* What is not better than the worst is not among the best.
LEMMA NoneIsTaken ==
  ASSUME GivenTyped, NEW others \in SUBSET Documents, NEW some, AreBest(some, others),
         NEW more \in SUBSET Documents, Cardinality(some) = Wanted,
         \A d \in more, c \in some : Better(c, d)
  PROVE  AreBest(some, others \cup more)
  BY DEF AreBest

-----------------------------------------------------------------------------
(* The best matches: places *)

\* In a ranking each document is at the place that is its own.
LEMMA RankingIs ==
  ASSUME GivenTyped, NEW some \in SUBSET Documents
  PROVE  /\ \A n \in 1 .. Cardinality(some) :
              Ranking(some)[n] \in some /\ Cardinality({c \in some : Better(c, Ranking(some)[n])}) = n - 1
         /\ \A d, e \in some :
              Cardinality({c \in some : Better(c, d)}) = Cardinality({c \in some : Better(c, e)}) => d = e
<1> DEFINE above(d) == {c \in some : Better(c, d)}
           rank     == [d \in some |-> Cardinality(above(d)) + 1]
           nth(n)    == CHOOSE d \in Nth(some, n) : TRUE
<1>1. IsFiniteSet(some) /\ Cardinality(some) \in Nat /\ Orders
  BY DocumentsAreFew, BetterOrders
<1>2. \A d \in some : /\ IsFiniteSet(above(d)) /\ Cardinality(above(d)) < Cardinality(some)
                      /\ Cardinality(above(d)) \in Nat
  <2> TAKE d \in some
  <2>1. above(d) \in SUBSET some /\ above(d) # some
    BY <1>1 DEF Orders
  <2> HIDE DEF above
  <2>2. IsFiniteSet(above(d)) /\ Cardinality(above(d)) <= Cardinality(some) /\ Cardinality(above(d)) # Cardinality(some)
    BY <1>1, <2>1, FS_Subset
  <2>3. Cardinality(above(d)) \in Nat
    BY <2>2, FS_CardinalityType
  <2> QED
    BY <1>1, <2>2, <2>3
<1>3. ASSUME NEW d \in some, NEW e \in some, Better(d, e)
      PROVE  Cardinality(above(d)) < Cardinality(above(e))
  <2>1. above(d) \in SUBSET above(e)
    <3> SUFFICES ASSUME NEW c \in some, Better(c, d) PROVE Better(c, e)
      OBVIOUS
    <3>1. c \in Documents /\ d \in Documents /\ e \in Documents
      OBVIOUS
    <3> QED
      BY <1>1, <1>3, <3>1 DEF Orders
  <2>2. d \in above(e) /\ d \notin above(d)
    BY <1>1, <1>3 DEF Orders
  <2>3. above(d) # above(e)
    BY <2>2
  <2>4. IsFiniteSet(above(e)) /\ Cardinality(above(d)) \in Nat /\ Cardinality(above(e)) \in Nat
    BY <1>2
  <2> HIDE DEF above
  <2>5. Cardinality(above(d)) <= Cardinality(above(e)) /\ Cardinality(above(d)) # Cardinality(above(e))
    BY <2>1, <2>3, <2>4, FS_Subset
  <2> QED
    BY <2>4, <2>5
<1> HIDE DEF above
<1>4. ASSUME NEW d \in some, NEW e \in some, Cardinality(above(d)) = Cardinality(above(e)) PROVE d = e
  <2>1. Better(d, e) \/ Better(e, d) \/ d = e
    BY <1>1 DEF Orders
  <2>2. Cardinality(above(d)) \in Nat
    BY <1>2
  <2> QED
    BY <1>3, <1>4, <2>1, <2>2
<1>5. rank \in Bijection(some, 1 .. Cardinality(some))
  <2>1. rank \in [some -> 1 .. Cardinality(some)]
    BY <1>1, <1>2
  <2>2. \A d, e \in some : rank[d] = rank[e] => d = e
    <3> TAKE d, e \in some
    <3>1. Cardinality(above(d)) \in Nat /\ Cardinality(above(e)) \in Nat
      BY <1>2
    <3>2. rank[d] = rank[e] => Cardinality(above(d)) = Cardinality(above(e))
      BY <3>1
    <3> QED
      BY <1>4, <3>2
  <2>3. rank \in Injection(some, 1 .. Cardinality(some))
    BY <2>1, <2>2 DEF Injection, IsInjective
  <2>4. IsFiniteSet(1 .. Cardinality(some)) /\ Cardinality(1 .. Cardinality(some)) = Cardinality(some)
    BY <1>1, FS_Interval
  <2> QED
    BY <1>1, <2>3, <2>4, FS_Injection DEF Bijection
<1>6. \A n \in 1 .. Cardinality(some) : nth(n) \in some /\ Cardinality(above(nth(n))) = n - 1
  <2> TAKE n \in 1 .. Cardinality(some)
  <2>1. PICK d \in some : rank[d] = n
    BY <1>5 DEF Bijection, Surjection
  <2>2. Cardinality(above(d)) = n - 1
    BY <1>2, <2>1
  <2>3. Nth(some, n) = {e \in some : Cardinality(above(e)) = n - 1}
    BY DEF Nth, above
  <2> QED
    BY <2>2, <2>3
<1>7. Ranking(some) = [n \in 1 .. Cardinality(some) |-> nth(n)]
  BY DEF Ranking, above
<1> HIDE DEF nth
<1>8. ASSUME NEW n \in 1 .. Cardinality(some)
      PROVE  Ranking(some)[n] \in some /\ Cardinality(above(Ranking(some)[n])) = n - 1
  BY <1>6, <1>7
<1> QED
  BY <1>4, <1>8 DEF above

\* The best are at the first places, as many as are wanted.
LEMMA BestAreFirst ==
  ASSUME GivenTyped, NEW others \in SUBSET Documents, NEW some, AreBest(some, others)
  PROVE  /\ Cardinality(some) = Min({Wanted, Cardinality(others)})
         /\ \A n \in 1 .. Cardinality(some) : Ranking(some)[n] = Ranking(others)[n]
         /\ Cardinality(some) <= Cardinality(others)
<1>1. some \in SUBSET Documents /\ some \subseteq others /\ Orders /\ Wanted \in Nat /\ Cardinality(some) <= Wanted
  BY BetterOrders DEF AreBest, GivenTyped, Wanted
<1>2. /\ IsFiniteSet(others) /\ Cardinality(some) \in Nat /\ Cardinality(others) \in Nat
      /\ Cardinality(some) <= Cardinality(others)
  BY <1>1, DocumentsAreFew, FS_Subset
<1>3. Cardinality(some) = Wanted \/ some = others
  BY <1>1 DEF AreBest
<1>4. Cardinality(some) = Min({Wanted, Cardinality(others)})
  <2> DEFINE S == {Wanted, Cardinality(others)}
  <2>1. S \in SUBSET Nat /\ S # {}
    BY <1>1, <1>2
  <2>2. Min(S) \in S /\ Min(S) <= Wanted /\ Min(S) <= Cardinality(others)
    <3> HIDE DEF S
    <3>1. Min(S) \in S /\ \A i \in S : Min(S) <= i
      BY <2>1, LeastNumber
    <3> QED
      BY <3>1 DEF S
  <2>3. PICK m : m = Min(S)
    OBVIOUS
  <2>4. (m = Wanted \/ m = Cardinality(others)) /\ m <= Wanted /\ m <= Cardinality(others)
    BY <2>2, <2>3
  <2>5. m = Cardinality(some)
    BY <1>1, <1>2, <1>3, <2>4
  <2> QED
    BY <2>3, <2>5
<1>5. ASSUME NEW d \in some PROVE {c \in others : Better(c, d)} = {c \in some : Better(c, d)}
  <2>1. ASSUME NEW c \in others \ some, Better(c, d) PROVE FALSE
    <3>1. Better(d, c) /\ c \in Documents /\ d \in Documents
      BY <1>1, <2>1 DEF AreBest
    <3> QED
      BY <1>1, <2>1, <3>1 DEF Orders
  <2> QED
    BY <1>1, <2>1
<1>6. ASSUME NEW n \in 1 .. Cardinality(some) PROVE Ranking(some)[n] = Ranking(others)[n]
  <2> DEFINE d == Ranking(some)[n]
             e == Ranking(others)[n]
  <2>1. d \in some /\ Cardinality({c \in some : Better(c, d)}) = n - 1
    BY <1>1, RankingIs
  <2>2. n \in 1 .. Cardinality(others)
    BY <1>2
  <2>3. e \in others /\ Cardinality({c \in others : Better(c, e)}) = n - 1
    BY <2>2, RankingIs
  <2> HIDE DEF d, e
  <2>4. d \in others /\ Cardinality({c \in others : Better(c, d)}) = n - 1
    BY <1>1, <1>5, <2>1
  <2>5. \A x, y \in others : Cardinality({c \in others : Better(c, x)}) = Cardinality({c \in others : Better(c, y)}) => x = y
    BY RankingIs
  <2>6. d = e
    BY <2>3, <2>4, <2>5
  <2> QED
    BY <2>6 DEF d, e
<1> QED
  BY <1>2, <1>4, <1>6

-----------------------------------------------------------------------------
(* The best matches: the search *)

\* So far the best of what has been passed are kept, and a term without blocks has none to come.
TopInv ==
  /\ GivenTyped /\ cursors \subseteq Terms /\ target \in Nat
  /\ AreBest(best, Passed)
  /\ outside # -1 => outside \in Passed \ best
  /\ way = "raw" => outside = -1 /\ \A t \in Terms \ cursors : ~Exists(t)
  /\ PageIsExact

\* At first nothing has been passed.
LEMMA TopInitially == TopInit => TopInv
<1> SUFFICES ASSUME TopInit PROVE TopInv
  OBVIOUS
<1>1. GivenTyped
  <2>1. ends \subseteq Documents /\ LastDoc \in ends
    BY TopNAssumption DEF TopInit, Documents
  <2>2. page \in Nat \X Nat
    BY TopNAssumption DEF TopInit
  <2> QED
    BY <2>1, <2>2 DEF TopInit, GivenTyped
<1>2. Passed = {}
  BY TopNAssumption DEF TopInit, Passed, Documents
<1>3. AreBest(best, Passed)
  <2>1. Wanted \in Nat
    BY <1>1 DEF GivenTyped, Wanted
  <2> QED
    BY <1>2, <2>1, FS_EmptySet DEF TopInit, AreBest
<1> QED
  BY <1>1, <1>3 DEF TopInit, TopInv, PageIsExact

\* While the index and the query stay, so do scores, blocks and the order.
LEMMA GivenStays ==
  ASSUME UNCHANGED given
  PROVE  /\ GivenTyped' = GivenTyped /\ Wanted' = Wanted
         /\ \A d : Score(d)' = Score(d)
         /\ \A c, d : Better(c, d)' = Better(c, d)
         /\ \A s, o : AreBest(s, o)' = AreBest(s, o)
         /\ \A t : BlockEnds(t)' = BlockEnds(t)
<1>1. scores' = scores /\ ends' = ends /\ bare' = bare /\ page' = page /\ way' = way
  BY DEF given
<1>2. GivenTyped' = GivenTyped /\ Wanted' = Wanted
  BY <1>1 DEF GivenTyped, Wanted
<1>3. \A d : Score(d)' = Score(d)
  BY <1>1 DEF Score, Share, HasTerm
<1>4. \A c, d : Better(c, d)' = Better(c, d)
  BY <1>3 DEF Better
<1>5. \A s, o : AreBest(s, o)' = AreBest(s, o)
  BY <1>2, <1>4 DEF AreBest
<1>6. \A t : BlockEnds(t)' = BlockEnds(t)
  <2>1. \A d : Segment(d)' = Segment(d)
    BY <1>1 DEF Segment
  <2>2. \A t, e : Ends(t, e)' = Ends(t, e)
    BY <1>1, <2>1 DEF Ends
  <2>3. \A t : Segments(t)' = Segments(t)
    BY <1>1, <2>1 DEF Segments
  <2> QED
    BY <1>1, <2>2, <2>3 DEF BlockEnds
<1> QED
  BY <1>2, <1>3, <1>4, <1>5, <1>6

\* The same documents have the same ranking.
LEMMA RankingStays ==
  ASSUME UNCHANGED given
  PROVE  \A some : Ranking(some)' = Ranking(some)
<1>1. \A c, d : Better(c, d)' = Better(c, d)
  BY GivenStays
<1>2. ASSUME NEW some PROVE Ranking(some)' = Ranking(some)
  <2>1. ASSUME NEW d PROVE {c \in some : Better(c, d)}' = {c \in some : Better(c, d)}
    BY <1>1
  <2>2. ASSUME NEW n, NEW d
        PROVE  (Cardinality({c \in some : Better(c, d)}) = n - 1)'
                 <=> Cardinality({c \in some : Better(c, d)}) = n - 1
    BY <2>1
  <2>3. ASSUME NEW n PROVE Nth(some, n)' = Nth(some, n)
    BY <2>2 DEF Nth
  <2> QED
    BY <2>3 DEF Ranking
<1> QED
  BY <1>2

\* One document after another, the best of all are kept.
LEMMA WithEachIs ==
  ASSUME GivenTyped, Wanted > 0, NEW others \in SUBSET Documents, AreBest(best, others),
         NEW docs \in SUBSET Documents, docs \cap others = {}
  PROVE  AreBest(WithEach(docs), others \cup docs)
<1> DEFINE N == LastDoc + 1
           P == SUBSET Documents
           Add(d, some) == IF Cardinality(some) < Wanted THEN some \cup {d}
                           ELSE IF Better(d, Worst(some)) THEN (some \ {Worst(some)}) \cup {d}
                           ELSE some
           One(n, some) == IF n - 1 \in docs THEN Add(n - 1, some) ELSE some
           next(h) == [n \in 0 .. N |-> IF n = 0 THEN best
                                        ELSE IF n - 1 \in docs THEN Add(n - 1, h[n - 1]) ELSE h[n - 1]]
           step    == [x \in P \X (1 .. N) |-> One(x[2], x[1])]
           after   == CHOOSE h : h = next(h)
<1>1. WithEach(docs) = after[N]
  BY DEF WithEach
<1>2. N \in Nat /\ Orders /\ Wanted \in Nat
  BY TopNAssumption, BetterOrders DEF GivenTyped, Wanted
<1>3. best \in P
  BY DEF AreBest
<1>4. \A n, some : some \in P => One(n, some) \in P
  OBVIOUS
<1>5. step \in [P \X (1 .. N) -> P] /\ \A s \in P, n \in 1 .. N : step[<<s, n>>] = One(n, s)
  <2> HIDE DEF One, P
  <2> QED
    BY <1>4
<1>6. \A n \in 0 .. N : n # 0 => n \in 1 .. N
  BY <1>2
<1>7. \A n \in 1 .. N : n \in 0 .. N /\ n - 1 \in 0 .. N /\ n # 0
  BY <1>2
<1> HIDE DEF N, P, step
<1>8. PICK g \in [0 .. N -> P] : Steps(g, N, best, step)
  BY <1>2, <1>3, <1>5, StepByStep
<1>9. g = next(g)
  <2>1. ASSUME NEW n \in 0 .. N
        PROVE  g[n] = IF n = 0 THEN best ELSE One(n, g[n - 1])
    <3>1. CASE n = 0
      BY <1>8, <3>1 DEF Steps
    <3>2. CASE n # 0
      <4>1. n \in 1 .. N /\ n - 1 \in 0 .. N
        BY <1>6, <1>7, <3>2
      <4>2. g[n] = step[<<g[n - 1], n>>] /\ g[n - 1] \in P
        BY <1>8, <4>1 DEF Steps
      <4> HIDE DEF One
      <4> QED
        BY <1>5, <3>2, <4>1, <4>2
    <3> QED
      BY <3>1, <3>2
  <2>2. g = [n \in 0 .. N |-> g[n]]
    OBVIOUS
  <2> QED
    BY <2>1, <2>2
<1>10. after = next(after)
  BY <1>9
<1> HIDE DEF after
<1>11. after[0] = best /\ \A n \in 1 .. N : after[n] = One(n, after[n - 1])
  <2>1. \A n \in 0 .. N : after[n] = IF n = 0 THEN best ELSE One(n, after[n - 1])
    BY <1>10
  <2>2. 0 \in 0 .. N
    BY <1>2
  <2> QED
    BY <1>7, <2>1, <2>2
<1> DEFINE upto(n) == others \cup {d \in docs : d < n}
           G == {n \in 0 .. N : AreBest(after[n], upto(n))}
<1>12. \A d \in docs : d \in Nat /\ d < N /\ d \in Documents \ others
  BY TopNAssumption DEF Documents, N
<1>13. 0 \in G
  <2>1. upto(0) = others
    BY <1>12
  <2>2. after[0] = best /\ 0 \in 0 .. N
    BY <1>2, <1>11
  <2> HIDE DEF upto
  <2> QED
    BY <2>1, <2>2
<1>14. ASSUME NEW n \in 1 .. N, n - 1 \in G PROVE n \in G
  <2> DEFINE d == n - 1
             some == after[n - 1]
  <2>1. AreBest(some, upto(d)) /\ upto(d) \in SUBSET Documents /\ after[n] = One(n, some)
    BY <1>11, <1>14
  <2>2. n \in Nat /\ d \in Nat /\ n = d + 1
    BY <1>2
  <2>3. CASE d \notin docs
    <3>1. upto(n) = upto(d)
      <4>1. \A c \in docs : c < n <=> c < d
        BY <1>12, <2>2, <2>3
      <4> QED
        BY <4>1
    <3>2. after[n] = some
      BY <2>1, <2>3
    <3> QED
      BY <1>7, <2>1, <3>1, <3>2
  <2>4. CASE d \in docs
    <3>1. upto(n) = upto(d) \cup {d}
      <4>1. \A c \in docs : c < n <=> (c < d \/ c = d)
        BY <1>12, <2>2
      <4> QED
        BY <2>4, <4>1
    <3>2. d \in Documents \ upto(d)
      BY <1>12, <2>2, <2>4
    <3>3. after[n] = Add(d, some)
      BY <2>1, <2>4
    <3>4. some \subseteq upto(d) /\ some \in SUBSET Documents /\ d \notin some /\ d \in Documents
          /\ Cardinality(some) <= Wanted /\ Cardinality(some) \in Nat
      BY <2>1, <3>2, DocumentsAreFew DEF AreBest
    <3> HIDE DEF upto, d, some
    <3>5. CASE Cardinality(some) < Wanted
      <4>1. AreBest(some \cup {d}, upto(d) \cup {d})
        BY <2>1, <3>2, <3>5, OneIsTaken
      <4> QED
        BY <1>7, <3>1, <3>3, <3>5, <4>1
    <3>6. CASE ~(Cardinality(some) < Wanted)
      <4>1. Cardinality(some) = Wanted
        BY <1>2, <3>4, <3>6
      <4>2. some # {}
        BY <1>2, <4>1, FS_EmptySet
      <4> DEFINE w == Worst(some)
      <4>3. w \in some /\ \A c \in some \ {w} : Better(c, w)
        BY <3>4, <4>2, WorstIs
      <4> HIDE DEF w
      <4>4. CASE Better(d, w)
        <5>1. \A c \in (some \cup {d}) \ {w} : Better(c, w)
          BY <4>3, <4>4
        <5>2. AreBest((some \cup {d}) \ {w}, upto(d) \cup {d})
          BY <2>1, <3>2, <4>1, <4>3, <5>1, OneIsLeftOut
        <5>3. (some \cup {d}) \ {w} = (some \ {w}) \cup {d}
          BY <3>4, <4>3
        <5>4. after[n] = (some \ {w}) \cup {d}
          BY <3>3, <3>6, <4>4 DEF w
        <5> QED
          BY <1>7, <3>1, <5>2, <5>3, <5>4
      <4>5. CASE ~Better(d, w)
        <5>1. w \in Documents /\ d \in Documents /\ w # d
          BY <3>4, <4>3
        <5>2. Better(w, d)
          BY <1>2, <4>5, <5>1 DEF Orders
        <5>3. ASSUME NEW c \in some PROVE Better(c, d)
          <6>1. c \in Documents
            BY <3>4
          <6>2. c = w \/ Better(c, w)
            BY <4>3
          <6> QED
            BY <1>2, <5>1, <5>2, <6>1, <6>2 DEF Orders
        <5>4. AreBest(some, upto(d) \cup {d})
          BY <2>1, <3>4, <4>1, <5>3, NoneIsTaken
        <5>5. after[n] = some
          BY <3>3, <3>6, <4>5 DEF w
        <5> QED
          BY <1>7, <3>1, <5>4, <5>5
      <4> QED
        BY <4>4, <4>5
    <3> QED
      BY <3>5, <3>6
  <2> QED
    BY <2>3, <2>4
<1> HIDE DEF G, upto
<1>15. N \in 0 .. N /\ \A n \in 0 .. N : n \in G
  BY <1>2, <1>13, <1>14, OneByOne
<1>16. AreBest(after[N], upto(N))
  BY <1>15 DEF G
<1>17. upto(N) = others \cup docs
  BY <1>12 DEF upto
<1> QED
  BY <1>1, <1>16, <1>17

\* No block that is left out has one of the best.
LEMMA RawBlockKeeps == ASSUME TopInv, RawBlock PROVE TopInv'
<1> DEFINE active   == {t \in cursors : Exists(t)}
           rangeEnd == Min({BlockEnd(t) : t \in active})
           hopeless == /\ \A t \in active : ~Unbounded(t)
                       /\ Cardinality(best) = Wanted /\ UpperBound(active) <= Score(Worst(best))
           these    == {d \in target .. rangeEnd : \E t \in active : HasTerm(t, d)}
<1>1. /\ way = "raw" /\ found = "none" /\ Wanted > 0 /\ active # {}
      /\ cursors' = active /\ target' = rangeEnd + 1
      /\ best' = IF hopeless THEN best ELSE WithEach(these)
      /\ UNCHANGED <<given, outside, found>>
  BY DEF RawBlock
<1>2. /\ GivenTyped /\ cursors \subseteq Terms /\ target \in Nat /\ AreBest(best, Passed)
      /\ outside = -1 /\ \A t \in Terms \ cursors : ~Exists(t)
  BY <1>1 DEF TopInv
<1>3. \A i \in Documents : i \in Nat /\ i \in 0 .. LastDoc
  BY TopNAssumption DEF Documents
<1>4. active \subseteq Terms /\ \A t \in active : Exists(t)
  BY <1>2
<1>5. rangeEnd \in Documents /\ target <= rangeEnd /\ \A t \in active : rangeEnd <= BlockEnd(t)
  <2> DEFINE S == {BlockEnd(t) : t \in active}
  <2>1. \A t \in active : BlockEnd(t) \in Documents /\ target <= BlockEnd(t)
    BY <1>2, <1>4, BlockIs
  <2>2. S \in SUBSET Nat /\ S # {} /\ S \subseteq Documents /\ \A e \in S : target <= e
    BY <1>1, <1>3, <2>1
  <2> HIDE DEF S
  <2>3. Min(S) \in S /\ \A e \in S : Min(S) <= e
    BY <2>2, LeastNumber
  <2> HIDE DEF active
  <2> QED
    BY <2>2, <2>3 DEF S
<1>6. ASSUME NEW t \in Terms, NEW d \in Documents, HasTerm(t, d), target <= d PROVE t \in active
  <2>1. Exists(t)
    BY <1>2, <1>6, BlockHas
  <2> QED
    BY <1>2, <2>1
<1> HIDE DEF active, rangeEnd
<1>7. these \in SUBSET Documents /\ these \cap Passed = {}
  <2>1. LastDoc \in Nat /\ \A d \in target .. rangeEnd : d \in Documents /\ ~(d < target)
    BY <1>2, <1>3, <1>5, TopNAssumption DEF Documents
  <2> QED
    BY <2>1 DEF Passed
<1>8. Passed' = Passed \cup these
  <2>1. Passed' = {d \in Documents : d < rangeEnd + 1 /\ Score(d) > 0}
    BY <1>1, GivenStays DEF Passed, Documents
  <2>2. ASSUME NEW d \in Documents PROVE (d < rangeEnd + 1 /\ Score(d) > 0) <=> (d \in Passed \/ d \in these)
    <3>1. d \in Nat /\ rangeEnd \in Nat /\ target \in Nat /\ target <= rangeEnd
      BY <1>2, <1>3, <1>5
    <3>2. Score(d) > 0 <=> \E t \in Terms : HasTerm(t, d)
      BY <1>2, ScoreIs
    <3>3. CASE d < target
      <4>1. d < rangeEnd + 1 /\ d \notin target .. rangeEnd
        BY <3>1, <3>3
      <4> QED
        BY <3>3, <4>1 DEF Passed
    <3>4. CASE ~(d < target)
      <4>1. target <= d /\ (d < rangeEnd + 1 <=> d \in target .. rangeEnd) /\ d \notin Passed
        BY <3>1, <3>4 DEF Passed
      <4>2. (\E t \in Terms : HasTerm(t, d)) <=> \E t \in active : HasTerm(t, d)
        BY <1>4, <1>6, <4>1
      <4> QED
        BY <3>2, <4>1, <4>2
    <3> QED
      BY <3>3, <3>4
  <2> QED
    BY <1>7, <2>1, <2>2 DEF Passed
<1> HIDE DEF these
<1>9. Passed \in SUBSET Documents
  BY DEF Passed
<1>10. AreBest(best', Passed \cup these)
  <2>1. CASE hopeless
    <3>1. best # {} /\ best \in SUBSET Documents /\ best \subseteq Passed
      BY <1>1, <1>2, <1>9, <2>1, FS_EmptySet DEF AreBest
    <3> DEFINE w == Worst(best)
    <3>2. w \in best /\ \A c \in best \ {w} : Better(c, w)
      BY <1>2, <3>1, WorstIs
    <3>3. UpperBound(active) <= Score(w)
      BY <2>1
    <3> HIDE DEF w
    <3>4. ASSUME NEW d \in these, NEW c \in best PROVE Better(c, d)
      <4>1. d \in Documents /\ d \in target .. rangeEnd /\ d \in Nat /\ rangeEnd \in Nat
        BY <1>3, <1>5, <1>7 DEF these
      <4>2. target <= d /\ \A t \in active : d <= BlockEnd(t)
        <5>1. target <= d /\ d <= rangeEnd
          BY <4>1
        <5>2. ASSUME NEW t \in active PROVE d <= BlockEnd(t)
          <6>1. BlockEnd(t) \in Nat /\ rangeEnd <= BlockEnd(t)
            BY <1>2, <1>3, <1>4, <1>5, BlockIs
          <6> QED
            BY <4>1, <5>1, <6>1
        <5> QED
          BY <5>1, <5>2
      <4>3. UpperBound(active) \in Nat /\ Score(d) <= UpperBound(active)
        <5>1. \A t \in active : Exists(t) /\ ~Unbounded(t)
          BY <1>4, <2>1
        <5>2. \A t \in Terms : HasTerm(t, d) => t \in active
          BY <1>6, <4>1, <4>2
        <5> QED
          BY <1>2, <1>4, <4>1, <4>2, <5>1, <5>2, ScoreIsBounded
      <4>4. Score(w) \in Nat /\ Score(d) \in Nat /\ w \in Documents /\ w \in Nat /\ w < target
        BY <1>2, <1>3, <3>1, <3>2, ScoreIs DEF Passed
      <4>5. Score(d) <= Score(w) /\ w < d
        BY <1>2, <3>3, <4>1, <4>2, <4>3, <4>4
      <4>6. Better(w, d)
        BY <4>4, <4>5 DEF Better
      <4>7. c = w \/ Better(c, w)
        BY <3>2
      <4>8. c \in Documents /\ Orders
        BY <1>2, <3>1, BetterOrders
      <4> QED
        BY <4>1, <4>4, <4>6, <4>7, <4>8 DEF Orders
    <3>5. AreBest(best, Passed \cup these)
      BY <1>2, <1>7, <1>9, <2>1, <3>4, NoneIsTaken
    <3> QED
      BY <1>1, <2>1, <3>5
  <2>2. CASE ~hopeless
    <3>1. AreBest(WithEach(these), Passed \cup these)
      BY <1>1, <1>2, <1>7, <1>9, WithEachIs
    <3> QED
      BY <1>1, <2>2, <3>1
  <2> QED
    BY <2>1, <2>2
<1>11. GivenTyped' /\ cursors' \subseteq Terms /\ target' \in Nat /\ AreBest(best, Passed)' /\ PageIsExact'
  <2>2. target' \in Nat
    BY <1>1, <1>3, <1>5
  <2>3. GivenTyped'
    BY <1>1, <1>2, GivenStays
  <2>4. AreBest(best, Passed)'
    BY <1>1, <1>8, <1>10, GivenStays
  <2>5. PageIsExact'
    BY <1>1 DEF PageIsExact
  <2> QED
    BY <1>1, <1>4, <2>2, <2>3, <2>4, <2>5
<1>12. outside' = -1
  BY <1>1, <1>2
<1>13. way' = "raw" => outside' = -1 /\ \A t \in (Terms \ cursors)' : ~Exists(t)'
  <2>1. ASSUME NEW t \in Terms \ active, NEW e \in BlockEnds(t), e >= rangeEnd + 1 PROVE FALSE
    <3>1. e \in Nat /\ rangeEnd \in Nat
      BY <1>2, <1>3, <1>5, EndsAre
    <3>2. e >= target
      BY <1>2, <1>5, <2>1, <3>1
    <3>3. Exists(t)
      BY <3>2 DEF Exists
    <3> QED
      BY <1>2, <2>1, <3>3 DEF active
  <2>2. \A t : BlockEnds(t)' = BlockEnds(t)
    BY <1>1, GivenStays
  <2> QED
    BY <1>1, <1>12, <2>1, <2>2 DEF Exists
<1> QED
  BY <1>11, <1>12, <1>13 DEF TopInv

\* What is not tried has been found worse than as many as are wanted.
LEMMA CollectSingleKeeps == ASSUME TopInv, CollectSingle PROVE TopInv'
<1> DEFINE hits == {d \in Documents : d >= target /\ Score(d) > 0}
           d    == Min(hits)
           all  == best \cup {d}
<1>1. /\ way = "collect" /\ found = "none" /\ hits # {} /\ target' = d + 1
      /\ IF outside # -1 /\ ~Better(d, outside) THEN UNCHANGED <<best, outside>>
         ELSE IF Cardinality(all) <= Wanted THEN best' = all /\ UNCHANGED outside
         ELSE /\ best' = all \ {Worst(all)}
              /\ outside' = IF outside = -1 \/ Better(Worst(all), outside) THEN Worst(all)
                                                                          ELSE outside
      /\ UNCHANGED <<given, cursors, found>>
  BY DEF CollectSingle
<1>2. /\ GivenTyped /\ cursors \subseteq Terms /\ target \in Nat /\ AreBest(best, Passed)
      /\ outside # -1 => outside \in Passed \ best
  BY DEF TopInv
<1>3. Orders /\ \A i \in Documents : i \in Nat
  BY <1>2, BetterOrders, TopNAssumption DEF Documents
<1>4. d \in Documents /\ d >= target /\ Score(d) > 0 /\ \A i \in hits : d <= i
  <2>1. hits \in SUBSET Nat
    BY <1>3
  <2> HIDE DEF hits
  <2>2. Min(hits) \in hits /\ \A i \in hits : Min(hits) <= i
    BY <1>1, <2>1, LeastNumber
  <2> QED
    BY <2>2 DEF hits
<1> HIDE DEF d
<1>5. Passed \in SUBSET Documents /\ d \in Documents \ Passed
  BY <1>2, <1>3, <1>4 DEF Passed
<1>6. Passed' = Passed \cup {d}
  <2>1. Passed' = {i \in Documents : i < d + 1 /\ Score(i) > 0}
    BY <1>1, GivenStays DEF Passed, Documents
  <2>2. ASSUME NEW i \in Documents, Score(i) > 0 PROVE i < d + 1 <=> (i < target \/ i = d)
    <3>1. i \in Nat /\ d \in Nat /\ d >= target /\ target \in Nat
      BY <1>2, <1>3, <1>4
    <3>2. i >= target => d <= i
      BY <1>4, <2>2
    <3> QED
      BY <3>1, <3>2
  <2> QED
    BY <1>4, <2>1, <2>2 DEF Passed
<1> HIDE DEF hits
<1>7. best \in SUBSET Documents /\ best \subseteq Passed /\ d \notin best /\ Cardinality(best) <= Wanted
      /\ Wanted \in Nat /\ IsFiniteSet(best) /\ Cardinality(best) \in Nat
  <2>1. best \in SUBSET Documents
    BY <1>2, <1>5 DEF AreBest
  <2> QED
    BY <1>2, <1>5, <2>1, DocumentsAreFew DEF AreBest, Wanted, GivenTyped
<1>8. Cardinality(all) = Cardinality(best) + 1 /\ all \in SUBSET Documents /\ all # {}
  BY <1>4, <1>7, FS_AddElement
<1>9. AreBest(best', Passed \cup {d}) /\ (outside' # -1 => outside' \in (Passed \cup {d}) \ best')
  <2>1. CASE outside # -1 /\ ~Better(d, outside)
    <3>1. outside \in Passed /\ outside \notin best /\ outside \in Documents /\ outside # d
      BY <1>2, <1>5, <2>1
    <3>2. Cardinality(best) = Wanted /\ \A c \in best : Better(c, outside)
      BY <1>2, <3>1 DEF AreBest
    <3>3. Better(outside, d)
      BY <1>3, <1>4, <2>1, <3>1 DEF Orders
    <3>4. \A c \in best : Better(c, d)
      BY <1>3, <1>4, <1>7, <3>1, <3>2, <3>3 DEF Orders
    <3>5. AreBest(best, Passed \cup {d})
      BY <1>2, <1>4, <1>5, <3>2, <3>4, NoneIsTaken
    <3> QED
      BY <1>1, <2>1, <3>1, <3>5
  <2>2. CASE ~(outside # -1 /\ ~Better(d, outside)) /\ Cardinality(all) <= Wanted
    <3>1. Cardinality(best) < Wanted
      BY <1>7, <1>8, <2>2
    <3>2. AreBest(all, Passed \cup {d})
      BY <1>2, <1>5, <3>1, OneIsTaken
    <3>3. best' = all /\ outside' = outside
      BY <1>1, <2>2
    <3>4. outside = -1
      BY <1>2, <3>1, <1>7 DEF AreBest
    <3> QED
      BY <3>2, <3>3, <3>4
  <2>3. CASE ~(outside # -1 /\ ~Better(d, outside)) /\ ~(Cardinality(all) <= Wanted)
    <3> DEFINE w == Worst(all)
    <3>1. w \in all /\ \A c \in all \ {w} : Better(c, w)
      BY <1>2, <1>8, WorstIs
    <3>2. Cardinality(best) = Wanted
      BY <1>7, <1>8, <2>3
    <3>3. /\ best' = all \ {w}
          /\ outside' = IF outside = -1 \/ Better(w, outside) THEN w ELSE outside
      BY <1>1, <2>3
    <3> HIDE DEF w
    <3>4. AreBest(all \ {w}, Passed \cup {d})
      BY <1>2, <1>5, <3>1, <3>2, OneIsLeftOut
    <3>5. w \in (Passed \cup {d}) \ (all \ {w})
      BY <1>7, <3>1
    <3>6. outside # -1 => outside \in (Passed \cup {d}) \ (all \ {w})
      BY <1>2, <1>5
    <3> QED
      BY <3>3, <3>4, <3>5, <3>6
  <2> QED
    BY <2>1, <2>2, <2>3
<1>10. GivenTyped' /\ cursors' \subseteq Terms /\ target' \in Nat /\ AreBest(best, Passed)' /\ PageIsExact'
  <2>1. target' \in Nat
    BY <1>1, <1>3, <1>4
  <2>2. GivenTyped'
    BY <1>1, <1>2, GivenStays
  <2>3. AreBest(best, Passed)'
    BY <1>1, <1>6, <1>9, GivenStays
  <2>4. PageIsExact'
    BY <1>1 DEF PageIsExact
  <2> QED
    BY <1>1, <1>2, <2>1, <2>2, <2>3, <2>4
<1>11. way' = "collect" /\ (outside' # -1 => outside' \in (Passed \ best)')
  BY <1>1, <1>6, <1>9 DEF given
<1> QED
  BY <1>10, <1>11 DEF TopInv

\* When a search ends there is no match that it has not passed.
LEMMA FinishKeeps == ASSUME TopInv, Finish PROVE TopInv'
<1> DEFINE matches == {d \in Documents : Score(d) > 0}
<1>1. /\ (way = "raw" => Wanted = 0 \/ \A t \in cursors : ~Exists(t))
      /\ (way = "collect" => \A d \in Documents : d >= target => Score(d) = 0)
      /\ found' = SubSeq(Ranking(best), page[2] + 1, Cardinality(best))
      /\ UNCHANGED <<given, cursors, target, best, outside>>
  BY DEF Finish
<1>2. /\ GivenTyped /\ target \in Nat /\ AreBest(best, Passed) /\ way \in {"raw", "collect"}
      /\ (way = "raw" => \A t \in Terms \ cursors : ~Exists(t))
      /\ Wanted \in Nat /\ page[2] \in Nat
  BY DEF TopInv, GivenTyped, Wanted
<1>3. Passed \subseteq matches /\ matches \in SUBSET Documents /\ \A d \in Documents : d \in Nat /\ Score(d) \in Nat
  BY <1>2, ScoreIs, TopNAssumption DEF Passed, Documents
<1>4. AreBest(best, matches)
  <2>1. CASE way = "raw" /\ Wanted = 0
    <3>1. best \in SUBSET Documents /\ Cardinality(best) <= 0
      BY <1>2, <1>3, <2>1 DEF AreBest
    <3>2. IsFiniteSet(best) /\ Cardinality(best) \in Nat
      BY <3>1, DocumentsAreFew
    <3>3. best = {}
      BY <3>1, <3>2, FS_EmptySet
    <3>4. Cardinality(best) = Wanted
      BY <2>1, <3>1, <3>2
    <3> QED
      BY <2>1, <3>3, <3>4 DEF AreBest
  <2>2. CASE way = "raw" /\ Wanted # 0
    <3>1. \A t \in Terms : ~Exists(t)
      BY <1>1, <1>2, <2>2
    <3>2. ASSUME NEW d \in matches PROVE d \in Passed
      <4>1. PICK t \in Terms : HasTerm(t, d)
        BY <1>2, ScoreIs
      <4>2. d \in Nat /\ ~(target <= d)
        BY <1>2, <1>3, <3>1, <4>1, BlockHas
      <4> QED
        BY <1>2, <4>2 DEF Passed
    <3>3. matches = Passed
      BY <1>3, <3>2
    <3> QED
      BY <1>2, <3>3
  <2>3. CASE way = "collect"
    <3>1. ASSUME NEW d \in matches PROVE d \in Passed
      <4>1. d \in Nat /\ ~(d >= target)
        BY <1>1, <1>3, <2>3
      <4> QED
        BY <1>2, <4>1 DEF Passed
    <3>2. matches = Passed
      BY <1>3, <3>1
    <3> QED
      BY <1>2, <3>2
  <2> QED
    BY <1>2, <2>1, <2>2, <2>3
<1> HIDE DEF matches
<1>5. /\ Cardinality(best) = Min({Wanted, Cardinality(matches)})
      /\ \A n \in 1 .. Cardinality(best) : Ranking(best)[n] = Ranking(matches)[n]
  BY <1>2, <1>3, <1>4, BestAreFirst
<1>6. SubSeq(Ranking(best), page[2] + 1, Cardinality(best))
        = SubSeq(Ranking(matches), page[2] + 1, Cardinality(best))
  <2> DEFINE i == page[2] + 1
             j == Cardinality(best)
  <2>1. best \in SUBSET Documents
    BY <1>3, <1>4 DEF AreBest
  <2>2. i \in Nat \ {0} /\ j \in Nat
    BY <1>2, <2>1, DocumentsAreFew
  <2>3. \A n \in 1 .. j : Ranking(best)[n] \in Documents /\ Ranking(matches)[n] \in Documents
    <3>1. \A n \in 1 .. j : Ranking(best)[n] \in best
      BY <1>2, <2>1, RankingIs
    <3> QED
      BY <1>5, <2>1, <3>1
  <2> HIDE DEF i, j
  <2>4. \A n \in i .. j : n \in 1 .. j
    BY <2>2
  <2>5. /\ SubSeq(Ranking(best), i, j) \in Seq(Documents)
        /\ Len(SubSeq(Ranking(best), i, j)) = IF i <= j THEN j - i + 1 ELSE 0
        /\ \A n \in 1 .. j - i + 1 : SubSeq(Ranking(best), i, j)[n] = Ranking(best)[i + n - 1]
    BY <2>2, <2>3, <2>4, SubSeqProperties
  <2>6. /\ SubSeq(Ranking(matches), i, j) \in Seq(Documents)
        /\ Len(SubSeq(Ranking(matches), i, j)) = IF i <= j THEN j - i + 1 ELSE 0
        /\ \A n \in 1 .. j - i + 1 : SubSeq(Ranking(matches), i, j)[n] = Ranking(matches)[i + n - 1]
    BY <2>2, <2>3, <2>4, SubSeqProperties
  <2>7. ASSUME NEW n \in 1 .. Len(SubSeq(Ranking(best), i, j))
        PROVE  SubSeq(Ranking(best), i, j)[n] = SubSeq(Ranking(matches), i, j)[n]
    <3>1. n \in 1 .. j - i + 1 /\ i + n - 1 \in 1 .. j
      BY <2>2, <2>5, <2>7
    <3>2. Ranking(best)[i + n - 1] = Ranking(matches)[i + n - 1]
      BY <1>5, <3>1 DEF j
    <3> QED
      BY <2>5, <2>6, <3>1, <3>2
  <2>8. SubSeq(Ranking(best), i, j) = SubSeq(Ranking(matches), i, j)
    BY <2>5, <2>6, <2>7, SeqEqual
  <2> QED
    BY <2>8 DEF i, j
<1>7. found' = SubSeq(Ranking(matches), page[2] + 1, Min({Wanted, Cardinality(matches)}))
  BY <1>1, <1>5, <1>6
<1>8. matches' = matches /\ Ranking(matches)' = Ranking(matches) /\ page' = page /\ Wanted' = Wanted
  <2>1. matches' = matches
    BY <1>1, GivenStays DEF matches, Documents
  <2>2. Ranking(matches)' = Ranking(matches)
    BY <1>1, <2>1, RankingStays
  <2> QED
    BY <1>1, <2>1, <2>2, GivenStays DEF given
<1>9. PageIsExact'
  BY <1>7, <1>8 DEF PageIsExact, matches
<1>10. /\ GivenTyped' /\ AreBest(best, Passed)' /\ (Passed \ best)' = Passed \ best
       /\ \A t : Exists(t)' <=> Exists(t)
  <2>1. Passed' = Passed
    BY <1>1, GivenStays DEF Passed, Documents
  <2>2. AreBest(best, Passed)'
    BY <1>1, <1>2, <2>1, GivenStays
  <2>3. \A t : Exists(t)' <=> Exists(t)
    BY <1>1, GivenStays DEF Exists
  <2> QED
    BY <1>1, <1>2, <2>1, <2>2, <2>3, GivenStays
<1> QED
  BY <1>1, <1>9, <1>10 DEF TopInv, given

\* Every step of a search keeps the invariant.
LEMMA TopInductive == TopInv /\ [TopNext]_topVars => TopInv'
<1> SUFFICES ASSUME TopInv, [TopNext]_topVars PROVE TopInv'
  OBVIOUS
<1>1. CASE UNCHANGED topVars
  <2>1. UNCHANGED <<given, cursors, target, best, outside, found>>
    BY <1>1 DEF topVars, given
  <2>2. Passed' = Passed /\ page' = page
    BY <2>1, GivenStays DEF Passed, Documents, given
  <2>3. AreBest(best, Passed)' /\ GivenTyped'
    BY <2>1, <2>2, GivenStays DEF TopInv
  <2>4. \A t : Exists(t)' <=> Exists(t)
    BY <2>1, GivenStays DEF Exists
  <2> DEFINE matches == {d \in Documents : Score(d) > 0}
  <2>5. matches' = matches
    BY <2>1, GivenStays DEF Documents
  <2> HIDE DEF matches
  <2>6. Ranking(matches)' = Ranking(matches)
    BY <2>1, <2>5, RankingStays
  <2>7. PageIsExact'
    BY <2>1, <2>2, <2>5, <2>6, GivenStays DEF TopInv, PageIsExact, matches
  <2> QED
    BY <2>1, <2>2, <2>3, <2>4, <2>7 DEF TopInv, given
<1>2. CASE RawBlock
  BY <1>2, RawBlockKeeps
<1>3. CASE CollectSingle
  BY <1>3, CollectSingleKeeps
<1>4. CASE Finish
  BY <1>4, FinishKeeps
<1> QED
  BY <1>1, <1>2, <1>3, <1>4 DEF TopNext

\* A page is exact whichever way it was found (PageIsExact), for any index, scores, size
\* of blocks and page: blocks left out by their impacts (raw_topn.go) and matches that the
\* collector does not try have none of the documents of the page.
THEOREM PagesAreExact == TopSpec => []PageIsExact
<1>1. TopInv => PageIsExact
  BY DEF TopInv
<1> QED
  BY <1>1, TopInitially, TopInductive, PTL DEF TopSpec

=============================================================================
