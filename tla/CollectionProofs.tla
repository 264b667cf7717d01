-------------------------- MODULE CollectionProofs --------------------------
(***************************************************************************)
(* Proofs about Collection, for any number of spaces, documents, readers,   *)
(* generations, failures and crashes: no interruption of a publication or   *)
(* of maintenance takes away what a catalog names, what a reader has pinned *)
(* or what was acknowledged, or looks like corruption.                      *)
(*                                                                         *)
(* A power loss leaves any mixture of what the directory holds and of what  *)
(* was synced of it.  The invariant therefore speaks of both, and says of   *)
(* the files that either catalog names that they are the same in both.      *)
(***************************************************************************)
EXTENDS Collection, FiniteSetTheorems, WellFoundedInduction, TLAPS

Kinds    == {"index", "metadata", "commit"}
Catalogs == [spec : Specs, generations : SUBSET Generation]

Named(f)       == Catalog \in DOMAIN f
GensOf(f)      == IF Named(f) THEN f[Catalog].generations ELSE {}
Filed(f)       == DOMAIN f \subseteq Names /\ (Named(f) => f[Catalog] \in Catalogs)
NoCommits(f)   == \A n \in DOMAIN f : n[1] # "commit"
Alike(f, h, g) == \A kind \in Kinds : /\ <<kind, g>> \in DOMAIN f /\ <<kind, g>> \in DOMAIN h
                                      /\ f[<<kind, g>>] = h[<<kind, g>>]

\* A generation with its commit, whose payload says the same of every document.
Whole(f, g) ==
  /\ \A kind \in Kinds : <<kind, g>> \in DOMAIN f
  /\ f[<<"index", g>>] \in Vectors
  /\ f[<<"metadata", g>>] = f[<<"index", g>>]
  /\ f[<<"commit", g>>] = [index |-> f[<<"index", g>>], metadata |-> f[<<"metadata", g>>]]

\* What was synced and what is there now: the generations of both catalogs are whole,
\* and the same in both; without a catalog there is no commit.
Settled(old, new) ==
  /\ Filed(old) /\ Filed(new)
  /\ Named(old) => Named(new)
  /\ ~ Named(old) => NoCommits(old) /\ NoCommits(new)
  /\ \A g \in GensOf(old) \cup GensOf(new) : Whole(new, g) /\ Alike(old, new, g)

Disk ==
  /\ dir = [s \in Spaces |-> dir[s]] /\ synced = [s \in Spaces |-> synced[s]]
  /\ \A s \in Spaces : Settled(synced[s], dir[s])

\* A catalog that keeps what was acknowledged.
Keeps(f, spec, vectors) ==
  /\ spec # None => Named(f) /\ f[Catalog].spec = spec
  /\ \A id \in Ids : vectors[id] # None =>
       GensOf(f) # {} /\ f[<<"index", Newest(GensOf(f))>>][id] = vectors[id]

\* What was acknowledged is in both, and is about the text as it is.
Promised ==
  /\ \A s \in Spaces : Keeps(dir[s], created[s], acked[s]) /\ Keeps(synced[s], created[s], acked[s])
  /\ \A s \in Spaces, id \in Ids : acked[s][id] # None => acked[s][id] = text[id]

\* The owner has the collection open; the other way to be somewhere is offline maintenance.
Live == pc # "none" /\ job.after # "none"

\* What the owner has in memory is what is on disk, unless a write failed.
Memory ==
  /\ ~ Live => ~ writeErr /\ \A s \in Spaces : spaces[s] = None
  /\ spaces = [s \in Spaces |-> spaces[s]]
  /\ Live /\ ~ writeErr =>
       /\ revisions = text
       /\ \A s \in Spaces :
            /\ spaces[s] = None => created[s] = None /\ GensOf(dir[s]) = {} /\ GensOf(synced[s]) = {}
            /\ spaces[s] # None =>
                 /\ Named(dir[s])
                 /\ spaces[s] = [spec |-> dir[s][Catalog].spec, newest |-> Newest(GensOf(dir[s]))]

Publishing  == pc \in {"index", "metadata", "commit", "catalog"}
Maintaining == pc \in {"maintaining", "sweeping"}

\* The owner publishes a generation above all others, that drops nothing acknowledged;
\* what it has published so far is there and synced.
Publication ==
  Publishing =>
    /\ ~ writeErr /\ job.after = "idle" /\ job.staged
    /\ job.space \in Spaces /\ spaces[job.space] # None /\ job.scope = {job.space}
    /\ job.todo = {} /\ job.doomed = {} /\ job.dirty = {}
    /\ job.generation \in Generation
    /\ \A g \in GensOf(dir[job.space]) \cup GensOf(synced[job.space]) : g < job.generation
    /\ job.index \in Vectors /\ job.metadata = job.index
    /\ \A id \in Ids : acked[job.space][id] # None => job.index[id] = acked[job.space][id]
    /\ pc # "index" =>
         /\ synced[job.space] = dir[job.space]
         /\ <<"index", job.generation>> \in DOMAIN dir[job.space]
         /\ dir[job.space][<<"index", job.generation>>] = job.index
    /\ pc \in {"commit", "catalog"} =>
         /\ <<"metadata", job.generation>> \in DOMAIN dir[job.space]
         /\ dir[job.space][<<"metadata", job.generation>>] = job.metadata
    /\ pc = "catalog" => Whole(dir[job.space], job.generation)

Jobs == [space : Spaces \cup {None}, generation : 0 .. MaxGeneration, index : Vectors,
         metadata : Vectors, records : SUBSET Ids, scope : SUBSET Spaces, todo : SUBSET Spaces,
         doomed : SUBSET (Spaces \X Generation), dirty : SUBSET Spaces, staged : BOOLEAN,
         after : {"idle", "opened", "none"}]

\* Maintenance dooms only what neither catalog names, and leaves no garbage behind it.
Maintenance ==
  /\ pc \in {"none", "idle"} => job = NoJob
  /\ job \in Jobs
  /\ pc = "maintain" => job.todo = {} /\ job.doomed = {} /\ job.dirty = {}
  /\ job.staged => job.space \in Spaces
  /\ Maintaining =>
       /\ gate = Owner
       /\ \A s \in job.todo : Named(dir[s])
       /\ \A d \in job.doomed : d[2] \notin GensOf(dir[d[1]]) \cup GensOf(synced[d[1]])
       /\ \A s \in job.scope \ job.dirty :
            job.todo = {} /\ job.doomed = {} /\ Garbage(s) = {}
       /\ pc = "sweeping" => job.todo = {} /\ job.doomed = {} /\ job.space \in Spaces

Typed ==
  /\ text \in Vectors /\ revisions \in Vectors /\ acked \in [Spaces -> Vectors]
  /\ gate \in Readers \cup {None, Owner}
  /\ pc \in {"none", "idle", "index", "metadata", "commit", "catalog", "maintain",
             "maintaining", "sweeping"}
  /\ writeErr \in BOOLEAN /\ corrupt = FALSE
  /\ created \in [Spaces -> Specs \cup {None}]
  /\ faults \in 0 .. MaxFaults /\ crashes \in 0 .. MaxCrashes /\ batches \in 0 .. MaxBatches

\* Readers pin what the catalog names: with leases, or with the gate before they have them.
Pins ==
  /\ readers \in [Readers -> [pc : {"closed", "opening", "open"},
                              pins : [Spaces -> 0 .. MaxGeneration], held : SUBSET Spaces]]
  /\ pc = "catalog" => gate = Owner
  /\ \A r \in Readers :
       /\ readers[r].pc = "opening" => gate = r
       /\ readers[r].pc # "open" => readers[r].held = {}
       /\ readers[r].pc = "open" => readers[r].held = {s \in Spaces : readers[r].pins[s] # 0}
       /\ readers[r].pc # "closed" =>
            \A s \in Spaces : readers[r].pins[s] # 0 => readers[r].pins[s] \in GensOf(dir[s])

IInv == /\ Typed /\ Disk /\ Promised /\ Memory /\ Publication /\ Maintenance /\ Pins

-----------------------------------------------------------------------------
(* Files *)

\* Names are told apart by their kind and their number.
LEMMA NamesAre ==
  /\ Catalog \in Names /\ Pending \in Names /\ Catalog # Pending
  /\ Catalog[1] = "catalog" /\ Pending[1] = "pending"
  /\ \A kind \in Kinds, g \in Generation :
       /\ <<kind, g>> \in Names /\ <<kind, g>>[1] = kind /\ <<kind, g>>[2] = g
       /\ <<kind, g>> # Catalog /\ <<kind, g>> # Pending
       /\ \A other \in Kinds, h \in Generation :
            <<kind, g>> = <<other, h>> => kind = other /\ g = h
       /\ \A h \in Generation : <<kind, g>> # <<"retired", h>>
  /\ \A g \in Generation :
       <<"retired", g>> \in Names /\ <<"retired", g>>[1] = "retired" /\ <<"retired", g>> # Catalog
  BY DEF Names, Catalog, Pending, Kinds

LEMMA WithoutIs ==
  ASSUME NEW f, NEW names
  PROVE  /\ DOMAIN Without(f, names) = DOMAIN f \ names
         /\ \A n \in DOMAIN f \ names : Without(f, names)[n] = f[n]
  BY DEF Without, Restrict

\* The same specification and generations.
SameCatalog(f, h) == (Named(f) <=> Named(h)) /\ (Named(f) => f[Catalog] = h[Catalog])

\* Putting or removing a file that no catalog names.
LEMMA PutBeside ==
  ASSUME NEW f, Filed(f), NEW name \in Names, name # Catalog, NEW content
  PROVE  /\ Filed(Put(f, name, content)) /\ SameCatalog(f, Put(f, name, content))
         /\ NoCommits(f) /\ name[1] # "commit" => NoCommits(Put(f, name, content))
         /\ \A g : (\A kind \in Kinds : <<kind, g>> \in DOMAIN f /\ <<kind, g>> # name)
                     => Alike(f, Put(f, name, content), g)
<1> DEFINE h == Put(f, name, content)
<1>1. DOMAIN h = DOMAIN f \cup {name} /\ \A n \in DOMAIN f \ {name} : h[n] = f[n]
  BY DEF Put
<1> HIDE DEF h
<1>2. SameCatalog(f, h)
  BY <1>1 DEF SameCatalog, Named
<1>3. Filed(h)
  BY <1>1, <1>2 DEF Filed, SameCatalog
<1>4. NoCommits(f) /\ name[1] # "commit" => NoCommits(h)
  BY <1>1 DEF NoCommits
<1>5. \A g : (\A kind \in Kinds : <<kind, g>> \in DOMAIN f /\ <<kind, g>> # name) => Alike(f, h, g)
  BY <1>1 DEF Alike
<1> QED
  BY <1>2, <1>3, <1>4, <1>5 DEF h

LEMMA WithoutBeside ==
  ASSUME NEW f, Filed(f), NEW names, Catalog \notin names
  PROVE  /\ Filed(Without(f, names)) /\ SameCatalog(f, Without(f, names))
         /\ NoCommits(f) => NoCommits(Without(f, names))
         /\ \A g : (\A kind \in Kinds : <<kind, g>> \in DOMAIN f \ names)
                     => Alike(f, Without(f, names), g)
<1> DEFINE h == Without(f, names)
<1>1. DOMAIN h = DOMAIN f \ names /\ \A n \in DOMAIN f \ names : h[n] = f[n]
  BY WithoutIs
<1> HIDE DEF h
<1>2. SameCatalog(f, h)
  BY <1>1 DEF SameCatalog, Named
<1>3. Filed(h)
  BY <1>1, <1>2 DEF Filed, SameCatalog
<1>4. NoCommits(f) => NoCommits(h)
  BY <1>1 DEF NoCommits
<1>5. \A g : (\A kind \in Kinds : <<kind, g>> \in DOMAIN f \ names) => Alike(f, h, g)
  BY <1>1 DEF Alike
<1> QED
  BY <1>2, <1>3, <1>4, <1>5 DEF h

\* Replacing the catalog.
LEMMA PutCatalog ==
  ASSUME NEW f, Filed(f), NEW catalog \in Catalogs
  PROVE  /\ Filed(Put(f, Catalog, catalog)) /\ Named(Put(f, Catalog, catalog))
         /\ Put(f, Catalog, catalog)[Catalog] = catalog
         /\ GensOf(Put(f, Catalog, catalog)) = catalog.generations
         /\ NoCommits(f) => NoCommits(Put(f, Catalog, catalog))
         /\ \A g \in Generation : (\A kind \in Kinds : <<kind, g>> \in DOMAIN f)
                                    => Alike(f, Put(f, Catalog, catalog), g)
<1> DEFINE h == Put(f, Catalog, catalog)
<1>1. /\ DOMAIN h = DOMAIN f \cup {Catalog} /\ h[Catalog] = catalog
      /\ \A n \in DOMAIN f \ {Catalog} : h[n] = f[n]
  BY DEF Put
<1> HIDE DEF h
<1>2. Named(h) /\ Filed(h) /\ GensOf(h) = catalog.generations
  BY <1>1, NamesAre DEF Filed, Named, GensOf
<1>3. NoCommits(f) => NoCommits(h)
  BY <1>1, NamesAre DEF NoCommits
<1>4. \A g \in Generation : (\A kind \in Kinds : <<kind, g>> \in DOMAIN f) => Alike(f, h, g)
  BY <1>1, NamesAre DEF Alike
<1> QED
  BY <1>1, <1>2, <1>3, <1>4 DEF h

\* Sets of numbers have a least one, and if they are bounded a greatest one.
LEMMA LeastOf ==
  ASSUME NEW S \in SUBSET Nat, S # {}
  PROVE  \E n \in S : \A i \in S : n <= i
<1> DEFINE R == {ss \in Nat \X Nat : ss[1] < ss[2]}
<1>1. IsWellFoundedOn(R, Nat)
  BY NatLessThanWellFounded DEF OpToRel
<1>2. \A i, n \in Nat : i < n => <<i, n>> \in R
  OBVIOUS
<1> HIDE DEF R
<1>3. PICK n \in S : \A i \in S : <<i, n>> \notin R
  BY <1>1, WFMin
<1>4. \A i \in S : i \in Nat /\ ~(i < n)
  BY <1>2, <1>3
<1>5. \A i \in S : n <= i
  BY <1>4
<1> QED
  BY <1>5

LEMMA GreatestOf ==
  ASSUME NEW S \in SUBSET Nat, S # {}, NEW B \in Nat, \A i \in S : i <= B
  PROVE  \E n \in S : \A i \in S : i <= n
<1> DEFINE T == {B - i : i \in S}
<1>1. T \in SUBSET Nat /\ T # {}
  <2>1. \A i \in S : B - i \in Nat
    OBVIOUS
  <2> QED
    BY <2>1
<1> HIDE DEF T
<1>2. PICK d \in T : \A e \in T : d <= e
  BY <1>1, LeastOf
<1> USE DEF T
<1>3. PICK n \in S : d = B - n
  OBVIOUS
<1>4. \A i \in S : B - n <= B - i
  BY <1>2, <1>3
<1>5. \A i \in S : i <= n
  BY <1>4
<1> QED
  BY <1>5

LEMMA NewestIs ==
  ASSUME NEW gens \in SUBSET Generation
  PROVE  /\ Newest(gens) \in 0 .. MaxGeneration
         /\ gens = {} <=> Newest(gens) = 0
         /\ gens # {} => Newest(gens) \in gens
         /\ \A g \in gens : g <= Newest(gens)
<1>1. MaxGeneration \in Nat
  BY CollectionAssumption
<1>2. CASE gens = {}
  BY <1>1, <1>2 DEF Newest
<1>3. CASE gens # {}
  <2>1. gens \in SUBSET Nat /\ \A i \in gens : i <= MaxGeneration
    BY <1>1 DEF Generation
  <2>2. \E n \in gens : \A i \in gens : n >= i
    BY <1>1, <1>3, <2>1, GreatestOf
  <2>3. Max(gens) \in gens /\ \A i \in gens : Max(gens) >= i
    BY <2>2 DEF Max
  <2>4. Newest(gens) = Max(gens)
    BY <1>3 DEF Newest
  <2>5. Newest(gens) \in gens /\ \A i \in gens : Newest(gens) >= i
    BY <2>3, <2>4
  <2>6. Newest(gens) \in 1 .. MaxGeneration
    BY <2>5 DEF Generation
  <2> QED
    BY <1>1, <1>3, <2>1, <2>5, <2>6
<1> QED
  BY <1>2, <1>3

LEMMA NewestOf ==
  ASSUME NEW gens \in SUBSET Generation, NEW n \in gens, \A g \in gens : g <= n
  PROVE  Newest(gens) = n
<1>1. Newest(gens) \in gens /\ n <= Newest(gens) /\ Newest(gens) <= n
  BY NewestIs
<1>2. Generation \subseteq Nat
  BY CollectionAssumption DEF Generation
<1>3. n \in Nat /\ Newest(gens) \in Nat
  BY <1>1, <1>2
<1> QED
  BY <1>1, <1>3

-----------------------------------------------------------------------------
(* What is there and what was synced *)

LEMMA AlikeAgain ==
  ASSUME NEW f, NEW h, NEW g, Alike(f, h, g)
  PROVE  /\ Alike(h, f, g)
         /\ Whole(f, g) => Whole(h, g)
         /\ \A k : Alike(h, k, g) => Alike(f, k, g)
  BY DEF Alike, Whole, Kinds

LEMMA GensAre ==
  ASSUME NEW f, Filed(f)
  PROVE  GensOf(f) \in SUBSET Generation
  BY DEF Filed, GensOf, Catalogs

LEMMA SameGens ==
  ASSUME NEW f, NEW h, SameCatalog(f, h)
  PROVE  GensOf(f) = GensOf(h)
  BY DEF SameCatalog, GensOf

\* The directory changes, and may then be synced.
LEMMA SettledAgain ==
  ASSUME NEW old, NEW new, Settled(old, new), NEW h, Filed(h),
         Named(new) => Named(h),
         ~ Named(old) => NoCommits(h),
         \A g \in GensOf(h) : Whole(new, g) /\ Alike(old, new, g),
         \A g \in GensOf(old) \cup GensOf(new) \cup GensOf(h) : Alike(new, h, g)
  PROVE  Settled(old, h) /\ Settled(h, h)
<1>1. \A g \in GensOf(old) \cup GensOf(h) : Whole(h, g) /\ Alike(old, h, g) /\ Alike(h, h, g)
  <2> SUFFICES ASSUME NEW g \in GensOf(old) \cup GensOf(h)
               PROVE  Whole(h, g) /\ Alike(old, h, g) /\ Alike(h, h, g)
    OBVIOUS
  <2>1. Whole(new, g) /\ Alike(old, new, g) /\ Alike(new, h, g)
    BY DEF Settled
  <2>2. Alike(h, new, g)
    BY <2>1, AlikeAgain
  <2> QED
    BY <2>1, <2>2, AlikeAgain
<1> QED
  BY <1>1 DEF Settled

LEMMA SettledNow ==
  ASSUME NEW old, NEW new, Settled(old, new)
  PROVE  Settled(new, new)
<1>1. \A g \in GensOf(new) : Whole(new, g) /\ Alike(new, new, g)
  BY DEF Settled, Whole, Alike
<1> QED
  BY <1>1 DEF Settled

\* A power loss leaves a mixture of both.
LEMMA PowerLost ==
  ASSUME NEW old, NEW new, Settled(old, new), NEW h \in AfterPowerLoss(old, new)
  PROVE  /\ Settled(h, h)
         /\ SameCatalog(old, h) \/ SameCatalog(new, h)
         /\ \A g \in GensOf(old) \cup GensOf(new) : Alike(old, h, g) /\ Alike(new, h, g)
<1>1. /\ DOMAIN h \subseteq DOMAIN old \cup DOMAIN new
      /\ \A n \in DOMAIN h : \/ n \in DOMAIN old /\ h[n] = old[n]
                             \/ n \in DOMAIN new /\ h[n] = new[n]
      /\ \A n : n \in DOMAIN old /\ n \in DOMAIN new /\ old[n] = new[n]
                  => n \in DOMAIN h /\ h[n] = new[n]
  <2> DEFINE same    == {n \in DOMAIN old \cap DOMAIN new : old[n] = new[n]}
             changed == (DOMAIN old \cup DOMAIN new) \ same
  <2>1. PICK lost \in SUBSET changed :
          h = [n \in (DOMAIN old \cap lost) \cup (DOMAIN new \ lost) |->
                 IF n \in lost THEN old[n] ELSE new[n]]
    BY DEF AfterPowerLoss
  <2> QED
    BY <2>1
<1>2. \A g \in GensOf(old) \cup GensOf(new) : Alike(new, h, g) /\ Alike(old, h, g)
  BY <1>1 DEF Settled, Alike
<1>3. Named(old) => Named(h)
  <2> SUFFICES ASSUME Catalog \in DOMAIN old PROVE Catalog \in DOMAIN h
    BY DEF Named
  <2>1. Catalog \in DOMAIN new
    BY DEF Settled, Named
  <2>2. PICK lost \in SUBSET (DOMAIN old \cup DOMAIN new) :
          h = [n \in (DOMAIN old \cap lost) \cup (DOMAIN new \ lost) |->
                 IF n \in lost THEN old[n] ELSE new[n]]
    BY DEF AfterPowerLoss
  <2> QED
    BY <2>1, <2>2
<1>4. Named(h) => SameCatalog(old, h) \/ SameCatalog(new, h)
  BY <1>1 DEF SameCatalog, Named
<1>5. SameCatalog(old, h) \/ SameCatalog(new, h)
  BY <1>3, <1>4 DEF SameCatalog
<1>6. Filed(h)
  BY <1>1, <1>5 DEF Settled, Filed, SameCatalog
<1>7. ~ Named(h) => NoCommits(h)
  BY <1>1, <1>3 DEF Settled, NoCommits
<1>8. GensOf(h) \subseteq GensOf(old) \cup GensOf(new)
  BY <1>5, SameGens
<1>9. \A g \in GensOf(h) : Whole(h, g) /\ Alike(h, h, g)
  <2> SUFFICES ASSUME NEW g \in GensOf(h) PROVE Whole(h, g) /\ Alike(h, h, g)
    OBVIOUS
  <2>1. Whole(new, g) /\ Alike(new, h, g)
    BY <1>2, <1>8 DEF Settled
  <2>2. Whole(h, g) /\ Alike(h, new, g)
    BY <2>1, AlikeAgain
  <2> QED
    BY <2>1, <2>2, AlikeAgain
<1> QED
  BY <1>2, <1>5, <1>6, <1>7, <1>9 DEF Settled

\* A catalog that loses no space, no specification and not its newest generation.
LEMMA KeepsAgain ==
  ASSUME NEW f, NEW h, NEW spec, NEW vectors, Keeps(f, spec, vectors), Filed(f), Filed(h),
         Named(f) => Named(h) /\ h[Catalog].spec = f[Catalog].spec,
         Newest(GensOf(h)) = Newest(GensOf(f)),
         \A g \in GensOf(h) : Alike(f, h, g)
  PROVE  Keeps(h, spec, vectors)
<1>1. spec # None => Named(h) /\ h[Catalog].spec = spec
  BY DEF Keeps
<1>2. ASSUME NEW id \in Ids, vectors[id] # None
      PROVE  GensOf(h) # {} /\ h[<<"index", Newest(GensOf(h))>>][id] = vectors[id]
  <2>1. GensOf(f) # {} /\ f[<<"index", Newest(GensOf(f))>>][id] = vectors[id]
    BY <1>2 DEF Keeps
  <2>2. /\ GensOf(f) \in SUBSET Generation /\ GensOf(h) \in SUBSET Generation
    BY GensAre
  <2>3. Newest(GensOf(f)) \in GensOf(h) /\ GensOf(h) # {}
    BY <2>1, <2>2, NewestIs
  <2>4. Alike(f, h, Newest(GensOf(f)))
    BY <2>3
  <2>5. f[<<"index", Newest(GensOf(f))>>] = h[<<"index", Newest(GensOf(f))>>]
    BY <2>4 DEF Alike, Kinds
  <2> QED
    BY <2>1, <2>3, <2>5
<1> QED
  BY <1>1, <1>2 DEF Keeps

\* What most steps leave of a directory: its catalog with its newest generation, and the
\* files of the generations it still names.
Soft(f, h) ==
  /\ Named(f) <=> Named(h)
  /\ Named(f) => h[Catalog].spec = f[Catalog].spec
  /\ GensOf(h) \subseteq GensOf(f) /\ Newest(GensOf(h)) = Newest(GensOf(f))
  /\ \A g \in GensOf(h) : Alike(f, h, g)

Gentle ==
  /\ dir' = [s \in Spaces |-> dir'[s]] /\ synced' = [s \in Spaces |-> synced'[s]]
  /\ \A s \in Spaces :
       /\ synced'[s] \in {synced[s], dir[s], dir'[s]}
       /\ Settled(synced'[s], dir'[s])
       /\ Soft(dir[s], dir'[s])
       /\ GensOf(dir[s]) \subseteq GensOf(dir'[s]) \cup (IF gate = Owner THEN Retirable(s) ELSE {})

\* A generation that stays in the catalog keeps its files as they are.
Unaltered ==
  \A s \in Spaces : \A g \in GensOf(dir[s]) \cap GensOf(dir'[s]) : Alike(dir[s], dir'[s], g)

LEMMA GentleAlters ==
  ASSUME Gentle
  PROVE  Unaltered
  BY DEF Gentle, Soft, Unaltered

LEMMA SoftSame ==
  ASSUME NEW f, NEW h, SameCatalog(f, h), \A g \in GensOf(f) : Alike(f, h, g)
  PROVE  Soft(f, h)
<1>1. GensOf(f) = GensOf(h)
  BY SameGens
<1> QED
  BY <1>1 DEF Soft, SameCatalog

LEMMA SoftAgain ==
  ASSUME NEW f, NEW h, NEW k, Soft(f, h), Soft(h, k)
  PROVE  Soft(f, k)
<1>1. \A g \in GensOf(k) : Alike(f, k, g)
  <2> SUFFICES ASSUME NEW g \in GensOf(k) PROVE Alike(f, k, g)
    OBVIOUS
  <2>1. Alike(f, h, g) /\ Alike(h, k, g)
    BY DEF Soft
  <2> QED
    BY <2>1, AlikeAgain
<1> QED
  BY <1>1 DEF Soft

\* Steps that leave the disk alone.
LEMMA Untouched ==
  ASSUME Disk, UNCHANGED <<dir, synced>>
  PROVE  Gentle
<1>1. \A s \in Spaces : Settled(synced[s], dir[s])
  BY DEF Disk
<1>2. \A s \in Spaces : Soft(dir[s], dir[s])
  BY <1>1, SettledNow DEF Soft, Settled
<1>3. dir' = [s \in Spaces |-> dir'[s]] /\ synced' = [s \in Spaces |-> synced'[s]]
  BY DEF Disk
<1> QED
  BY <1>1, <1>2, <1>3 DEF Gentle

LEMMA PromisedKept ==
  ASSUME Disk, Promised, Gentle, UNCHANGED <<text, acked, created>>
  PROVE  Promised'
<1>1. ASSUME NEW s \in Spaces
      PROVE  /\ Keeps(dir'[s], created[s], acked[s])
             /\ Keeps(synced'[s], created[s], acked[s])
  <2>1. Filed(dir[s]) /\ Filed(dir'[s]) /\ Soft(dir[s], dir'[s])
    BY DEF Disk, Gentle, Settled
  <2>2. Keeps(dir[s], created[s], acked[s]) /\ Keeps(synced[s], created[s], acked[s])
    BY DEF Promised
  <2>3. Keeps(dir'[s], created[s], acked[s])
    BY <2>1, <2>2, KeepsAgain DEF Soft
  <2> QED
    BY <2>2, <2>3 DEF Gentle
<1>2. \A s \in Spaces, id \in Ids : acked'[s][id] # None => acked'[s][id] = text'[id]
  BY DEF Promised
<1> QED
  BY <1>1, <1>2 DEF Promised

LEMMA MemoryKept ==
  ASSUME Disk, Memory, Gentle, UNCHANGED <<text, created, revisions, spaces, writeErr>>,
         Live' <=> Live
  PROVE  Memory'
<1>1. ASSUME NEW s \in Spaces
      PROVE  /\ GensOf(dir[s]) = {} /\ GensOf(synced[s]) = {}
                  => GensOf(dir'[s]) = {} /\ GensOf(synced'[s]) = {}
             /\ Named(dir[s]) => /\ Named(dir'[s]) /\ dir'[s][Catalog].spec = dir[s][Catalog].spec
                                 /\ Newest(GensOf(dir'[s])) = Newest(GensOf(dir[s]))
  BY DEF Gentle, Soft
<1> QED
  BY <1>1 DEF Memory

LEMMA PinsKept ==
  ASSUME Disk, Pins, Gentle, UNCHANGED readers,
         pc' = "catalog" => gate' = Owner,
         \A r \in Readers : readers[r].pc = "opening" => gate' = gate
  PROVE  Pins'
<1>1. ASSUME NEW r \in Readers, readers[r].pc # "closed", NEW s \in Spaces, readers[r].pins[s] # 0
      PROVE  readers[r].pins[s] \in GensOf(dir'[s])
  <2> DEFINE g == readers[r].pins[s]
  <2>1. g \in GensOf(dir[s])
    BY <1>1 DEF Pins
  <2>2. CASE gate # Owner
    BY <2>1, <2>2 DEF Gentle
  <2>3. CASE gate = Owner
    <3>1. readers[r].pc # "opening"
      BY <2>3, CollectionAssumption DEF Pins
    <3>2. s \in readers[r].held
      BY <1>1, <3>1 DEF Pins
    <3>3. g \notin Retirable(s)
      BY <3>2 DEF Retirable, Pinned
    <3> QED
      BY <2>1, <2>3, <3>3 DEF Gentle
  <2> QED
    BY <2>2, <2>3
<1> QED
  BY <1>1 DEF Pins

\* What such a step leaves of the invariant.
LEMMA GentleStep ==
  ASSUME IInv, Gentle,
         UNCHANGED <<text, acked, created, revisions, spaces, writeErr, readers>>,
         Live' <=> Live, pc' = "catalog" => gate' = Owner,
         \A r \in Readers : readers[r].pc = "opening" => gate' = gate
  PROVE  Disk' /\ Promised' /\ Memory' /\ Pins'
<1>1. Disk'
  BY DEF Gentle, Disk
<1> QED
  BY <1>1, PromisedKept, MemoryKept, PinsKept DEF IInv

-----------------------------------------------------------------------------
(* Steps that change files beside the catalogs *)

Aside(old, new, h) ==
  /\ Settled(old, h) /\ Settled(new, h) /\ Settled(h, h) /\ SameCatalog(new, h)
  /\ \A g \in GensOf(old) \cup GensOf(new) : Alike(new, h, g)

LEMMA AsideIs ==
  ASSUME NEW old, NEW new, Settled(old, new), NEW h, Filed(h), SameCatalog(new, h),
         ~ Named(old) => NoCommits(h),
         \A g \in GensOf(old) \cup GensOf(new) : Alike(new, h, g)
  PROVE  Aside(old, new, h)
<1>1. GensOf(h) = GensOf(new) /\ (Named(new) => Named(h))
  BY SameGens DEF SameCatalog
<1>2. Settled(new, new)
  BY SettledNow
<1>3. \A g \in GensOf(new) : Whole(new, g) /\ Alike(old, new, g) /\ Alike(new, new, g)
  BY <1>2 DEF Settled
<1>4. Settled(old, h) /\ Settled(h, h)
  BY <1>1, <1>3, SettledAgain
<1>5. Named(old) => Named(new)
  BY DEF Settled
<1>6. Settled(new, h)
  BY <1>1, <1>2, <1>3, <1>5, SettledAgain
<1> QED
  BY <1>4, <1>6 DEF Aside

LEMMA AsideSame ==
  ASSUME NEW old, NEW new, Settled(old, new)
  PROVE  Aside(old, new, new)
<1>1. Settled(new, new)
  BY SettledNow
<1>2. \A g \in GensOf(old) \cup GensOf(new) : Alike(new, new, g)
  BY DEF Settled, Whole, Alike
<1> QED
  BY <1>1, <1>2 DEF Aside, SameCatalog

LEMMA AsideAgain ==
  ASSUME NEW old, NEW new, NEW h, NEW k, Aside(old, new, h), Aside(old, h, k), Aside(new, h, k)
  PROVE  Aside(old, new, k)
<1>1. GensOf(h) = GensOf(new)
  BY SameGens DEF Aside
<1>2. \A g \in GensOf(old) \cup GensOf(new) : Alike(new, k, g)
  <2> SUFFICES ASSUME NEW g \in GensOf(old) \cup GensOf(new) PROVE Alike(new, k, g)
    OBVIOUS
  <2>1. Alike(new, h, g) /\ Alike(h, k, g)
    BY <1>1 DEF Aside
  <2> QED
    BY <2>1, AlikeAgain
<1> QED
  BY <1>2 DEF Aside, SameCatalog

LEMMA PutAside ==
  ASSUME NEW old, NEW new, Settled(old, new), NEW name \in Names, name # Catalog, NEW content,
         name[1] = "commit" => Named(old),
         \A g \in GensOf(old) \cup GensOf(new), kind \in Kinds : <<kind, g>> # name
  PROVE  Aside(old, new, Put(new, name, content))
<1> DEFINE h == Put(new, name, content)
<1>1. Filed(new) /\ \A g \in GensOf(old) \cup GensOf(new), kind \in Kinds : <<kind, g>> \in DOMAIN new
  BY DEF Settled, Whole
<1>2. /\ Filed(h) /\ SameCatalog(new, h) /\ (NoCommits(new) /\ name[1] # "commit" => NoCommits(h))
      /\ \A g : (\A kind \in Kinds : <<kind, g>> \in DOMAIN new /\ <<kind, g>> # name)
                  => Alike(new, h, g)
  BY <1>1, PutBeside
<1> HIDE DEF h
<1>3. \A g \in GensOf(old) \cup GensOf(new) : Alike(new, h, g)
  BY <1>1, <1>2
<1>4. ~ Named(old) => NoCommits(h)
  BY <1>2 DEF Settled
<1>5. Aside(old, new, h)
  BY <1>2, <1>3, <1>4, AsideIs
<1> QED
  BY <1>5 DEF h

LEMMA WithoutAside ==
  ASSUME NEW old, NEW new, Settled(old, new), NEW names, Catalog \notin names,
         \A g \in GensOf(old) \cup GensOf(new), kind \in Kinds : <<kind, g>> \notin names
  PROVE  Aside(old, new, Without(new, names))
<1> DEFINE h == Without(new, names)
<1>1. Filed(new) /\ \A g \in GensOf(old) \cup GensOf(new), kind \in Kinds : <<kind, g>> \in DOMAIN new
  BY DEF Settled, Whole
<1>2. /\ Filed(h) /\ SameCatalog(new, h) /\ (NoCommits(new) => NoCommits(h))
      /\ \A g : (\A kind \in Kinds : <<kind, g>> \in DOMAIN new \ names) => Alike(new, h, g)
  BY <1>1, WithoutBeside
<1> HIDE DEF h
<1>3. \A g \in GensOf(old) \cup GensOf(new) : Alike(new, h, g)
  BY <1>1, <1>2
<1>4. ~ Named(old) => NoCommits(h)
  BY <1>2 DEF Settled
<1>5. Aside(old, new, h)
  BY <1>2, <1>3, <1>4, AsideIs
<1> QED
  BY <1>5 DEF h

\* Staging directories are no generation's.
LEMMA Staging ==
  ASSUME NEW old, NEW new, Settled(old, new)
  PROVE  /\ Aside(old, new, Put(new, Pending, 0))
         /\ Aside(old, new, Without(new, {Pending}))
         /\ Aside(old, new, Without(new, {}))
<1>1. GensOf(old) \in SUBSET Generation /\ GensOf(new) \in SUBSET Generation
  BY GensAre DEF Settled
<1>2. \A g \in GensOf(old) \cup GensOf(new), kind \in Kinds : <<kind, g>> # Pending
  BY <1>1, NamesAre
<1>3. Pending \in Names /\ Pending # Catalog /\ Pending[1] # "commit"
  BY NamesAre
<1> QED
  BY <1>2, <1>3, PutAside, WithoutAside

LEMMA AsideSoft ==
  ASSUME NEW old, NEW new, NEW h, Aside(old, new, h)
  PROVE  Soft(new, h) /\ GensOf(h) = GensOf(new)
  BY SoftSame, SameGens DEF Aside

\* Such a step, which may sync the directory.
LEMMA StepAside ==
  ASSUME Disk, NEW s \in Spaces, NEW h, Aside(synced[s], dir[s], h),
         dir' = [dir EXCEPT ![s] = h],
         NEW f \in {synced[s], dir[s], h}, synced' = [synced EXCEPT ![s] = f]
  PROVE  /\ Gentle /\ dir'[s] = h /\ synced'[s] = f
         /\ \A x \in Spaces \ {s} : dir'[x] = dir[x] /\ synced'[x] = synced[x]
<1>1. /\ dir'[s] = h /\ synced'[s] = f
      /\ \A x \in Spaces \ {s} : dir'[x] = dir[x] /\ synced'[x] = synced[x]
      /\ dir' = [x \in Spaces |-> dir'[x]] /\ synced' = [x \in Spaces |-> synced'[x]]
  BY DEF Disk
<1>2. Soft(dir[s], h) /\ GensOf(h) = GensOf(dir[s]) /\ Settled(f, h)
  BY AsideSoft DEF Aside
<1>3. \A x \in Spaces : Settled(synced[x], dir[x]) /\ Soft(dir[x], dir[x])
  BY SettledNow DEF Disk, Soft, Settled
<1>4. ASSUME NEW x \in Spaces
      PROVE  /\ synced'[x] \in {synced[x], dir[x], dir'[x]} /\ Settled(synced'[x], dir'[x])
             /\ Soft(dir[x], dir'[x]) /\ GensOf(dir'[x]) = GensOf(dir[x])
  BY <1>1, <1>2, <1>3
<1> QED
  BY <1>1, <1>4 DEF Gentle

-----------------------------------------------------------------------------
(* The start, opening, documents and spaces *)

LEMMA NothingYet ==
  /\ NoVectors \in Vectors /\ NoJob \in Jobs /\ NoJob.after = "idle" /\ NoJob.staged = FALSE
  /\ NoJob.todo = {} /\ NoJob.doomed = {} /\ NoJob.dirty = {} /\ NoJob.scope = {}
<1>1. NoVectors \in Vectors
  BY DEF NoVectors, Vectors, Revision
<1>2. 0 \in 0 .. MaxGeneration
  BY CollectionAssumption
<1> QED
  BY <1>1, <1>2 DEF NoJob, Jobs

LEMMA Initially == Init => IInv
<1> SUFFICES ASSUME Init PROVE IInv
  OBVIOUS
<1>1. Typed
  <2>1. 0 \in 0 .. MaxFaults /\ 0 \in 0 .. MaxCrashes /\ 0 \in 0 .. MaxBatches
    BY CollectionAssumption
  <2> QED
    BY <2>1, NothingYet DEF Init, Typed
<1>2. \A s \in Spaces : DOMAIN dir[s] = {} /\ DOMAIN synced[s] = {}
  BY DEF Init
<1>3. \A s \in Spaces : ~ Named(dir[s]) /\ ~ Named(synced[s])
  BY <1>2 DEF Named
<1>4. Disk
  <2>1. \A s \in Spaces : Settled(synced[s], dir[s])
    BY <1>2, <1>3 DEF Settled, Filed, NoCommits, GensOf
  <2> QED
    BY <2>1 DEF Disk, Init
<1>5. Promised
  BY <1>3 DEF Promised, Keeps, Init, NoVectors
<1>6. Memory
  BY DEF Init, Memory, Live
<1>7. Publication
  BY DEF Init, Publication, Publishing
<1>8. Maintenance
  BY NothingYet DEF Init, Maintenance, Maintaining
<1>9. Pins
  <2>1. 0 \in 0 .. MaxGeneration
    BY CollectionAssumption
  <2> QED
    BY <2>1 DEF Init, Pins, NoReader
<1> QED
  BY <1>1, <1>4, <1>5, <1>6, <1>7, <1>8, <1>9 DEF IInv

\* What the invariant says in the words of the code.
LEMMA NothingIsMissing ==
  ASSUME Disk, NEW s \in Spaces
  PROVE  /\ ~ SpaceLooksCorrupt(s)
         /\ Registered(s) <=> Named(dir[s])
         /\ Registered(s) => Generations(s) = GensOf(dir[s])
         /\ Committed(s) = GensOf(dir[s])
         /\ GensOf(dir[s]) \in SUBSET Generation /\ GensOf(synced[s]) \in SUBSET Generation
         /\ \A g \in GensOf(dir[s]) : HasPayload(s, g) /\ Loadable(s, g)
<1>1. Settled(synced[s], dir[s])
  BY DEF Disk
<1>2. /\ Registered(s) <=> Named(dir[s])
      /\ Registered(s) => Generations(s) = GensOf(dir[s])
      /\ Committed(s) = GensOf(dir[s])
  BY DEF Registered, Named, Generations, GensOf, Committed
<1>3. GensOf(dir[s]) \in SUBSET Generation /\ GensOf(synced[s]) \in SUBSET Generation
  BY <1>1, GensAre DEF Settled
<1>4. \A g \in GensOf(dir[s]) : Whole(dir[s], g)
  BY <1>1 DEF Settled
<1>5. \A g \in GensOf(dir[s]) : HasPayload(s, g) /\ Loadable(s, g)
  BY <1>4 DEF Whole, HasPayload, Loadable, Kinds
<1>6. ~ SpaceLooksCorrupt(s)
  <2>1. CASE Named(dir[s])
    BY <1>2, <1>4, <2>1 DEF SpaceLooksCorrupt, Whole, Kinds
  <2>2. CASE ~ Named(dir[s])
    BY <1>1, <1>2, <2>2 DEF SpaceLooksCorrupt, Settled, NoCommits
  <2> QED
    BY <2>1, <2>2
<1> QED
  BY <1>2, <1>3, <1>5, <1>6

\* The parts that only the steps of publication and maintenance, and of readers, touch.
LEMMA AtRest ==
  ASSUME pc' \in {"none", "idle"}, job' = NoJob
  PROVE  Publication' /\ Maintenance'
  BY NothingYet DEF Publication, Publishing, Maintenance, Maintaining

\* OpenCollection reads catalogs that are as they should be.
LEMMA OpenCollectionKeeps ==
  ASSUME IInv, OpenCollection
  PROVE  IInv'
<1>1. Typed /\ Disk /\ Promised /\ Memory /\ Publication /\ Maintenance /\ Pins
  BY DEF IInv
<1>2. \A s \in Spaces : ~ SpaceLooksCorrupt(s)
  BY <1>1, NothingIsMissing
<1>3. /\ pc = "none" /\ pc' = "maintain" /\ revisions' = text
      /\ spaces' = [s \in Spaces |->
           IF Registered(s) THEN [spec   |-> dir[s][Catalog].spec,
                                  newest |-> Newest(Generations(s))]
           ELSE None]
      /\ job' = [NoJob EXCEPT !.scope = Spaces, !.after = "opened"]
      /\ UNCHANGED <<text, dir, synced, gate, writeErr, readers, corrupt, acked, created,
                     faults, crashes, batches>>
  BY <1>2 DEF OpenCollection
<1>4. /\ job' \in Jobs /\ job'.after = "opened" /\ job'.staged = FALSE
      /\ job'.todo = {} /\ job'.doomed = {} /\ job'.dirty = {}
  BY <1>3, NothingYet DEF Jobs, NoJob
<1>5. Typed'
  BY <1>1, <1>3 DEF Typed
<1>6. Disk' /\ Promised'
  BY <1>1, <1>3 DEF Disk, Promised
<1>7. Memory'
  <2>1. ~ writeErr' /\ Live'
    BY <1>1, <1>3, <1>4 DEF Memory, Live
  <2>2. ASSUME NEW s \in Spaces
        PROVE  /\ spaces'[s] = None =>
                    created[s] = None /\ GensOf(dir[s]) = {} /\ GensOf(synced[s]) = {}
               /\ spaces'[s] # None =>
                    /\ Named(dir[s])
                    /\ spaces'[s] = [spec |-> dir[s][Catalog].spec, newest |-> Newest(GensOf(dir[s]))]
    <3>1. Settled(synced[s], dir[s]) /\ Keeps(dir[s], created[s], acked[s])
      BY <1>1 DEF Disk, Promised
    <3>2. /\ Registered(s) <=> Named(dir[s])
          /\ Registered(s) => Generations(s) = GensOf(dir[s])
          /\ GensOf(dir[s]) \in SUBSET Generation
      BY <1>1, NothingIsMissing
    <3>3. CASE Named(dir[s])
      <4>1. spaces'[s] = [spec |-> dir[s][Catalog].spec, newest |-> Newest(GensOf(dir[s]))]
        BY <1>3, <3>2, <3>3
      <4>2. dir[s][Catalog].spec \in Specs /\ Newest(GensOf(dir[s])) \in 0 .. MaxGeneration
        BY <3>1, <3>2, <3>3, NewestIs DEF Settled, Filed, Catalogs
      <4>3. spaces'[s] # None
        BY <4>1, <4>2, CollectionAssumption
      <4> QED
        BY <3>3, <4>1, <4>3
    <3>4. CASE ~ Named(dir[s])
      <4>1. spaces'[s] = None /\ ~ Named(synced[s])
        BY <1>3, <3>1, <3>2, <3>4 DEF Settled
      <4> QED
        BY <3>1, <3>4, <4>1 DEF Keeps, GensOf
    <3> QED
      BY <3>3, <3>4
  <2>3. spaces' = [s \in Spaces |-> spaces'[s]]
    BY <1>3
  <2> QED
    BY <1>3, <2>1, <2>2, <2>3 DEF Memory
<1>8. Publication'
  BY <1>3 DEF Publication, Publishing
<1>9. Maintenance'
  BY <1>3, <1>4 DEF Maintenance, Maintaining
<1>10. Pins'
  BY <1>1, <1>3 DEF Pins
<1> QED
  BY <1>5, <1>6, <1>7, <1>8, <1>9, <1>10 DEF IInv

\* Documents change, and what was acknowledged for them counts no more.
LEMMA EditDocumentsKeeps ==
  ASSUME IInv, NEW ids \in SUBSET Ids, NEW change \in [ids -> Revs] \cup {[id \in ids |-> None]},
         EditDocuments(change)
  PROVE  IInv'
<1>1. Typed /\ Disk /\ Promised /\ Memory /\ Publication /\ Maintenance /\ Pins
  BY DEF IInv
<1> DEFINE new == [id \in Ids |-> IF id \in DOMAIN change THEN change[id] ELSE text[id]]
<1>2. new \in Vectors
  <2>1. DOMAIN change = ids /\ \A id \in ids : change[id] \in Revision
    BY DEF Revision
  <2> QED
    BY <1>1, <2>1 DEF Typed, Vectors
<1>3. PICK applied \in {text, new} :
        /\ text' = applied
        /\ acked' = [s \in Spaces |-> [id \in Ids |->
                       IF applied[id] = text[id] THEN acked[s][id] ELSE None]]
        /\ \/ applied = new /\ revisions' = new /\ writeErr' = writeErr /\ faults' = faults
           \/ faults < MaxFaults /\ faults' = faults + 1 /\ writeErr' = TRUE /\ revisions' = revisions
  BY DEF EditDocuments
<1>4. /\ pc = "idle" /\ ~ writeErr /\ batches < MaxBatches /\ batches' = batches + 1
      /\ UNCHANGED <<dir, synced, gate, pc, spaces, job, readers, corrupt, created, crashes>>
  BY DEF EditDocuments, Ready
<1> HIDE DEF new
<1>5. applied \in Vectors
  BY <1>1, <1>2, <1>3 DEF Typed
<1>6. acked' \in [Spaces -> Vectors]
  BY <1>1, <1>3 DEF Typed, Vectors, Revision
<1>7. Typed'
  <2>1. batches' \in 0 .. MaxBatches /\ faults' \in 0 .. MaxFaults
    BY <1>1, <1>3, <1>4, CollectionAssumption DEF Typed
  <2> QED
    BY <1>1, <1>2, <1>3, <1>4, <1>5, <1>6, <2>1 DEF Typed
<1>8. Disk'
  BY <1>1, <1>4 DEF Disk
<1>9. Promised'
  <2>1. \A s \in Spaces, id \in Ids :
          acked'[s][id] # None => acked'[s][id] = acked[s][id] /\ acked[s][id] = text'[id]
    BY <1>1, <1>3 DEF Promised
  <2>2. \A s \in Spaces : Keeps(dir[s], created[s], acked'[s]) /\ Keeps(synced[s], created[s], acked'[s])
    BY <1>1, <2>1 DEF Promised, Keeps
  <2> QED
    BY <1>4, <2>1, <2>2 DEF Promised
<1>10. job = NoJob
  BY <1>1, <1>4 DEF Maintenance
<1>11. Memory'
  <2>1. Live /\ Live'
    BY <1>4, <1>10, NothingYet DEF Live
  <2> QED
    BY <1>1, <1>3, <1>4, <2>1 DEF Memory
<1>12. Publication' /\ Maintenance'
  BY <1>4, <1>10, AtRest
<1>13. Pins'
  BY <1>1, <1>4 DEF Pins
<1> QED
  BY <1>7, <1>8, <1>9, <1>11, <1>12, <1>13 DEF IInv

\* A space the owner does not know has no generations, so an empty catalog takes nothing away.
LEMMA CreateVectorSpaceKeeps ==
  ASSUME IInv, NEW s \in Spaces, NEW spec \in Specs, CreateVectorSpace(s, spec)
  PROVE  IInv' /\ Unaltered
<1>1. Typed /\ Disk /\ Promised /\ Memory /\ Publication /\ Maintenance /\ Pins
  BY DEF IInv
<1> DEFINE catalog == [spec |-> spec, generations |-> {}]
           full    == Put(dir[s], Catalog, catalog)
<1>2. /\ pc = "idle" /\ ~ writeErr /\ spaces[s] = None /\ gate = None
      /\ UNCHANGED <<text, gate, pc, revisions, writeErr, job, readers, corrupt,
                     acked, crashes, batches>>
  BY DEF CreateVectorSpace, Ready, Free
<1>3. job = NoJob /\ Live /\ Live'
  BY <1>1, <1>2, NothingYet DEF Maintenance, Live
<1>4. /\ created[s] = None /\ GensOf(dir[s]) = {} /\ GensOf(synced[s]) = {}
      /\ Settled(synced[s], dir[s])
  BY <1>1, <1>2, <1>3 DEF Memory, Disk
<1>5. \A id \in Ids : acked[s][id] = None
  BY <1>1, <1>4 DEF Promised, Keeps
<1>6. /\ Filed(full) /\ Named(full) /\ full[Catalog] = catalog /\ GensOf(full) = {}
      /\ NoCommits(dir[s]) => NoCommits(full)
  <2>1. catalog \in Catalogs /\ Filed(dir[s])
    BY <1>4 DEF Catalogs, Settled
  <2> HIDE DEF catalog
  <2>2. catalog.generations = {}
    BY DEF catalog
  <2> QED
    BY <2>1, <2>2, PutCatalog
<1>7. Settled(synced[s], full) /\ Settled(full, full)
  <2>1. ~ Named(synced[s]) => NoCommits(full)
    BY <1>4, <1>6 DEF Settled
  <2> HIDE DEF full
  <2> QED
    BY <1>4, <1>6, <2>1, SettledAgain
<1> DEFINE emptied == Without(full, {})
<1>8. /\ Settled(synced[s], emptied) /\ Named(emptied) /\ GensOf(emptied) = {}
      /\ emptied[Catalog] = catalog
  <2> HIDE DEF full
  <2>1. Aside(synced[s], full, emptied)
    BY <1>7, Staging
  <2>2. Settled(synced[s], emptied) /\ SameCatalog(full, emptied)
    BY <2>1 DEF Aside
  <2> QED
    BY <1>6, <2>2, SameGens DEF SameCatalog
<1>9. Aside(synced[s], dir[s], Without(dir[s], {}))
  BY <1>4, Staging
<1>10. \/ /\ dir' = [dir EXCEPT ![s] = full] /\ synced' = [synced EXCEPT ![s] = dir'[s]]
          /\ spaces' = [spaces EXCEPT ![s] = [spec |-> spec, newest |-> 0]]
          /\ created' = [created EXCEPT ![s] = spec] /\ faults' = faults
       \/ /\ \E files \in {dir[s], full} : dir' = [dir EXCEPT ![s] = Without(files, {})]
          /\ UNCHANGED <<synced, spaces, created>> /\ faults < MaxFaults /\ faults' = faults + 1
  BY DEF CreateVectorSpace, Written, NotWritten
<1>11. PICK h : /\ dir' = [dir EXCEPT ![s] = h]
                /\ \/ /\ h = full /\ synced' = [synced EXCEPT ![s] = h]
                      /\ spaces' = [spaces EXCEPT ![s] = [spec |-> spec, newest |-> 0]]
                      /\ created' = [created EXCEPT ![s] = spec] /\ faults' = faults
                   \/ /\ h \in {Without(dir[s], {}), emptied}
                      /\ UNCHANGED <<synced, spaces, created>>
                      /\ faults < MaxFaults /\ faults' = faults + 1
  <2> HIDE DEF full
  <2> QED
    BY <1>1, <1>10 DEF Disk
<1>12. /\ dir' = [x \in Spaces |-> dir'[x]] /\ synced' = [x \in Spaces |-> synced'[x]]
       /\ dir'[s] = h /\ synced'[s] \in {synced[s], h}
       /\ \A x \in Spaces \ {s} : dir'[x] = dir[x] /\ synced'[x] = synced[x]
  BY <1>1, <1>11 DEF Disk
<1>13. GensOf(h) = {} /\ Settled(synced[s], h) /\ Settled(h, h)
  <2> HIDE DEF full, emptied
  <2>1. GensOf(Without(dir[s], {})) = {} /\ Settled(synced[s], Without(dir[s], {}))
    BY <1>4, <1>9, SameGens DEF Aside
  <2>2. GensOf(h) = {} /\ Settled(synced[s], h)
    BY <1>6, <1>7, <1>8, <1>11, <2>1
  <2> QED
    BY <2>2, SettledNow
<1>14. spaces'[s] = None \/ (h = full /\ spaces'[s] = [spec |-> spec, newest |-> 0])
  BY <1>1, <1>2, <1>11 DEF Memory
<1> HIDE DEF full, emptied, catalog
<1>15. Disk'
  BY <1>1, <1>12, <1>13 DEF Disk
<1>16. Typed'
  BY <1>1, <1>2, <1>11, CollectionAssumption DEF Typed
<1>17. Promised'
  <2>1. Keeps(h, created'[s], acked[s]) /\ Keeps(synced'[s], created'[s], acked[s])
    <3>1. CASE h = full /\ created' = [created EXCEPT ![s] = spec] /\ synced' = [synced EXCEPT ![s] = h]
      <4>1. created'[s] = spec /\ synced'[s] = h /\ Named(h) /\ h[Catalog].spec = spec
        BY <1>1, <1>6, <1>12, <3>1 DEF Typed, Disk, catalog
      <4> QED
        BY <1>5, <4>1 DEF Keeps
    <3>2. CASE UNCHANGED <<created, synced>>
      BY <1>4, <1>5, <3>2 DEF Keeps
    <3> QED
      BY <1>11, <3>1, <3>2
  <2>2. \A x \in Spaces \ {s} : created'[x] = created[x]
    BY <1>1, <1>11 DEF Typed
  <2>3. \A x \in Spaces : Keeps(dir'[x], created'[x], acked'[x]) /\ Keeps(synced'[x], created'[x], acked'[x])
    BY <1>1, <1>2, <1>12, <2>1, <2>2 DEF Promised
  <2>4. \A x \in Spaces, id \in Ids : acked'[x][id] # None => acked'[x][id] = text'[id]
    BY <1>1, <1>2 DEF Promised
  <2> QED
    BY <2>3, <2>4 DEF Promised
<1>18. Memory'
  <2>1. \A x \in Spaces \ {s} : created'[x] = created[x] /\ spaces'[x] = spaces[x]
    BY <1>1, <1>11 DEF Typed, Memory
  <2>2. spaces'[s] = None => created'[s] = None /\ GensOf(dir'[s]) = {} /\ GensOf(synced'[s]) = {}
    <3>1. CASE UNCHANGED created
      BY <1>4, <1>12, <1>13, <3>1
    <3>2. CASE spaces' = [spaces EXCEPT ![s] = [spec |-> spec, newest |-> 0]]
      <4>1. spaces'[s] = [spec |-> spec, newest |-> 0]
        BY <1>1, <3>2 DEF Memory
      <4>2. 0 \in 0 .. MaxGeneration
        BY CollectionAssumption
      <4>3. spaces'[s] # None
        BY <4>1, <4>2, CollectionAssumption
      <4> QED
        BY <4>3
    <3> QED
      BY <1>11, <3>1, <3>2
  <2>3. spaces'[s] # None =>
          /\ Named(dir'[s])
          /\ spaces'[s] = [spec |-> dir'[s][Catalog].spec, newest |-> Newest(GensOf(dir'[s]))]
    <3> SUFFICES ASSUME spaces'[s] # None
                 PROVE  /\ Named(h)
                        /\ spaces'[s] = [spec |-> h[Catalog].spec, newest |-> Newest(GensOf(h))]
      BY <1>12
    <3>1. h = full /\ spaces'[s] = [spec |-> spec, newest |-> 0]
      BY <1>14
    <3>2. Newest(GensOf(h)) = 0 /\ h[Catalog].spec = spec
      BY <1>6, <1>13, <3>1 DEF Newest, catalog
    <3> QED
      BY <1>6, <3>1, <3>2
  <2>4. spaces' = [x \in Spaces |-> spaces'[x]]
    BY <1>1, <1>11 DEF Memory
  <2>5. ~ writeErr' /\ revisions' = text'
    BY <1>1, <1>2, <1>3 DEF Memory
  <2>6. \A x \in Spaces \ {s} :
          /\ spaces'[x] = None => created'[x] = None /\ GensOf(dir'[x]) = {} /\ GensOf(synced'[x]) = {}
          /\ spaces'[x] # None =>
               /\ Named(dir'[x])
               /\ spaces'[x] = [spec |-> dir'[x][Catalog].spec, newest |-> Newest(GensOf(dir'[x]))]
    BY <1>1, <1>2, <1>3, <1>12, <2>1 DEF Memory
  <2> QED
    BY <1>3, <2>2, <2>3, <2>4, <2>5, <2>6 DEF Memory
<1>19. Publication' /\ Maintenance'
  BY <1>2, <1>3, AtRest
<1>20. Pins'
  <2>1. \A r \in Readers, x \in Spaces :
          readers[r].pc # "closed" /\ readers[r].pins[x] # 0 => readers[r].pins[x] \in GensOf(dir'[x])
    BY <1>1, <1>4, <1>12 DEF Pins
  <2> QED
    BY <1>1, <1>2, <2>1 DEF Pins
<1>21. Unaltered
  <2> SUFFICES ASSUME NEW x \in Spaces, NEW g \in GensOf(dir[x]) \cap GensOf(dir'[x])
               PROVE  Alike(dir[x], dir'[x], g)
    BY DEF Unaltered
  <2>1. x # s /\ Settled(synced[x], dir[x])
    BY <1>1, <1>4 DEF Disk
  <2>2. Settled(dir[x], dir[x]) /\ dir'[x] = dir[x]
    BY <1>12, <2>1, SettledNow
  <2> QED
    BY <2>2 DEF Settled
<1> QED
  BY <1>15, <1>16, <1>17, <1>18, <1>19, <1>20, <1>21 DEF IInv

\* Numbers that were ever used for a file of a space are at most the last one.
LEMMA LastIs ==
  ASSUME Disk, NEW s \in Spaces
  PROVE  /\ LastGeneration(s) \in 0 .. MaxGeneration
         /\ \A g \in GensOf(dir[s]) \cup GensOf(synced[s]) : g <= LastGeneration(s)
<1>1. Numbers(s) \in SUBSET Generation
  <2>1. \A n \in Names : n[1] \in Kinds => n[2] \in Generation
    BY DEF Names, Kinds, Catalog, Pending
  <2>2. DOMAIN dir[s] \subseteq Names
    BY DEF Disk, Settled, Filed
  <2> QED
    BY <2>1, <2>2 DEF Numbers, Kinds
<1>2. \A g \in GensOf(dir[s]) \cup GensOf(synced[s]) : g \in Numbers(s)
  <2> SUFFICES ASSUME NEW g \in GensOf(dir[s]) \cup GensOf(synced[s]) PROVE g \in Numbers(s)
    OBVIOUS
  <2>1. <<"index", g>> \in DOMAIN dir[s]
    BY DEF Disk, Settled, Whole, Kinds
  <2>2. g \in Generation
    BY NothingIsMissing
  <2>3. <<"index", g>>[1] = "index" /\ <<"index", g>>[2] = g
    OBVIOUS
  <2> QED
    BY <2>1, <2>3 DEF Numbers
<1> QED
  BY <1>1, <1>2, NewestIs DEF LastGeneration

-----------------------------------------------------------------------------
(* Publication *)

\* What the owner remembers of a space that it knows.
LEMMA Remembered ==
  ASSUME Disk, Memory, Live, ~ writeErr, NEW s \in Spaces, spaces[s] # None
  PROVE  /\ revisions = text /\ Named(dir[s])
         /\ spaces[s].spec = dir[s][Catalog].spec /\ spaces[s].newest = Newest(GensOf(dir[s]))
         /\ Loadable(s, spaces[s].newest) /\ ~ SpaceChanged(s)
<1>1. /\ revisions = text /\ Named(dir[s])
      /\ spaces[s] = [spec |-> dir[s][Catalog].spec, newest |-> Newest(GensOf(dir[s]))]
  BY DEF Memory
<1>2. spaces[s].spec = dir[s][Catalog].spec /\ spaces[s].newest = Newest(GensOf(dir[s]))
  BY <1>1
<1>3. /\ ~ SpaceLooksCorrupt(s) /\ Registered(s) /\ Generations(s) = GensOf(dir[s])
      /\ GensOf(dir[s]) \in SUBSET Generation
      /\ \A g \in GensOf(dir[s]) : Loadable(s, g)
  BY <1>1, NothingIsMissing
<1>4. Newest(GensOf(dir[s])) = 0 \/ Newest(GensOf(dir[s])) \in GensOf(dir[s])
  BY <1>3, NewestIs
<1>5. Loadable(s, 0)
  BY DEF Loadable
<1>6. Loadable(s, spaces[s].newest)
  BY <1>2, <1>3, <1>4, <1>5
<1> QED
  BY <1>1, <1>2, <1>3, <1>6 DEF SpaceChanged

\* The new generation has every acknowledged vector.
LEMMA UpsertVectorsKeeps ==
  ASSUME IInv, NEW s \in Spaces, NEW ids \in SUBSET Ids, NEW records \in [ids -> Revs],
         UpsertVectors(s, records)
  PROVE  IInv' /\ Gentle
<1>1. Typed /\ Disk /\ Promised /\ Memory /\ Publication /\ Maintenance /\ Pins
  BY DEF IInv
<1>2. /\ pc = "idle" /\ ~ writeErr /\ spaces[s] # None
      /\ batches < MaxBatches /\ batches' = batches + 1 /\ Conflicts(records) = {}
      /\ UNCHANGED <<text, synced, gate, revisions, spaces, writeErr, readers, acked,
                     created, faults, crashes>>
  BY DEF UpsertVectors, Ready
<1>3. job = NoJob /\ Live
  BY <1>1, <1>2, NothingYet DEF Maintenance, Live
<1>4. /\ revisions = text /\ Named(dir[s]) /\ spaces[s].newest = Newest(GensOf(dir[s]))
      /\ Loadable(s, spaces[s].newest)
  BY <1>1, <1>2, <1>3, Remembered
<1> DEFINE newest  == spaces[s].newest
           base    == IF newest = 0 THEN NoVectors ELSE dir[s][<<"index", newest>>]
           basis   == IF newest = 0 THEN NoVectors ELSE dir[s][<<"metadata", newest>>]
           updated == Updated(base, base, records)
<1>5. /\ GensOf(dir[s]) \in SUBSET Generation /\ GensOf(synced[s]) \in SUBSET Generation
      /\ newest = 0 <=> GensOf(dir[s]) = {}
      /\ newest # 0 => newest \in GensOf(dir[s])
  BY <1>1, <1>4, NothingIsMissing, NewestIs
<1>6. basis = base /\ base \in Vectors
  <2>1. \A g \in GensOf(dir[s]) : Whole(dir[s], g)
    BY <1>1 DEF Disk, Settled
  <2>2. CASE newest = 0
    BY <2>2, NothingYet
  <2>3. CASE newest # 0
    BY <1>5, <2>1, <2>3 DEF Whole
  <2> QED
    BY <2>2, <2>3
<1>7. /\ LastGeneration(s) < MaxGeneration
      /\ dir' = [dir EXCEPT ![s] = Put(@, Pending, 0)]
      /\ job' = [NoJob EXCEPT
           !.space = s, !.generation = LastGeneration(s) + 1, !.staged = TRUE,
           !.index    = Updated(base, basis, records),
           !.metadata = Updated(basis, basis, records),
           !.records  = DOMAIN records, !.scope = {s}]
      /\ pc' = "index" /\ UNCHANGED corrupt
  BY <1>4 DEF UpsertVectors
<1> HIDE DEF newest, base, basis
<1>8. \A id \in Ids : updated[id] = CASE id \in ids -> records[id]
                                      [] base[id] # revisions[id] -> None
                                      [] OTHER -> base[id]
  BY DEF Updated
<1>9. updated \in Vectors
  <2>1. \A id \in Ids : updated[id] \in Revision
    BY <1>6, <1>8 DEF Vectors, Revision
  <2>2. updated = [id \in Ids |-> updated[id]]
    BY DEF Updated
  <2> HIDE DEF updated
  <2> QED
    BY <2>1, <2>2 DEF Vectors
<1>10. \A id \in Ids : acked[s][id] # None => updated[id] = acked[s][id]
  <2> SUFFICES ASSUME NEW id \in Ids, acked[s][id] # None PROVE updated[id] = acked[s][id]
    OBVIOUS
  <2>1. acked[s][id] = text[id]
    BY <1>1 DEF Promised
  <2>2. id \in ids => records[id] = text[id]
    BY <1>2, <1>4 DEF Conflicts
  <2>3. base[id] = acked[s][id]
    <3>1. GensOf(dir[s]) # {} /\ dir[s][<<"index", Newest(GensOf(dir[s]))>>][id] = acked[s][id]
      BY <1>1 DEF Promised, Keeps
    <3>2. newest # 0 /\ newest = Newest(GensOf(dir[s]))
      BY <1>4, <1>5, <3>1 DEF newest
    <3> QED
      BY <3>1, <3>2 DEF base
  <2> HIDE DEF updated
  <2> QED
    BY <1>4, <1>8, <2>1, <2>2, <2>3
<1> HIDE DEF updated
<1>11. /\ job' = [space |-> s, generation |-> LastGeneration(s) + 1, index |-> updated,
                  metadata |-> updated, records |-> ids, scope |-> {s}, todo |-> {},
                  doomed |-> {}, dirty |-> {}, staged |-> TRUE, after |-> "idle"]
  BY <1>6, <1>7 DEF NoJob, updated
<1>12. /\ LastGeneration(s) \in 0 .. MaxGeneration
       /\ \A g \in GensOf(dir[s]) \cup GensOf(synced[s]) : g <= LastGeneration(s)
  BY <1>1, LastIs
<1>13. /\ LastGeneration(s) + 1 \in Generation /\ LastGeneration(s) + 1 \in 0 .. MaxGeneration
       /\ \A g \in GensOf(dir[s]) \cup GensOf(synced[s]) : g < LastGeneration(s) + 1
  <2>1. Generation \subseteq Nat /\ MaxGeneration \in Nat
    BY CollectionAssumption DEF Generation
  <2> QED
    BY <1>5, <1>7, <1>12, <2>1 DEF Generation
<1>14. Aside(synced[s], dir[s], Put(dir[s], Pending, 0))
  BY <1>1, Staging DEF Disk
<1>15. /\ Gentle /\ synced'[s] = synced[s] /\ GensOf(dir'[s]) = GensOf(dir[s])
  <2>1. dir' = [dir EXCEPT ![s] = Put(dir[s], Pending, 0)] /\ synced' = [synced EXCEPT ![s] = synced[s]]
    BY <1>1, <1>2, <1>7 DEF Disk
  <2>2. Gentle /\ dir'[s] = Put(dir[s], Pending, 0)
    BY <1>1, <1>14, <2>1, StepAside
  <2> QED
    BY <1>2, <1>14, <2>2, AsideSoft
<1>16. /\ pc' = "index" /\ job'.space = s /\ job'.generation = LastGeneration(s) + 1
       /\ job'.index = updated /\ job'.metadata = updated /\ job'.scope = {s} /\ job'.todo = {}
       /\ job'.doomed = {} /\ job'.dirty = {} /\ job'.staged /\ job'.after = "idle"
  <2>1. pc' = "index"
    BY <1>7
  <2> QED
    BY <1>11, <2>1
<1>21. Live'
  BY <1>16 DEF Live
<1>17. Disk' /\ Promised' /\ Memory' /\ Pins'
  BY <1>2, <1>3, <1>15, <1>16, <1>21, GentleStep
<1>18. Typed'
  <2>1. batches' \in 0 .. MaxBatches
    BY <1>1, <1>2, CollectionAssumption DEF Typed
  <2> QED
    BY <1>1, <1>2, <1>7, <2>1 DEF Typed
<1>19. Publication'
  BY <1>2, <1>9, <1>10, <1>13, <1>15, <1>16 DEF Publication
<1>20. Maintenance'
  <2>1. job' \in Jobs
    BY <1>9, <1>11, <1>13 DEF Jobs
  <2> QED
    BY <1>7, <1>11, <2>1 DEF Maintenance, Maintaining
<1> QED
  BY <1>15, <1>17, <1>18, <1>19, <1>20 DEF IInv

\* The facts of a publication under way.
LEMMA PublicationIs ==
  ASSUME IInv, Publishing
  PROVE  /\ job.space \in Spaces /\ job.generation \in Generation
         /\ Settled(synced[job.space], dir[job.space]) /\ Named(dir[job.space])
         /\ ~ SpaceChanged(job.space) /\ Live /\ ~ writeErr
         /\ GensOf(dir[job.space]) \in SUBSET Generation
         /\ GensOf(synced[job.space]) \in SUBSET Generation
         /\ \A g \in GensOf(dir[job.space]) \cup GensOf(synced[job.space]) : g # job.generation
         /\ \A kind \in Kinds : /\ <<kind, job.generation>> \in Names
                                /\ <<kind, job.generation>> # Catalog
                                /\ <<kind, job.generation>>[1] = kind
         /\ \A g \in GensOf(dir[job.space]) \cup GensOf(synced[job.space]), kind, other \in Kinds :
              <<kind, g>> # <<other, job.generation>>
<1> DEFINE s == job.space
<1>1. /\ Disk /\ Memory /\ s \in Spaces /\ job.generation \in Generation /\ ~ writeErr
      /\ spaces[s] # None /\ job.after = "idle"
      /\ \A g \in GensOf(dir[s]) \cup GensOf(synced[s]) : g < job.generation
  BY DEF IInv, Publication
<1>2. Live
  BY <1>1 DEF Live, Publishing
<1>3. Named(dir[s]) /\ ~ SpaceChanged(s)
  BY <1>1, <1>2, Remembered
<1>4. GensOf(dir[s]) \in SUBSET Generation /\ GensOf(synced[s]) \in SUBSET Generation
  BY <1>1, NothingIsMissing
<1>5. \A g \in GensOf(dir[s]) \cup GensOf(synced[s]) : g # job.generation
  <2>1. Generation \subseteq Nat
    BY CollectionAssumption DEF Generation
  <2> QED
    BY <1>1, <1>4, <2>1
<1>6. /\ \A kind \in Kinds : /\ <<kind, job.generation>> \in Names
                             /\ <<kind, job.generation>> # Catalog
                             /\ <<kind, job.generation>>[1] = kind
      /\ \A g \in GensOf(dir[s]) \cup GensOf(synced[s]), kind, other \in Kinds :
           <<kind, g>> # <<other, job.generation>>
  BY <1>1, <1>4, <1>5, NamesAre
<1> QED
  BY <1>1, <1>2, <1>3, <1>4, <1>5, <1>6 DEF Disk

\* A publication that fails before its catalog leaves files that no catalog names.
LEMMA GivenUp ==
  ASSUME IInv, Publishing, NEW h, Aside(synced[job.space], dir[job.space], h),
         dir' = [dir EXCEPT ![job.space] = h], synced' = synced, GiveUp,
         faults' \in 0 .. MaxFaults,
         UNCHANGED <<text, gate, revisions, spaces, writeErr, readers, corrupt, acked,
                     created, crashes, batches>>
  PROVE  IInv' /\ Gentle
<1> DEFINE s == job.space
<1>1. Typed /\ Disk /\ s \in Spaces /\ Live
  BY PublicationIs DEF IInv
<1>2. synced' = [synced EXCEPT ![s] = synced[s]]
  BY <1>1 DEF Disk
<1>3. Gentle
  BY <1>1, <1>2, StepAside
<1>4. pc' = "idle" /\ job' = NoJob
  BY DEF GiveUp
<1>5. Live'
  BY <1>4, NothingYet DEF Live
<1>6. Disk' /\ Promised' /\ Memory' /\ Pins'
  BY <1>1, <1>3, <1>4, <1>5, GentleStep
<1>7. Typed'
  BY <1>1, <1>4 DEF Typed
<1>8. Publication' /\ Maintenance'
  BY <1>4, AtRest
<1> QED
  BY <1>3, <1>6, <1>7, <1>8 DEF IInv

LEMMA NotWrittenKeeps ==
  ASSUME IInv, Publishing, NEW kind \in Kinds, NEW content,
         kind = "commit" => pc = "commit",
         NotWritten(job.space, <<kind, job.generation>>, content, {Pending}), GiveUp,
         UNCHANGED <<text, gate, revisions, spaces, writeErr, readers, corrupt, acked,
                     created, crashes, batches>>
  PROVE  IInv' /\ Gentle
<1> DEFINE s    == job.space
           name == <<kind, job.generation>>
           full == Put(dir[s], name, content)
<1>1. /\ s \in Spaces /\ Settled(synced[s], dir[s]) /\ name \in Names /\ name # Catalog
      /\ name[1] = "commit" => kind = "commit"
      /\ \A g \in GensOf(dir[s]) \cup GensOf(synced[s]), other \in Kinds : <<other, g>> # name
      /\ Named(dir[s])
  BY PublicationIs
<1>2. kind = "commit" => Named(synced[s])
  BY <1>1 DEF IInv, Publication
<1>3. Aside(synced[s], dir[s], full)
  <2> HIDE DEF name
  <2> QED
    BY <1>1, <1>2, PutAside
<1>4. PICK files \in {dir[s], full} : dir' = [dir EXCEPT ![s] = Without(files, {Pending})]
  BY DEF NotWritten
<1> HIDE DEF full
<1>5. Aside(synced[s], dir[s], Without(files, {Pending}))
  <2>1. CASE files = dir[s]
    BY <1>1, <2>1, Staging
  <2>2. CASE files = full
    <3>1. Settled(synced[s], full) /\ Settled(dir[s], full)
      BY <1>3 DEF Aside
    <3>2. /\ Aside(synced[s], full, Without(full, {Pending}))
          /\ Aside(dir[s], full, Without(full, {Pending}))
      BY <3>1, Staging
    <3> QED
      BY <1>3, <2>2, <3>2, AsideAgain
  <2> QED
    BY <2>1, <2>2
<1>6. faults' \in 0 .. MaxFaults /\ synced' = synced
  <2>1. faults \in 0 .. MaxFaults /\ faults < MaxFaults /\ faults' = faults + 1 /\ MaxFaults \in Nat
    BY CollectionAssumption DEF NotWritten, IInv, Typed
  <2> QED
    BY <2>1 DEF NotWritten
<1> QED
  BY <1>4, <1>5, <1>6, GivenUp

\* A file of the new generation is written and synced.
LEMMA WrittenIs ==
  ASSUME IInv, Publishing, NEW kind \in Kinds, NEW content,
         kind = "commit" => pc = "commit",
         Written(job.space, <<kind, job.generation>>, content)
  PROVE  /\ Gentle /\ synced'[job.space] = dir'[job.space]
         /\ GensOf(dir'[job.space]) = GensOf(dir[job.space])
         /\ DOMAIN dir'[job.space] = DOMAIN dir[job.space] \cup {<<kind, job.generation>>}
         /\ dir'[job.space][<<kind, job.generation>>] = content
         /\ \A n \in DOMAIN dir[job.space] \ {<<kind, job.generation>>} :
              dir'[job.space][n] = dir[job.space][n]
<1> DEFINE s    == job.space
           name == <<kind, job.generation>>
           full == Put(dir[s], name, content)
<1>1. /\ s \in Spaces /\ Settled(synced[s], dir[s]) /\ name \in Names /\ name # Catalog
      /\ name[1] = "commit" => kind = "commit"
      /\ \A g \in GensOf(dir[s]) \cup GensOf(synced[s]), other \in Kinds : <<other, g>> # name
      /\ Named(dir[s])
  BY PublicationIs
<1>2. kind = "commit" => Named(synced[s])
  BY <1>1 DEF IInv, Publication
<1>3. Aside(synced[s], dir[s], full)
  <2> HIDE DEF name
  <2> QED
    BY <1>1, <1>2, PutAside
<1>4. /\ DOMAIN full = DOMAIN dir[s] \cup {name} /\ full[name] = content
      /\ \A n \in DOMAIN dir[s] \ {name} : full[n] = dir[s][n]
  BY DEF Put
<1>5. Disk /\ dir' = [dir EXCEPT ![s] = full]
  BY DEF Written, IInv
<1> HIDE DEF full
<1>6. synced' = [synced EXCEPT ![s] = full]
  BY <1>1, <1>5 DEF Written, Disk
<1>7. Gentle /\ dir'[s] = full /\ synced'[s] = full
  BY <1>1, <1>3, <1>5, <1>6, StepAside
<1> QED
  BY <1>3, <1>4, <1>7, AsideSoft

\* Writing the index, then the metadata.
LEMMA PayloadWritten ==
  ASSUME IInv, NEW kind \in {"index", "metadata"}, pc = kind,
         Written(job.space, <<kind, job.generation>>, job.index),
         pc' = (IF kind = "index" THEN "metadata" ELSE "commit"),
         UNCHANGED <<text, gate, revisions, spaces, writeErr, job, readers, corrupt, acked,
                     created, faults, crashes, batches>>
  PROVE  IInv' /\ Gentle
<1> DEFINE s == job.space
<1>1. Typed /\ Publication /\ Maintenance /\ Publishing /\ kind \in Kinds /\ kind # "commit"
  BY DEF IInv, Publishing, Kinds
<1>2. Live /\ s \in Spaces /\ job.generation \in Generation
  BY <1>1, PublicationIs
<1>3. /\ Gentle /\ synced'[s] = dir'[s] /\ GensOf(dir'[s]) = GensOf(dir[s])
      /\ DOMAIN dir'[s] = DOMAIN dir[s] \cup {<<kind, job.generation>>}
      /\ dir'[s][<<kind, job.generation>>] = job.index
      /\ \A n \in DOMAIN dir[s] \ {<<kind, job.generation>>} : dir'[s][n] = dir[s][n]
  BY <1>1, WrittenIs
<1>4. Live' /\ pc' # "catalog" /\ pc' # "maintaining" /\ pc' # "sweeping"
  BY <1>2 DEF Live
<1>5. Disk' /\ Promised' /\ Memory' /\ Pins'
  BY <1>2, <1>3, <1>4, GentleStep
<1>6. Typed'
  BY <1>1 DEF Typed
<1>7. Publication'
  <2>1. /\ ~ writeErr /\ job.after = "idle" /\ job.staged
        /\ job.space \in Spaces /\ spaces[job.space] # None /\ job.scope = {job.space}
        /\ job.todo = {} /\ job.doomed = {} /\ job.dirty = {}
        /\ job.index \in Vectors /\ job.metadata = job.index
        /\ \A id \in Ids : acked[job.space][id] # None => job.index[id] = acked[job.space][id]
        /\ \A g \in GensOf(dir'[s]) \cup GensOf(synced'[s]) : g < job.generation
    BY <1>1, <1>3 DEF Publication
  <2>2. <<"index", job.generation>> \in DOMAIN dir'[s] /\ dir'[s][<<"index", job.generation>>] = job.index
    <3>1. CASE kind = "index"
      BY <1>3, <3>1
    <3>2. CASE kind = "metadata"
      <4>1. /\ <<"index", job.generation>> \in DOMAIN dir[s]
            /\ dir[s][<<"index", job.generation>>] = job.index
        BY <1>1, <3>2 DEF Publication
      <4>2. <<"index", job.generation>> # <<kind, job.generation>>
        BY <3>2
      <4> QED
        BY <1>3, <4>1, <4>2
    <3> QED
      BY <3>1, <3>2
  <2>3. pc' = "commit" => /\ <<"metadata", job.generation>> \in DOMAIN dir'[s]
                          /\ dir'[s][<<"metadata", job.generation>>] = job.metadata
    BY <1>3, <2>1
  <2> QED
    BY <1>2, <1>3, <1>4, <2>1, <2>2, <2>3 DEF Publication
<1>8. Maintenance'
  <2>1. pc' \in {"metadata", "commit"} /\ job' = job
    OBVIOUS
  <2> QED
    BY <1>1, <2>1 DEF Maintenance, Maintaining
<1> QED
  BY <1>3, <1>5, <1>6, <1>7, <1>8 DEF IInv

\* The metadata are the index's.
LEMMA PublishPayloadKeeps ==
  ASSUME IInv, PublishIndex \/ PublishMetadata
  PROVE  IInv' /\ Gentle
<1>1. CASE PublishIndex
  <2>1. pc = "index" /\ Publishing /\ "index" \in Kinds
    BY <1>1 DEF PublishIndex, PublishPayload, Publishing, Kinds
  <2>2. UNCHANGED <<text, gate, revisions, spaces, writeErr, readers, corrupt, acked,
                    created, crashes, batches>>
    BY <1>1 DEF PublishIndex, PublishPayload
  <2>3. CASE /\ Written(job.space, <<"index", job.generation>>, job.index)
             /\ pc' = "metadata" /\ UNCHANGED <<job, faults>>
    BY <2>1, <2>2, <2>3, PayloadWritten
  <2>4. CASE /\ NotWritten(job.space, <<"index", job.generation>>, job.index, {Pending}) /\ GiveUp
    BY <2>1, <2>2, <2>4, NotWrittenKeeps
  <2> QED
    BY <1>1, <2>3, <2>4 DEF PublishIndex, PublishPayload
<1>2. CASE PublishMetadata
  <2>1. pc = "metadata" /\ Publishing /\ "metadata" \in Kinds
    BY <1>2 DEF PublishMetadata, PublishPayload, Publishing, Kinds
  <2>2. UNCHANGED <<text, gate, revisions, spaces, writeErr, readers, corrupt, acked,
                    created, crashes, batches>>
    BY <1>2 DEF PublishMetadata, PublishPayload
  <2>3. CASE /\ Written(job.space, <<"metadata", job.generation>>, job.metadata)
             /\ pc' = "commit" /\ UNCHANGED <<job, faults>>
    <3>1. job.metadata = job.index
      BY <2>1 DEF IInv, Publication
    <3> QED
      BY <2>1, <2>2, <2>3, <3>1, PayloadWritten
  <2>4. CASE /\ NotWritten(job.space, <<"metadata", job.generation>>, job.metadata, {Pending}) /\ GiveUp
    BY <2>1, <2>2, <2>4, NotWrittenKeeps
  <2> QED
    BY <1>2, <2>3, <2>4 DEF PublishMetadata, PublishPayload
<1> QED
  BY <1>1, <1>2

\* The commit follows its payload; nobody has changed the space meanwhile.
LEMMA PublishCommitKeeps ==
  ASSUME IInv, PublishCommit
  PROVE  IInv' /\ Gentle
<1> DEFINE s == job.space
           commit == [index |-> job.index, metadata |-> job.metadata]
<1>1. /\ Typed /\ Publication /\ Maintenance /\ Pins /\ pc = "commit" /\ Publishing
      /\ "commit" \in Kinds /\ gate = None
  BY DEF IInv, PublishCommit, Publishing, Kinds, Free
<1>2. Live /\ s \in Spaces /\ job.generation \in Generation /\ ~ SpaceChanged(s)
  BY <1>1, PublicationIs
<1>3. UNCHANGED <<text, revisions, spaces, writeErr, readers, acked, created, crashes, batches>>
  BY DEF PublishCommit
<1>4. CASE /\ Written(s, <<"commit", job.generation>>, commit)
           /\ gate' = Owner /\ pc' = "catalog" /\ UNCHANGED <<job, corrupt, faults>>
  <2>1. /\ Gentle /\ synced'[s] = dir'[s] /\ GensOf(dir'[s]) = GensOf(dir[s])
        /\ DOMAIN dir'[s] = DOMAIN dir[s] \cup {<<"commit", job.generation>>}
        /\ dir'[s][<<"commit", job.generation>>] = commit
        /\ \A n \in DOMAIN dir[s] \ {<<"commit", job.generation>>} : dir'[s][n] = dir[s][n]
    BY <1>1, <1>4, WrittenIs
  <2>2. Live'
    BY <1>2, <1>4 DEF Live
  <2>3. \A r \in Readers : readers[r].pc # "opening"
    BY <1>1, CollectionAssumption DEF Pins
  <2>4. Disk' /\ Promised' /\ Memory' /\ Pins'
    BY <1>2, <1>3, <1>4, <2>1, <2>2, <2>3, GentleStep
  <2>5. Typed'
    BY <1>1, <1>3, <1>4 DEF Typed
  <2>6. Publication'
    <3>1. /\ ~ writeErr /\ job.after = "idle" /\ job.staged
          /\ job.space \in Spaces /\ spaces[job.space] # None /\ job.scope = {job.space}
          /\ job.todo = {} /\ job.doomed = {} /\ job.dirty = {}
          /\ job.index \in Vectors /\ job.metadata = job.index
          /\ \A id \in Ids : acked[job.space][id] # None => job.index[id] = acked[job.space][id]
          /\ \A g \in GensOf(dir'[s]) \cup GensOf(synced'[s]) : g < job.generation
      BY <1>1, <2>1 DEF Publication
    <3>2. \A kind \in {"index", "metadata"} :
            /\ <<kind, job.generation>> \in DOMAIN dir'[s]
            /\ dir'[s][<<kind, job.generation>>] = job.index
      <4> SUFFICES ASSUME NEW kind \in {"index", "metadata"}
                   PROVE  /\ <<kind, job.generation>> \in DOMAIN dir'[s]
                          /\ dir'[s][<<kind, job.generation>>] = job.index
        OBVIOUS
      <4>1. /\ <<kind, job.generation>> \in DOMAIN dir[s]
            /\ dir[s][<<kind, job.generation>>] = job.index
        BY <1>1 DEF Publication
      <4>2. <<kind, job.generation>> # <<"commit", job.generation>>
        OBVIOUS
      <4> QED
        BY <2>1, <4>1, <4>2
    <3>3. Whole(dir'[s], job.generation)
      BY <2>1, <3>1, <3>2 DEF Whole, Kinds
    <3> QED
      BY <1>2, <1>3, <1>4, <2>1, <3>1, <3>2, <3>3 DEF Publication
  <2>7. Maintenance'
    BY <1>1, <1>4 DEF Maintenance, Maintaining
  <2> QED
    BY <2>1, <2>4, <2>5, <2>6, <2>7 DEF IInv
<1>5. CASE /\ NotWritten(s, <<"commit", job.generation>>, commit, {Pending})
           /\ GiveUp /\ UNCHANGED <<gate, corrupt>>
  BY <1>1, <1>3, <1>5, NotWrittenKeeps
<1> QED
  BY <1>2, <1>4, <1>5 DEF PublishCommit

\* The catalog names the new generation, or nothing is written any more.
LEMMA PublishCatalogKeeps ==
  ASSUME IInv, PublishCatalog
  PROVE  IInv' /\ Unaltered
<1> DEFINE s       == job.space
           g       == job.generation
           old     == dir[s]
           catalog == [old[Catalog] EXCEPT !.generations = @ \cup {g}]
           full    == Put(old, Catalog, catalog)
           newly   == [id \in Ids |-> IF id \in job.records /\ job.metadata[id] = text[id]
                                      THEN text[id] ELSE acked[s][id]]
<1>1. /\ Typed /\ Disk /\ Promised /\ Memory /\ Publication /\ Maintenance /\ Pins
      /\ pc = "catalog" /\ Publishing
  BY DEF IInv, PublishCatalog, Publishing
<1>2. /\ s \in Spaces /\ g \in Generation /\ Settled(synced[s], old) /\ Named(old) /\ Live
      /\ ~ writeErr /\ GensOf(old) \in SUBSET Generation
  BY <1>1, PublicationIs
<1>3. /\ synced[s] = old /\ Whole(old, g) /\ old[<<"index", g>>] = job.index
      /\ \A h \in GensOf(old) : h < g
      /\ job.index \in Vectors /\ job.metadata = job.index /\ spaces[s] # None
      /\ \A id \in Ids : acked[s][id] # None => job.index[id] = acked[s][id]
  BY <1>1 DEF Publication
<1>4. UNCHANGED <<text, revisions, readers, corrupt, created, crashes, batches>> /\ gate' = None
  BY DEF PublishCatalog
<1>5. /\ old[Catalog] \in Catalogs /\ catalog \in Catalogs
      /\ catalog.spec = old[Catalog].spec /\ catalog.generations = GensOf(old) \cup {g}
  BY <1>2 DEF Settled, Filed, Catalogs, GensOf
<1> HIDE DEF catalog
<1>6. /\ Filed(full) /\ Named(full) /\ full[Catalog] = catalog
      /\ GensOf(full) = GensOf(old) \cup {g}
      /\ \A h \in Generation : (\A kind \in Kinds : <<kind, h>> \in DOMAIN old) => Alike(old, full, h)
  BY <1>2, <1>5, PutCatalog DEF Settled
<1> HIDE DEF full
<1>7. \A h \in GensOf(full) : Whole(old, h) /\ Alike(old, old, h) /\ Alike(old, full, h)
  <2> SUFFICES ASSUME NEW h \in GensOf(full)
               PROVE  Whole(old, h) /\ Alike(old, old, h) /\ Alike(old, full, h)
    OBVIOUS
  <2>1. Whole(old, h) /\ h \in Generation
    BY <1>2, <1>3, <1>6 DEF Settled
  <2> QED
    BY <1>6, <2>1 DEF Whole, Alike
<1>8. Settled(old, full) /\ Settled(full, full)
  <2>1. Named(old) => Named(full)
    BY <1>6
  <2> HIDE DEF old
  <2> QED
    BY <1>2, <1>3, <1>6, <1>7, <2>1, SettledAgain
<1>9. Newest(GensOf(full)) = g
  <2>1. \A h \in GensOf(full) : h <= g
    <3>1. g \in Nat /\ \A h \in GensOf(old) : h \in Nat /\ h < g
      <4>1. Generation \subseteq Nat
        BY CollectionAssumption DEF Generation
      <4>2. GensOf(old) \subseteq Nat /\ g \in Nat
        BY <1>2, <4>1
      <4> QED
        BY <1>3, <4>2
    <3>2. \A h \in GensOf(full) : h \in GensOf(old) \/ h = g
      BY <1>6
    <3> HIDE DEF old, g
    <3> QED
      BY <3>1, <3>2
  <2> QED
    BY <1>2, <1>6, <2>1, NewestOf
<1>10. /\ Keeps(full, created[s], acked[s]) /\ Keeps(full, created[s], newly)
       /\ \A id \in Ids : newly[id] # None => newly[id] = text[id]
  <2>1. created[s] # None => Named(full) /\ full[Catalog].spec = created[s]
    BY <1>1, <1>2, <1>5, <1>6 DEF Promised, Keeps
  <2>2. full[<<"index", g>>] = job.index /\ GensOf(full) # {}
    BY <1>3, <1>6, <1>7 DEF Alike, Kinds
  <2>3. \A id \in Ids : newly[id] # None => job.index[id] = newly[id] /\ newly[id] = text[id]
    BY <1>1, <1>2, <1>3 DEF Promised
  <2> HIDE DEF newly
  <2> QED
    BY <1>3, <1>9, <2>1, <2>2, <2>3 DEF Keeps
<1>11. newly \in Vectors
  BY <1>1, <1>2 DEF Typed, Vectors
<1> HIDE DEF newly
<1>12. \A r \in Readers : readers[r].pc # "opening"
  <2>1. gate = Owner
    BY <1>1 DEF Pins
  <2> QED
    BY <1>1, <2>1, CollectionAssumption DEF Pins
<1>13. PICK h : /\ dir' = [dir EXCEPT ![s] = h]
                /\ \/ /\ h = full /\ synced' = [synced EXCEPT ![s] = full]
                      /\ spaces' = [spaces EXCEPT ![s].newest = g]
                      /\ acked' = [acked EXCEPT ![s] = newly]
                      /\ pc' = "maintain" /\ UNCHANGED <<writeErr, job, faults>>
                   \/ /\ h \in {Without(old, {Pending}), Without(full, {Pending})}
                      /\ UNCHANGED <<synced, spaces, acked>> /\ writeErr' = TRUE
                      /\ pc' = "idle" /\ job' = NoJob
                      /\ faults < MaxFaults /\ faults' = faults + 1
  <2>1. CASE /\ Written(s, Catalog, catalog)
             /\ spaces' = [spaces EXCEPT ![s].newest = g]
             /\ acked' = [acked EXCEPT ![s] = newly]
             /\ pc' = "maintain" /\ UNCHANGED <<writeErr, job, faults>>
    <3>1. dir' = [dir EXCEPT ![s] = full] /\ synced' = [synced EXCEPT ![s] = dir'[s]]
      BY <2>1 DEF Written, full
    <3>2. dir'[s] = full
      BY <1>1, <1>2, <3>1 DEF Disk
    <3> QED
      BY <2>1, <3>1, <3>2
  <2>2. CASE /\ NotWritten(s, Catalog, catalog, {Pending})
             /\ writeErr' = TRUE /\ GiveUp /\ UNCHANGED <<spaces, acked>>
    <3>1. PICK files \in {old, full} : dir' = [dir EXCEPT ![s] = Without(files, {Pending})]
      BY <2>2 DEF NotWritten, full
    <3> QED
      BY <2>2, <3>1 DEF NotWritten, GiveUp
  <2> QED
    BY <2>1, <2>2 DEF PublishCatalog, catalog, newly
<1>14. /\ dir' = [x \in Spaces |-> dir'[x]] /\ synced' = [x \in Spaces |-> synced'[x]]
       /\ dir'[s] = h /\ synced'[s] \in {old, full}
       /\ \A x \in Spaces \ {s} : dir'[x] = dir[x] /\ synced'[x] = synced[x]
       /\ synced'[s] = full => h = full
  <2>1. synced'[s] = full \/ synced'[s] = old
    BY <1>1, <1>2, <1>3, <1>13 DEF Disk
  <2>2. full # old
    <3>1. g \notin GensOf(old)
      BY <1>1, PublicationIs
    <3> QED
      BY <1>6, <3>1
  <2>3. synced'[s] = full => h = full
    BY <1>1, <1>2, <1>3, <1>13, <2>2 DEF Disk
  <2> HIDE DEF old
  <2> QED
    BY <1>1, <1>2, <1>13, <2>1, <2>3 DEF Disk
<1>15. \/ h = full
       \/ Aside(old, old, h)
       \/ Aside(old, full, h)
  BY <1>2, <1>3, <1>8, <1>13, Staging
<1>16. /\ Settled(synced'[s], h) /\ GensOf(old) \subseteq GensOf(h)
       /\ Keeps(h, created[s], acked[s])
  <2>1. CASE h = full
    BY <1>6, <1>8, <1>10, <1>14, <2>1
  <2>2. CASE h # full /\ Aside(old, old, h)
    <3>1. Soft(old, h) /\ GensOf(h) = GensOf(old) /\ Settled(old, h)
      BY <2>2, AsideSoft DEF Aside
    <3>2. Keeps(old, created[s], acked[s])
      BY <1>1, <1>2 DEF Promised
    <3>3. Keeps(h, created[s], acked[s])
      BY <3>1, <3>2, KeepsAgain DEF Soft, Settled
    <3> QED
      BY <1>14, <2>2, <3>1, <3>3
  <2>3. CASE h # full /\ Aside(old, full, h)
    <3>1. Soft(full, h) /\ GensOf(h) = GensOf(full) /\ Settled(old, h)
      BY <2>3, AsideSoft DEF Aside
    <3>2. Keeps(h, created[s], acked[s])
      BY <1>10, <3>1, <1>8, KeepsAgain DEF Soft, Settled
    <3> QED
      BY <1>6, <1>14, <2>3, <3>1, <3>2
  <2> QED
    BY <1>15, <2>1, <2>2, <2>3
<1>17. Disk'
  BY <1>1, <1>2, <1>14, <1>16 DEF Disk
<1>18. Typed'
  <2>1. faults' \in 0 .. MaxFaults
    BY <1>1, <1>13, CollectionAssumption DEF Typed
  <2>2. acked' \in [Spaces -> Vectors] /\ writeErr' \in BOOLEAN /\ pc' \in {"idle", "maintain"}
    BY <1>1, <1>2, <1>11, <1>13 DEF Typed
  <2> QED
    BY <1>1, <1>4, <2>1, <2>2 DEF Typed
<1>19. Promised'
  <2>1. /\ Keeps(dir'[s], created[s], acked'[s]) /\ Keeps(synced'[s], created[s], acked'[s])
        /\ \A id \in Ids : acked'[s][id] # None => acked'[s][id] = text[id]
        /\ \A x \in Spaces \ {s} : acked'[x] = acked[x]
    <3>1. CASE h = full /\ synced' = [synced EXCEPT ![s] = full] /\ acked' = [acked EXCEPT ![s] = newly]
      <4>1. acked'[s] = newly /\ synced'[s] = full /\ \A x \in Spaces \ {s} : acked'[x] = acked[x]
        BY <1>1, <1>2, <3>1 DEF Typed, Disk
      <4> QED
        BY <1>10, <1>14, <3>1, <4>1
    <3>2. CASE UNCHANGED <<synced, acked>>
      BY <1>1, <1>2, <1>14, <1>16, <3>2 DEF Promised
    <3> QED
      BY <1>13, <3>1, <3>2
  <2>2. \A x \in Spaces : Keeps(dir'[x], created'[x], acked'[x]) /\ Keeps(synced'[x], created'[x], acked'[x])
    BY <1>1, <1>4, <1>14, <2>1 DEF Promised
  <2>3. \A x \in Spaces, id \in Ids : acked'[x][id] # None => acked'[x][id] = text'[id]
    BY <1>1, <1>4, <2>1 DEF Promised
  <2> QED
    BY <2>2, <2>3 DEF Promised
<1>20. Memory'
  <2>1. CASE h = full /\ spaces' = [spaces EXCEPT ![s].newest = g] /\ pc' = "maintain" /\ UNCHANGED <<writeErr, job>>
    <3>1. /\ spaces[s] = [spec |-> old[Catalog].spec, newest |-> Newest(GensOf(old))]
          /\ revisions = text
      BY <1>1, <1>2, <1>3 DEF Memory
    <3>2. /\ spaces'[s] = [spec |-> full[Catalog].spec, newest |-> Newest(GensOf(full))]
          /\ spaces' = [x \in Spaces |-> spaces'[x]]
          /\ \A x \in Spaces \ {s} : spaces'[x] = spaces[x]
      BY <1>1, <1>2, <1>5, <1>6, <1>9, <2>1, <3>1 DEF Memory
    <3>3. spaces'[s] # None
      <4>1. full[Catalog].spec \in Specs /\ Newest(GensOf(full)) \in 0 .. MaxGeneration
        BY <1>2, <1>5, <1>6, <1>9, NewestIs DEF Catalogs
      <4> QED
        BY <3>2, <4>1, CollectionAssumption
    <3>4. Live' /\ ~ writeErr'
      BY <1>2, <2>1 DEF Live
    <3>5. \A x \in Spaces \ {s} :
            /\ spaces'[x] = None => created'[x] = None /\ GensOf(dir'[x]) = {} /\ GensOf(synced'[x]) = {}
            /\ spaces'[x] # None =>
                 /\ Named(dir'[x])
                 /\ spaces'[x] = [spec |-> dir'[x][Catalog].spec, newest |-> Newest(GensOf(dir'[x]))]
      BY <1>1, <1>2, <1>4, <1>14, <3>2 DEF Memory
    <3>6. /\ Named(dir'[s])
          /\ spaces'[s] = [spec |-> dir'[s][Catalog].spec, newest |-> Newest(GensOf(dir'[s]))]
      BY <1>6, <1>14, <2>1, <3>2
    <3> QED
      BY <1>4, <3>1, <3>2, <3>3, <3>4, <3>5, <3>6 DEF Memory
  <2>2. CASE UNCHANGED spaces /\ writeErr' = TRUE /\ pc' = "idle" /\ job' = NoJob
    <3>1. Live' /\ writeErr'
      BY <2>2, NothingYet DEF Live
    <3> QED
      BY <1>1, <2>2, <3>1 DEF Memory
  <2> QED
    BY <1>13, <2>1, <2>2
<1>21. Publication'
  BY <1>13 DEF Publication, Publishing
<1>22. Maintenance'
  <2>1. CASE pc' = "maintain" /\ job' = job
    BY <1>1, <2>1 DEF Publication, Maintenance, Maintaining
  <2>2. CASE pc' = "idle" /\ job' = NoJob
    BY <2>2, AtRest
  <2> QED
    BY <1>13, <2>1, <2>2
<1>23. Pins'
  <2>1. \A x \in Spaces : GensOf(dir[x]) \subseteq GensOf(dir'[x])
    BY <1>14, <1>16
  <2>2. pc' # "catalog"
    BY <1>13
  <2> QED
    BY <1>1, <1>4, <1>12, <2>1, <2>2 DEF Pins
<1>24. Unaltered
  <2> SUFFICES ASSUME NEW x \in Spaces, NEW i \in GensOf(dir[x]) \cap GensOf(dir'[x])
               PROVE  Alike(dir[x], dir'[x], i)
    BY DEF Unaltered
  <2>1. CASE x # s
    <3>1. Settled(dir[x], dir[x]) /\ dir'[x] = dir[x]
      BY <1>1, <1>14, <2>1, SettledNow DEF Disk
    <3> QED
      BY <3>1 DEF Settled
  <2>2. CASE x = s
    <3>1. i \in GensOf(old) /\ i \in GensOf(h) /\ i \in GensOf(full) /\ Alike(old, full, i)
      BY <1>6, <1>7, <1>14, <2>2
    <3>2. Alike(old, h, i)
      BY <1>15, <3>1, AlikeAgain DEF Aside
    <3> QED
      BY <1>14, <2>2, <3>2
  <2> QED
    BY <2>1, <2>2
<1> QED
  BY <1>17, <1>18, <1>19, <1>20, <1>21, <1>22, <1>23, <1>24 DEF IInv

-----------------------------------------------------------------------------
(* Maintenance *)

LEMMA Asked ==
  ASSUME NEW scope \in Scopes
  PROVE  scope \in SUBSET Spaces
  BY DEF Scopes

\* Steps that only decide what maintenance is to do.
LEMMA MaintainKeeps ==
  ASSUME IInv, NEW scope \in Scopes, Maintain(scope) \/ MaintainCollection(scope)
  PROVE  IInv'
<1>1. Typed /\ Disk /\ Maintenance
  BY DEF IInv
<1>2. /\ pc' = "maintain" /\ pc \in {"idle", "none"}
      /\ UNCHANGED <<text, dir, synced, gate, revisions, spaces, writeErr, readers,
                     corrupt, acked, created, faults, crashes, batches>>
      /\ \/ pc = "idle" /\ job' = [NoJob EXCEPT !.scope = scope]
         \/ pc = "none" /\ job' = [NoJob EXCEPT !.scope = scope, !.after = "none"]
  BY DEF Maintain, MaintainCollection, Ready
<1>3. /\ job' \in Jobs /\ ~ job'.staged /\ job'.todo = {} /\ job'.doomed = {} /\ job'.dirty = {}
      /\ job'.after = (IF pc = "idle" THEN "idle" ELSE "none")
  <2>1. scope \in SUBSET Spaces
    BY Asked
  <2>2. NoVectors \in Vectors /\ 0 \in 0 .. MaxGeneration
    BY NothingYet, CollectionAssumption
  <2>3. CASE pc = "idle" /\ job' = [NoJob EXCEPT !.scope = scope]
    BY <2>1, <2>2, <2>3 DEF Jobs, NoJob
  <2>4. CASE pc = "none" /\ job' = [NoJob EXCEPT !.scope = scope, !.after = "none"]
    BY <2>1, <2>2, <2>4 DEF Jobs, NoJob
  <2> QED
    BY <1>2, <2>3, <2>4
<1>4. Live' <=> Live
  BY <1>1, <1>2, <1>3, NothingYet DEF Live, Maintenance
<1>5. Disk' /\ Promised' /\ Memory' /\ Pins'
  BY <1>1, <1>2, <1>4, Untouched, GentleStep
<1>6. Typed' /\ Publication' /\ Maintenance'
  BY <1>1, <1>2, <1>3 DEF Typed, Publication, Publishing, Maintenance, Maintaining
<1> QED
  BY <1>5, <1>6 DEF IInv

LEMMA BeginMaintenanceKeeps ==
  ASSUME IInv, BeginMaintenance
  PROVE  IInv' /\ Gentle
<1>1. Typed /\ Disk /\ Maintenance /\ Pins
  BY DEF IInv
<1> DEFINE known == {s \in job.scope : Registered(s)}
<1>2. job \in Jobs /\ job.todo = {} /\ job.doomed = {} /\ job.dirty = {} /\ pc = "maintain" /\ gate = None
  BY <1>1 DEF Maintenance, BeginMaintenance, Free
<1>3. job.scope \in SUBSET Spaces
  BY <1>2 DEF Jobs
<1>4. /\ \A s \in job.scope : ~ SpaceLooksCorrupt(s)
      /\ \A s \in known : \A g \in Generations(s) : HasPayload(s, g)
  BY <1>1, <1>3, NothingIsMissing
<1>5. /\ gate' = Owner /\ pc' = "maintaining"
      /\ job' = [job EXCEPT !.todo = known, !.dirty = @ \cup job.scope]
      /\ UNCHANGED <<text, dir, synced, revisions, spaces, writeErr, readers, corrupt, acked,
                     created, faults, crashes, batches>>
  BY <1>4 DEF BeginMaintenance
<1>6. /\ job' \in Jobs /\ job'.todo = known /\ job'.doomed = {} /\ job'.dirty = job.scope
      /\ job'.scope = job.scope /\ job'.staged = job.staged /\ job'.space = job.space
      /\ job'.after = job.after
  BY <1>2, <1>3, <1>5 DEF Jobs
<1>7. Live' <=> Live
  BY <1>2, <1>5, <1>6 DEF Live
<1>8. \A r \in Readers : readers[r].pc # "opening"
  BY <1>1, <1>2, CollectionAssumption DEF Pins
<1>9. Disk' /\ Promised' /\ Memory' /\ Pins'
  BY <1>1, <1>5, <1>7, <1>8, Untouched, GentleStep
<1>10. Typed' /\ Publication'
  BY <1>1, <1>5 DEF Typed, Publication, Publishing
<1>11. Maintenance'
  <2>1. \A s \in known : Named(dir'[s])
    BY <1>1, <1>3, <1>5, NothingIsMissing
  <2> QED
    BY <1>1, <1>5, <1>6, <2>1 DEF Maintenance, Maintaining
<1> QED
  BY <1>1, <1>5, <1>9, <1>10, <1>11, Untouched DEF IInv

\* What maintenance knows while it has the gate.
LEMMA MaintenanceIs ==
  ASSUME IInv, Maintaining
  PROVE  /\ job \in Jobs /\ gate = Owner /\ pc # "none"
         /\ \A r \in Readers : readers[r].pc # "opening"
         /\ \A s \in Spaces : Settled(synced[s], dir[s]) /\ Settled(dir[s], dir[s])
                              /\ Soft(dir[s], dir[s])
         /\ \A s \in Spaces : Pinned(s) \subseteq GensOf(dir[s]) /\ Orphans(s) = {}
                              /\ Unleased(s) = readers
<1>1. Disk /\ Maintenance /\ Pins
  BY DEF IInv
<1>2. job \in Jobs /\ gate = Owner /\ pc # "none"
  BY <1>1 DEF Maintenance, Maintaining
<1>3. \A r \in Readers : readers[r].pc # "opening"
  BY <1>1, <1>2, CollectionAssumption DEF Pins
<1>4. \A s \in Spaces : Settled(synced[s], dir[s]) /\ Settled(dir[s], dir[s]) /\ Soft(dir[s], dir[s])
  BY <1>1, SettledNow DEF Disk, Soft, Settled
<1>5. ASSUME NEW s \in Spaces
      PROVE  Pinned(s) \subseteq GensOf(dir[s]) /\ Orphans(s) = {} /\ Unleased(s) = readers
  <2>1. \A r \in Readers : s \in readers[r].held => readers[r].pins[s] \in GensOf(dir[s])
    BY <1>1 DEF Pins
  <2>2. Committed(s) = GensOf(dir[s])
    BY <1>1, NothingIsMissing
  <2>3. Pinned(s) \subseteq GensOf(dir[s])
    BY <2>1 DEF Pinned
  <2>4. Orphans(s) = {}
    BY <2>2, <2>3 DEF Orphans
  <2>5. \A r \in Readers : Unleased(s)[r] = readers[r]
    <3> SUFFICES ASSUME NEW r \in Readers PROVE Unleased(s)[r] = readers[r]
      OBVIOUS
    <3>1. CASE readers[r].pins[s] \in Committed(s)
      BY <3>1 DEF Unleased
    <3>2. CASE readers[r].pins[s] \notin Committed(s)
      <4>1. Unleased(s)[r] = [readers[r] EXCEPT !.held = @ \ {s}]
        BY <3>2 DEF Unleased
      <4>2. readers[r].held \ {s} = readers[r].held
        BY <2>1, <2>2, <3>2
      <4>3. readers[r] \in [pc : {"closed", "opening", "open"},
                            pins : [Spaces -> 0 .. MaxGeneration], held : SUBSET Spaces]
        BY <1>1 DEF Pins
      <4> QED
        BY <4>1, <4>2, <4>3
    <3> QED
      BY <3>1, <3>2
  <2>6. Unleased(s) = [r \in Readers |-> Unleased(s)[r]] /\ readers = [r \in Readers |-> readers[r]]
    BY <1>1 DEF Unleased, Pins
  <2>7. Unleased(s) = readers
    BY <2>5, <2>6
  <2> QED
    BY <2>3, <2>4, <2>7
<1> QED
  BY <1>2, <1>3, <1>4, <1>5

\* Maintenance goes on.
LEMMA MaintenanceGoesOn ==
  ASSUME IInv, Maintaining, Maintaining', Gentle, job'.after = job.after,
         UNCHANGED <<text, gate, revisions, spaces, writeErr, readers, corrupt, acked,
                     created, faults, crashes, batches>>
  PROVE  Typed' /\ Disk' /\ Promised' /\ Memory' /\ Pins' /\ Publication'
<1>1. Live' <=> Live
  BY DEF Live, Maintaining
<1>2. Disk' /\ Promised' /\ Memory' /\ Pins'
  BY <1>1, GentleStep DEF Maintaining
<1>3. Typed' /\ Publication'
  BY DEF IInv, Typed, Publication, Publishing, Maintaining
<1> QED
  BY <1>2, <1>3

\* Maintenance returns.
LEMMA MaintenanceReturns ==
  ASSUME IInv, Maintaining, Gentle, Return(FALSE), faults' \in 0 .. MaxFaults,
         UNCHANGED <<text, revisions, spaces, writeErr, readers, acked, created, crashes, batches>>
  PROVE  IInv'
<1>1. job \in Jobs /\ pc # "none" /\ \A r \in Readers : readers[r].pc # "opening"
  BY MaintenanceIs
<1>2. job' = NoJob /\ gate' = None /\ corrupt' = corrupt /\ pc' = (IF job.after = "none" THEN "none" ELSE "idle")
  BY <1>1 DEF Return, IInv, Typed, Jobs
<1>3. Live' <=> Live
  BY <1>1, <1>2, NothingYet DEF Live
<1>4. Disk' /\ Promised' /\ Memory' /\ Pins'
  BY <1>1, <1>2, <1>3, GentleStep
<1>5. Typed'
  BY <1>2 DEF IInv, Typed
<1>6. Publication' /\ Maintenance'
  BY <1>2, AtRest
<1> QED
  BY <1>4, <1>5, <1>6 DEF IInv

\* Before it returns, it takes the staging directory away.
LEMMA UnstagedIs ==
  ASSUME IInv, Maintaining, NEW files, files = [s \in Spaces |-> files[s]],
         dir' = Unstaged(files), synced' = [s \in Spaces |-> synced'[s]],
         \A s \in Spaces :
           /\ synced'[s] \in {synced[s], dir[s]} /\ Settled(synced'[s], files[s])
           /\ Soft(dir[s], files[s])
           /\ GensOf(dir[s]) \subseteq GensOf(files[s]) \cup Retirable(s)
  PROVE  /\ Gentle
         /\ \A s \in Spaces : DOMAIN dir'[s] \subseteq DOMAIN files[s] /\ GensOf(dir'[s]) = GensOf(files[s])
<1>1. gate = Owner /\ (job.staged => job.space \in Spaces)
  BY MaintenanceIs DEF IInv, Maintenance
<1>2. dir' = [s \in Spaces |-> dir'[s]]
  BY <1>1 DEF Unstaged
<1>3. ASSUME NEW s \in Spaces
      PROVE  /\ Aside(synced'[s], files[s], dir'[s])
             /\ DOMAIN dir'[s] \subseteq DOMAIN files[s]
  <2>1. Settled(synced'[s], files[s])
    OBVIOUS
  <2>2. CASE job.staged /\ s = job.space
    <3>1. dir'[s] = Without(files[s], {Pending})
      BY <2>2 DEF Unstaged
    <3>2. Aside(synced'[s], files[s], Without(files[s], {Pending}))
      BY <2>1, Staging
    <3>3. DOMAIN Without(files[s], {Pending}) = DOMAIN files[s] \ {Pending}
      BY WithoutIs
    <3> QED
      BY <3>1, <3>2, <3>3
  <2>3. CASE ~ (job.staged /\ s = job.space)
    <3>1. dir'[s] = files[s]
      BY <2>3 DEF Unstaged
    <3> QED
      BY <2>1, <3>1, AsideSame
  <2> QED
    BY <2>2, <2>3
<1>4. ASSUME NEW s \in Spaces
      PROVE  /\ Settled(synced'[s], dir'[s]) /\ Soft(dir[s], dir'[s])
             /\ GensOf(dir'[s]) = GensOf(files[s])
  <2>1. Soft(files[s], dir'[s]) /\ GensOf(dir'[s]) = GensOf(files[s]) /\ Settled(synced'[s], dir'[s])
    BY <1>3, AsideSoft DEF Aside
  <2> QED
    BY <2>1, SoftAgain
<1> QED
  BY <1>1, <1>2, <1>3, <1>4 DEF Gentle

\* A step of maintenance in one space.
LEMMA StepMaintains ==
  ASSUME IInv, Maintaining, NEW s \in Spaces, NEW h, NEW f \in {synced[s], dir[s], h},
         Settled(f, h), Soft(dir[s], h), GensOf(dir[s]) \subseteq GensOf(h) \cup Retirable(s),
         dir' = [dir EXCEPT ![s] = h], synced' = [synced EXCEPT ![s] = f]
  PROVE  /\ Gentle /\ dir'[s] = h /\ synced'[s] = f
         /\ \A x \in Spaces \ {s} : dir'[x] = dir[x] /\ synced'[x] = synced[x]
<1>1. /\ dir'[s] = h /\ synced'[s] = f
      /\ \A x \in Spaces \ {s} : dir'[x] = dir[x] /\ synced'[x] = synced[x]
      /\ dir' = [x \in Spaces |-> dir'[x]] /\ synced' = [x \in Spaces |-> synced'[x]]
  BY DEF IInv, Disk
<1>2. gate = Owner /\ \A x \in Spaces : Settled(synced[x], dir[x]) /\ Soft(dir[x], dir[x])
  BY MaintenanceIs
<1>3. ASSUME NEW x \in Spaces
      PROVE  /\ synced'[x] \in {synced[x], dir[x], dir'[x]} /\ Settled(synced'[x], dir'[x])
             /\ Soft(dir[x], dir'[x])
             /\ GensOf(dir[x]) \subseteq GensOf(dir'[x]) \cup Retirable(x)
  BY <1>1, <1>2, <1>3
<1> QED
  BY <1>1, <1>2, <1>3 DEF Gentle

\* A catalog without what is retired: never the newest generation, never a pinned one.
LEMMA UncataloguedIs ==
  ASSUME IInv, Maintaining, NEW s \in Spaces, Named(dir[s])
  PROVE  /\ Settled(synced[s], Uncatalogued(s)) /\ Settled(Uncatalogued(s), Uncatalogued(s))
         /\ Soft(dir[s], Uncatalogued(s))
         /\ GensOf(Uncatalogued(s)) = GensOf(dir[s]) \ Retirable(s)
         /\ Retirable(s) \in SUBSET Generation
<1> DEFINE old     == dir[s]
           gens    == GensOf(old)
           catalog == [old[Catalog] EXCEPT !.generations = @ \ Retirable(s)]
           h       == Uncatalogued(s)
<1>1. Disk /\ Settled(synced[s], old) /\ Settled(old, old)
  BY MaintenanceIs DEF IInv
<1>2. Generations(s) = gens /\ gens \in SUBSET Generation
  BY <1>1, NothingIsMissing
<1>3. Retirable(s) \subseteq gens /\ Newest(gens) \notin Retirable(s)
  BY <1>2 DEF Retirable
<1>4. /\ old[Catalog] \in Catalogs /\ catalog \in Catalogs /\ catalog.spec = old[Catalog].spec
      /\ catalog.generations = gens \ Retirable(s)
  BY <1>1 DEF Settled, Filed, Catalogs, GensOf
<1>5. h = Put(old, Catalog, catalog)
  BY DEF Uncatalogued
<1> HIDE DEF catalog, h
<1>6. /\ Filed(h) /\ Named(h) /\ h[Catalog] = catalog /\ GensOf(h) = gens \ Retirable(s)
      /\ \A g \in Generation : (\A kind \in Kinds : <<kind, g>> \in DOMAIN old) => Alike(old, h, g)
  BY <1>1, <1>4, <1>5, PutCatalog DEF Settled
<1>7. ASSUME NEW g \in GensOf(synced[s]) \cup GensOf(old) \cup GensOf(h)
      PROVE  Whole(old, g) /\ Alike(synced[s], old, g) /\ Alike(old, h, g)
  <2>1. g \in GensOf(synced[s]) \cup gens
    BY <1>6, <1>7
  <2>2. Whole(old, g) /\ Alike(synced[s], old, g) /\ g \in Generation
    BY <1>1, <2>1, GensAre DEF Settled
  <2> QED
    BY <1>6, <2>2 DEF Whole
<1>8. ~ Named(synced[s]) => NoCommits(h)
  <2>1. NoCommits(old) => NoCommits(h)
    BY <1>1, <1>4, <1>5, PutCatalog DEF Settled
  <2> QED
    BY <1>1, <2>1 DEF Settled
<1>9. Settled(synced[s], h) /\ Settled(h, h)
  BY <1>1, <1>6, <1>7, <1>8, SettledAgain
<1>10. Newest(GensOf(h)) = Newest(gens)
  <2>1. CASE gens = {}
    BY <1>6, <2>1
  <2>2. CASE gens # {}
    <3>1. Newest(gens) \in GensOf(h) /\ \A g \in GensOf(h) : g <= Newest(gens)
      BY <1>2, <1>3, <1>6, <2>2, NewestIs
    <3>2. GensOf(h) \in SUBSET Generation
      BY <1>2, <1>6
    <3> QED
      BY <3>1, <3>2, NewestOf
  <2> QED
    BY <2>1, <2>2
<1>11. Soft(old, h)
  BY <1>4, <1>6, <1>7, <1>10 DEF Soft
<1> QED
  BY <1>2, <1>3, <1>6, <1>9, <1>11 DEF h

LEMMA RetireKeeps ==
  ASSUME IInv, NEW s \in Spaces, Retire(s)
  PROVE  IInv' /\ Gentle
<1> DEFINE h == Uncatalogued(s)
<1>1. /\ pc = "maintaining" /\ pc' = "maintaining" /\ Maintaining /\ Maintaining'
      /\ job.doomed = {} /\ s \in job.todo
      /\ UNCHANGED <<text, gate, pc, revisions, spaces, writeErr, readers, corrupt, acked,
                     created, faults, crashes, batches>>
  BY DEF Retire, Maintaining
<1>2. /\ Disk /\ job \in Jobs /\ Named(dir[s]) /\ gate' = Owner
      /\ \A x \in job.todo : x \in Spaces /\ Named(dir[x])
      /\ job.scope \ job.dirty = {}
      /\ job.staged => job.space \in Spaces
  BY <1>1 DEF IInv, Maintenance, Jobs
<1>3. /\ Settled(synced[s], h) /\ Settled(h, h) /\ Soft(dir[s], h)
      /\ GensOf(h) = GensOf(dir[s]) \ Retirable(s) /\ Retirable(s) \in SUBSET Generation
  BY <1>1, <1>2, UncataloguedIs
<1> HIDE DEF h
<1>4. CASE Retirable(s) = {}
  <2>1. job' = [job EXCEPT !.todo = @ \ {s}] /\ UNCHANGED <<dir, synced>>
    BY <1>4 DEF Retire
  <2>2. /\ job' \in Jobs /\ job'.todo \subseteq job.todo /\ job'.doomed = {} /\ job'.scope = job.scope
        /\ job'.dirty = job.dirty /\ job'.staged = job.staged /\ job'.space = job.space
        /\ job'.after = job.after
    BY <1>1, <1>2, <2>1 DEF Jobs
  <2>3. Gentle
    BY <1>2, <2>1, Untouched
  <2>4. Typed' /\ Disk' /\ Promised' /\ Memory' /\ Pins' /\ Publication'
    BY <1>1, <2>2, <2>3, MaintenanceGoesOn
  <2>5. Maintenance'
    BY <1>1, <1>2, <2>1, <2>2 DEF Maintenance
  <2> QED
    BY <2>3, <2>4, <2>5 DEF IInv
<1>5. CASE Retirable(s) # {}
  <2>1. /\ dir' = [dir EXCEPT ![s] = h] /\ synced' = [synced EXCEPT ![s] = dir'[s]]
        /\ job' = [job EXCEPT !.todo = @ \ {s}, !.doomed = {s} \X Retirable(s)]
    BY <1>5 DEF Retire, h
  <2>2. synced' = [synced EXCEPT ![s] = h]
    BY <1>2, <2>1 DEF Disk
  <2>3. /\ Gentle /\ dir'[s] = h /\ synced'[s] = h
        /\ \A x \in Spaces \ {s} : dir'[x] = dir[x] /\ synced'[x] = synced[x]
    BY <1>1, <1>3, <2>1, <2>2, StepMaintains
  <2>4. /\ job' \in Jobs /\ job'.todo \subseteq job.todo /\ job'.doomed = {s} \X Retirable(s)
        /\ job'.scope = job.scope
        /\ job'.dirty = job.dirty /\ job'.staged = job.staged /\ job'.space = job.space
        /\ job'.after = job.after
    <3>1. {s} \X Retirable(s) \in SUBSET (Spaces \X Generation)
      BY <1>3
    <3> QED
      BY <1>1, <1>2, <2>1, <3>1 DEF Jobs
  <2>5. Typed' /\ Disk' /\ Promised' /\ Memory' /\ Pins' /\ Publication'
    BY <1>1, <2>3, <2>4, MaintenanceGoesOn
  <2>6. \A x \in job'.todo : Named(dir'[x])
    BY <1>2, <1>3, <2>3, <2>4 DEF Soft
  <2>7. \A d \in job'.doomed : d[2] \notin GensOf(dir'[d[1]]) \cup GensOf(synced'[d[1]])
    BY <1>3, <2>3, <2>4
  <2>8. Maintenance'
    BY <1>1, <1>2, <2>4, <2>6, <2>7 DEF Maintenance
  <2> QED
    BY <2>3, <2>5, <2>8 DEF IInv
<1> QED
  BY <1>4, <1>5

\* A retired generation loses its commit.
LEMMA RetiredIs ==
  ASSUME IInv, Maintaining, NEW d \in job.doomed
  PROVE  /\ d[1] \in Spaces /\ Aside(synced[d[1]], dir[d[1]], Retired(d[1], d[2]))
<1> DEFINE s == d[1]
           g == d[2]
           k == Without(dir[s], {<<"commit", g>>})
<1>1. s \in Spaces /\ g \in Generation /\ g \notin GensOf(dir[s]) \cup GensOf(synced[s])
  BY DEF IInv, Maintenance, Jobs
<1>2. Settled(synced[s], dir[s])
  BY <1>1, MaintenanceIs
<1>3. GensOf(synced[s]) \in SUBSET Generation /\ GensOf(dir[s]) \in SUBSET Generation
  BY <1>2, GensAre DEF Settled
<1>4. Retired(s, g) = Put(k, <<"retired", g>>, 0)
  BY DEF Retired
<1> HIDE DEF s, g, k
<1>5. Catalog \notin {<<"commit", g>>}
  BY <1>1, NamesAre DEF Kinds
<1>6. \A x \in GensOf(synced[s]) \cup GensOf(dir[s]), kind \in Kinds : <<kind, x>> \notin {<<"commit", g>>}
  BY <1>1
<1>7. Aside(synced[s], dir[s], k)
  BY <1>2, <1>5, <1>6, WithoutAside DEF k
<1>8. GensOf(k) = GensOf(dir[s]) /\ Settled(synced[s], k) /\ Settled(dir[s], k)
  BY <1>7, AsideSoft DEF Aside
<1>9. /\ <<"retired", g>> \in Names /\ <<"retired", g>> # Catalog /\ <<"retired", g>>[1] # "commit"
      /\ \A x \in GensOf(synced[s]) \cup GensOf(dir[s]), kind \in Kinds : <<kind, x>> # <<"retired", g>>
  BY <1>1, <1>3, NamesAre
<1>10. Aside(synced[s], k, Put(k, <<"retired", g>>, 0)) /\ Aside(dir[s], k, Put(k, <<"retired", g>>, 0))
  BY <1>8, <1>9, PutAside
<1>11. Aside(synced[s], dir[s], Retired(s, g))
  BY <1>4, <1>7, <1>10, AsideAgain
<1> QED
  BY <1>1, <1>11 DEF s, g

LEMMA RetireCommitKeeps ==
  ASSUME IInv, NEW d \in job.doomed, RetireCommit(d[1], d[2])
  PROVE  IInv' /\ Gentle
<1> DEFINE s == d[1]
           h == Retired(d[1], d[2])
<1>1. /\ pc = "maintaining" /\ pc' = "maintaining" /\ Maintaining /\ Maintaining'
      /\ UNCHANGED <<text, gate, pc, revisions, spaces, writeErr, readers, corrupt, acked,
                     created, faults, crashes, batches>>
      /\ dir' = [dir EXCEPT ![s] = h] /\ synced' = [synced EXCEPT ![s] = dir'[s]]
      /\ job' = [job EXCEPT !.doomed = @ \ {<<d[1], d[2]>>}]
  BY DEF RetireCommit, Maintaining
<1>2. /\ Disk /\ job \in Jobs /\ gate' = Owner
      /\ \A x \in job.todo : x \in Spaces /\ Named(dir[x])
      /\ \A c \in job.doomed : /\ c[1] \in Spaces
                               /\ c[2] \notin GensOf(dir[c[1]]) \cup GensOf(synced[c[1]])
      /\ job.scope \ job.dirty = {}
      /\ job.staged => job.space \in Spaces
  BY <1>1 DEF IInv, Maintenance, Jobs
<1>3. s \in Spaces /\ Aside(synced[s], dir[s], h)
  BY <1>1, RetiredIs
<1>4. Settled(h, h) /\ Soft(dir[s], h) /\ GensOf(h) = GensOf(dir[s])
  BY <1>3, AsideSoft DEF Aside
<1> HIDE DEF h, s
<1>5. synced' = [synced EXCEPT ![s] = h]
  BY <1>1, <1>2, <1>3 DEF Disk
<1>6. /\ Gentle /\ dir'[s] = h /\ synced'[s] = h
      /\ \A x \in Spaces \ {s} : dir'[x] = dir[x] /\ synced'[x] = synced[x]
  BY <1>1, <1>3, <1>4, <1>5, StepMaintains
<1>7. /\ job' \in Jobs /\ job'.todo = job.todo /\ job'.doomed \subseteq job.doomed
      /\ job'.scope = job.scope /\ job'.dirty = job.dirty /\ job'.staged = job.staged
      /\ job'.space = job.space /\ job'.after = job.after
  BY <1>1, <1>2 DEF Jobs
<1>8. Typed' /\ Disk' /\ Promised' /\ Memory' /\ Pins' /\ Publication'
  BY <1>1, <1>6, <1>7, MaintenanceGoesOn
<1>9. \A x \in job'.todo : Named(dir'[x])
  BY <1>2, <1>4, <1>6, <1>7 DEF Soft
<1>10. \A c \in job'.doomed : c[2] \notin GensOf(dir'[c[1]]) \cup GensOf(synced'[c[1]])
  <2> SUFFICES ASSUME NEW c \in job'.doomed
               PROVE  c[2] \notin GensOf(dir'[c[1]]) \cup GensOf(synced'[c[1]])
    OBVIOUS
  <2>1. c[1] \in Spaces /\ c[2] \notin GensOf(dir[c[1]]) \cup GensOf(synced[c[1]])
    BY <1>2, <1>7
  <2>2. CASE c[1] = s
    BY <1>4, <1>6, <2>1, <2>2
  <2>3. CASE c[1] # s
    BY <1>6, <2>1, <2>3
  <2> QED
    BY <2>2, <2>3
<1>11. Maintenance'
  BY <1>1, <1>2, <1>7, <1>9, <1>10 DEF Maintenance
<1> QED
  BY <1>6, <1>8, <1>11 DEF IInv

\* What is garbage is no file of a generation that the catalog names.
LEMMA SweptIs ==
  ASSUME IInv, Maintaining, NEW s \in Spaces, NEW some \in SUBSET Garbage(s)
  PROVE  Aside(dir[s], dir[s], Without(dir[s], some))
<1>1. Disk /\ Settled(dir[s], dir[s])
  BY MaintenanceIs DEF IInv
<1>2. Committed(s) = GensOf(dir[s]) /\ GensOf(dir[s]) \in SUBSET Generation
  BY <1>1, NothingIsMissing
<1>3. Catalog \notin Garbage(s)
  BY NamesAre DEF Garbage
<1>4. \A g \in GensOf(dir[s]), kind \in Kinds : <<kind, g>> \notin Garbage(s)
  <2> SUFFICES ASSUME NEW g \in GensOf(dir[s]), NEW kind \in Kinds
               PROVE  <<kind, g>> \notin Garbage(s)
    OBVIOUS
  <2>1. <<kind, g>>[1] = kind /\ <<kind, g>>[2] = g /\ <<kind, g>> # Pending /\ kind # "retired"
    BY <1>2, NamesAre DEF Kinds
  <2> QED
    BY <1>2, <2>1 DEF Garbage
<1>5. Catalog \notin some /\ \A g \in GensOf(dir[s]) \cup GensOf(dir[s]), kind \in Kinds : <<kind, g>> \notin some
  BY <1>3, <1>4
<1> QED
  BY <1>1, <1>5, WithoutAside

\* The sweep of a space leaves no garbage in it.
LEMMA SweepKeeps ==
  ASSUME IInv, NEW s \in Spaces, Sweep(s)
  PROVE  IInv' /\ Gentle
<1> DEFINE h == Without(dir[s], Garbage(s))
<1>1. /\ pc = "maintaining" /\ Maintaining /\ job.todo = {} /\ job.doomed = {} /\ s \in job.dirty
  BY DEF Sweep, Maintaining
<1>2. Orphans(s) = {} /\ Unleased(s) = readers /\ job \in Jobs
  BY <1>1, MaintenanceIs
<1>3. /\ synced' = [synced EXCEPT ![s] = dir[s]] /\ dir' = [dir EXCEPT ![s] = h]
      /\ pc' = "sweeping" /\ job' = [job EXCEPT !.dirty = @ \ {s}, !.space = s]
      /\ UNCHANGED <<text, gate, revisions, spaces, writeErr, readers, corrupt, acked,
                     created, faults, crashes, batches>>
  BY <1>2 DEF Sweep, SyncedFirst
<1>4. Aside(dir[s], dir[s], h)
  BY <1>1, SweptIs
<1>5. Settled(dir[s], h) /\ Soft(dir[s], h) /\ GensOf(h) = GensOf(dir[s])
  BY <1>4, AsideSoft DEF Aside
<1>6. DOMAIN h = DOMAIN dir[s] \ Garbage(s)
  BY WithoutIs
<1> HIDE DEF h
<1>7. /\ Gentle /\ dir'[s] = h /\ \A x \in Spaces \ {s} : dir'[x] = dir[x]
  BY <1>1, <1>3, <1>5, StepMaintains
<1>8. /\ job' \in Jobs /\ job'.todo = {} /\ job'.doomed = {}
      /\ job'.scope = job.scope /\ job'.dirty = job.dirty \ {s} /\ job'.space = s
      /\ job'.after = job.after
  BY <1>1, <1>2, <1>3 DEF Jobs
<1>9. Typed' /\ Disk' /\ Promised' /\ Memory' /\ Pins' /\ Publication'
  BY <1>1, <1>3, <1>7, <1>8, MaintenanceGoesOn DEF Maintaining
<1>10. ASSUME NEW x \in job'.scope \ job'.dirty
       PROVE  Garbage(x)' = {}
  <2>0. x \in Spaces
    BY <1>2, <1>8 DEF Jobs
  <2>1. CASE x = s
    <3>1. Committed(s)' = GensOf(dir'[s])
      BY DEF Committed, Registered, Generations, GensOf, Named
    <3>2. Committed(s) = GensOf(dir[s])
      BY DEF Committed, Registered, Generations, GensOf, Named
    <3>3. Committed(s)' = Committed(s)
      BY <1>5, <1>7, <3>1, <3>2
    <3>4. Garbage(s)' = {n \in DOMAIN h :
             \/ n = Pending \/ n[1] = "retired"
             \/ n[1] \in {"index", "metadata", "commit"} /\ n[2] \notin Committed(s)}
      BY <1>7, <3>3 DEF Garbage
    <3> QED
      BY <1>6, <2>1, <3>4 DEF Garbage
  <2>2. CASE x # s
    <3>1. Garbage(x) = {}
      BY <1>1, <1>8, <2>2 DEF IInv, Maintenance
    <3>2. dir'[x] = dir[x]
      BY <1>7, <2>0, <2>2
    <3>3. Garbage(x)' = Garbage(x)
      BY <3>2 DEF Garbage, Committed, Registered, Generations
    <3> QED
      BY <3>1, <3>3
  <2> QED
    BY <2>1, <2>2
<1>11. Maintenance'
  <2>1. gate' = Owner
    BY <1>1, <1>3, MaintenanceIs
  <2> QED
    BY <1>3, <1>8, <1>10, <2>1 DEF Maintenance
<1> QED
  BY <1>7, <1>9, <1>11 DEF IInv

LEMMA SweepDoneKeeps ==
  ASSUME IInv, SweepDone
  PROVE  IInv' /\ Gentle
<1> DEFINE s == job.space
<1>1. /\ pc = "sweeping" /\ pc' = "maintaining" /\ Maintaining /\ Maintaining'
      /\ synced' = [synced EXCEPT ![s] = dir[s]]
      /\ UNCHANGED <<text, dir, gate, revisions, spaces, writeErr, job, readers, corrupt,
                     acked, created, faults, crashes, batches>>
  BY DEF SweepDone, Maintaining
<1>2. s \in Spaces /\ job.todo = {} /\ job.doomed = {} /\ Disk
  BY <1>1 DEF IInv, Maintenance, Maintaining
<1>3. Settled(dir[s], dir[s]) /\ Soft(dir[s], dir[s])
  BY <1>1, <1>2, MaintenanceIs
<1>4. dir' = [dir EXCEPT ![s] = dir[s]]
  BY <1>1, <1>2 DEF Disk
<1>5. Gentle
  BY <1>1, <1>2, <1>3, <1>4, StepMaintains
<1>6. Typed' /\ Disk' /\ Promised' /\ Memory' /\ Pins' /\ Publication'
  BY <1>1, <1>5, MaintenanceGoesOn
<1>7. \A x \in Spaces : Garbage(x)' = Garbage(x)
  BY <1>1 DEF Garbage, Committed, Registered, Generations
<1>8. Maintenance'
  <2>1. job \in Jobs /\ gate = Owner
    BY <1>1, MaintenanceIs
  <2>2. \A x \in job.scope \ job.dirty : Garbage(x) = {} /\ Garbage(x)' = {}
    BY <1>1, <1>7, <2>1 DEF IInv, Maintenance, Jobs
  <2>3. job.staged => job.space \in Spaces
    BY <1>2
  <2> QED
    BY <1>1, <1>2, <2>1, <2>2, <2>3 DEF Maintenance
<1> QED
  BY <1>5, <1>6, <1>8 DEF IInv

LEMMA EndsGently ==
  ASSUME IInv, Maintaining, dir' = Unstaged(dir), UNCHANGED synced
  PROVE  /\ Gentle
         /\ \A s \in Spaces : DOMAIN dir'[s] \subseteq DOMAIN dir[s] /\ GensOf(dir'[s]) = GensOf(dir[s])
<1>1. /\ dir = [s \in Spaces |-> dir[s]] /\ synced' = [s \in Spaces |-> synced'[s]]
  BY DEF IInv, Disk
<1>2. \A s \in Spaces : /\ synced'[s] \in {synced[s], dir[s]} /\ Settled(synced'[s], dir[s])
                        /\ Soft(dir[s], dir[s])
                        /\ GensOf(dir[s]) \subseteq GensOf(dir[s]) \cup Retirable(s)
  BY MaintenanceIs
<1> QED
  BY <1>1, <1>2, UnstagedIs

LEMMA EndMaintenanceKeeps ==
  ASSUME IInv, EndMaintenance
  PROVE  IInv' /\ Gentle
<1>1. /\ Maintaining /\ Return(FALSE) /\ dir' = Unstaged(dir)
      /\ UNCHANGED <<text, synced, revisions, spaces, writeErr, readers, acked, created,
                     faults, crashes, batches>>
  BY DEF EndMaintenance, Maintaining
<1>2. Gentle
  BY <1>1, EndsGently
<1>3. faults' \in 0 .. MaxFaults
  BY <1>1 DEF IInv, Typed
<1> QED
  BY <1>1, <1>2, <1>3, MaintenanceReturns

\* An operation of maintenance in a space that fails, and what it did.
LEMMA FailsGently ==
  ASSUME IInv, Maintaining, NEW s \in Spaces, NEW h, NEW f \in {synced[s], dir[s]},
         Settled(f, h), Soft(dir[s], h), GensOf(dir[s]) \subseteq GensOf(h) \cup Retirable(s),
         dir' = Unstaged([dir EXCEPT ![s] = h]), synced' = [synced EXCEPT ![s] = f]
  PROVE  Gentle
<1> DEFINE files == [dir EXCEPT ![s] = h]
<1>1. /\ files = [x \in Spaces |-> files[x]] /\ synced' = [x \in Spaces |-> synced'[x]]
      /\ files[s] = h /\ synced'[s] = f
      /\ \A x \in Spaces \ {s} : files[x] = dir[x] /\ synced'[x] = synced[x]
  BY DEF IInv, Disk
<1>2. dir' = Unstaged(files)
  OBVIOUS
<1> HIDE DEF files
<1>3. \A x \in Spaces : Settled(synced[x], dir[x]) /\ Soft(dir[x], dir[x])
  BY MaintenanceIs
<1>4. ASSUME NEW x \in Spaces
      PROVE  /\ synced'[x] \in {synced[x], dir[x]} /\ Settled(synced'[x], files[x])
             /\ Soft(dir[x], files[x])
             /\ GensOf(dir[x]) \subseteq GensOf(files[x]) \cup Retirable(x)
  BY <1>1, <1>3
<1> QED
  BY <1>1, <1>2, <1>4, UnstagedIs

LEMMA MaintenanceFailsKeeps ==
  ASSUME IInv, MaintenanceFails
  PROVE  IInv' /\ Gentle
<1>1. /\ Maintaining /\ Return(FALSE) /\ faults < MaxFaults /\ faults' = faults + 1
      /\ UNCHANGED <<text, revisions, spaces, writeErr, acked, created, crashes, batches>>
  BY DEF MaintenanceFails, Maintaining
<1>2. faults' \in 0 .. MaxFaults
  BY <1>1, CollectionAssumption DEF IInv, Typed
<1>3. /\ Disk /\ job \in Jobs /\ \A s \in job.todo : Named(dir[s])
  BY <1>1 DEF IInv, Maintenance
<1>4. Gentle /\ UNCHANGED readers
  <2>1. CASE dir' = Unstaged(dir) /\ UNCHANGED <<synced, readers>>
    BY <1>1, <2>1, EndsGently
  <2>2. ASSUME NEW s \in job.todo, dir' = Unstaged([dir EXCEPT ![s] = Uncatalogued(s)]),
               UNCHANGED <<synced, readers>>
        PROVE  Gentle /\ UNCHANGED readers
    <3>1. s \in Spaces /\ Named(dir[s])
      BY <1>3 DEF Jobs
    <3>2. /\ Settled(synced[s], Uncatalogued(s)) /\ Soft(dir[s], Uncatalogued(s))
          /\ GensOf(Uncatalogued(s)) = GensOf(dir[s]) \ Retirable(s)
      BY <1>1, <3>1, UncataloguedIs
    <3>3. synced' = [synced EXCEPT ![s] = synced[s]]
      BY <1>3, <2>2 DEF Disk
    <3>4. GensOf(dir[s]) \subseteq GensOf(Uncatalogued(s)) \cup Retirable(s)
      BY <3>2
    <3> QED
      BY <1>1, <2>2, <3>1, <3>2, <3>3, <3>4, FailsGently
  <2>3. ASSUME NEW d \in job.doomed, dir' = Unstaged([dir EXCEPT ![d[1]] = Retired(d[1], d[2])]),
               UNCHANGED <<synced, readers>>
        PROVE  Gentle /\ UNCHANGED readers
    <3> DEFINE s == d[1]
               h == Retired(d[1], d[2])
    <3>1. s \in Spaces /\ Aside(synced[s], dir[s], h)
      BY <1>1, RetiredIs
    <3>2. Settled(synced[s], h) /\ Soft(dir[s], h) /\ GensOf(h) = GensOf(dir[s])
      BY <3>1, AsideSoft DEF Aside
    <3>3. synced' = [synced EXCEPT ![s] = synced[s]]
      BY <1>3, <2>3 DEF Disk
    <3> HIDE DEF h, s
    <3>4. dir' = Unstaged([dir EXCEPT ![s] = h])
      BY <2>3 DEF h, s
    <3> QED
      BY <1>1, <2>3, <3>1, <3>2, <3>3, <3>4, FailsGently
  <2>4. ASSUME NEW s \in job.dirty, NEW some \in SUBSET Garbage(s),
               dir' = Unstaged([dir EXCEPT ![s] = Without(@, some)]),
               synced' = SyncedFirst(s), readers' \in {readers, Unleased(s)}
        PROVE  Gentle /\ UNCHANGED readers
    <3> DEFINE h == Without(dir[s], some)
    <3>1. s \in Spaces
      BY <1>3 DEF Jobs
    <3>2. Aside(dir[s], dir[s], h)
      BY <1>1, <3>1, SweptIs
    <3>3. Settled(dir[s], h) /\ Soft(dir[s], h) /\ GensOf(h) = GensOf(dir[s])
      BY <3>2, AsideSoft DEF Aside
    <3>4. synced' = [synced EXCEPT ![s] = dir[s]] /\ UNCHANGED readers
      BY <1>1, <2>4, <3>1, MaintenanceIs DEF SyncedFirst
    <3>5. dir' = Unstaged([dir EXCEPT ![s] = h])
      BY <2>4
    <3> HIDE DEF h
    <3> QED
      BY <1>1, <3>1, <3>3, <3>4, <3>5, FailsGently
  <2> QED
    BY <2>1, <2>2, <2>3, <2>4 DEF MaintenanceFails
<1> QED
  BY <1>1, <1>2, <1>4, MaintenanceReturns

-----------------------------------------------------------------------------
(* Readers *)

LEMMA ReaderStep ==
  ASSUME IInv, gate' \in Readers \cup {None, Owner}, Maintaining => gate' = Owner,
         UNCHANGED <<text, dir, synced, pc, revisions, spaces, writeErr, job, corrupt, acked,
                     created, faults, crashes, batches>>
  PROVE  Typed' /\ Disk' /\ Promised' /\ Memory' /\ Publication' /\ Maintenance'
<1>1. Typed' /\ Disk' /\ Promised' /\ Memory' /\ Publication'
  <2>1. Typed'
    BY DEF IInv, Typed
  <2>2. Disk' /\ Promised'
    BY DEF IInv, Disk, Promised
  <2>3. Memory'
    BY DEF IInv, Memory, Live
  <2>4. Publication'
    BY DEF IInv, Publication, Publishing, Whole
  <2> QED
    BY <2>1, <2>2, <2>3, <2>4
<1>2. \A s : Garbage(s)' = Garbage(s)
  BY DEF Garbage, Committed, Registered, Generations
<1>3. Maintenance'
  BY <1>2 DEF IInv, Maintenance, Maintaining
<1> QED
  BY <1>1, <1>3

\* Who may have the gate when nobody has it, or a reader.
LEMMA GateIs ==
  ASSUME IInv, gate # Owner
  PROVE  ~ Maintaining /\ pc # "catalog" /\ \A r \in Readers : readers[r].pc = "opening" => gate = r
  BY DEF IInv, Maintenance, Pins

LEMMA OpenCollectionReaderKeeps ==
  ASSUME IInv, NEW r \in Readers, NEW selected \in SUBSET Spaces, OpenCollectionReader(r, selected)
  PROVE  IInv'
<1> DEFINE pins == [s \in Spaces |-> IF s \in selected THEN Newest(Generations(s)) ELSE 0]
<1>1. Disk /\ Pins /\ gate = None /\ None \notin Readers /\ Owner # None /\ Owner \notin Readers
  BY CollectionAssumption DEF IInv, OpenCollectionReader, Free
<1>2. \A s \in Spaces : ~ SpaceLooksCorrupt(s)
  BY <1>1, NothingIsMissing
<1>3. /\ gate' = r /\ readers' = [readers EXCEPT ![r] = [NoReader EXCEPT !.pc = "opening", !.pins = pins]]
      /\ \A s \in selected : Registered(s)
      /\ UNCHANGED <<text, dir, synced, pc, revisions, spaces, writeErr, job, corrupt, acked,
                     created, faults, crashes, batches>>
  BY <1>2 DEF OpenCollectionReader
<1>4. ~ Maintaining /\ pc # "catalog" /\ \A q \in Readers : readers[q].pc # "opening"
  BY <1>1, GateIs
<1>5. ASSUME NEW s \in Spaces
      PROVE  pins[s] \in 0 .. MaxGeneration /\ (pins[s] # 0 => pins[s] \in GensOf(dir[s]))
  <2>1. CASE s \in selected
    <3>1. Generations(s) = GensOf(dir[s]) /\ GensOf(dir[s]) \in SUBSET Generation
      BY <1>1, <1>3, <2>1, NothingIsMissing
    <3>2. pins[s] = Newest(GensOf(dir[s]))
      BY <2>1, <3>1
    <3> QED
      BY <3>1, <3>2, NewestIs
  <2>2. CASE s \notin selected
    BY <2>2, CollectionAssumption
  <2> QED
    BY <2>1, <2>2
<1>6. pins \in [Spaces -> 0 .. MaxGeneration]
  BY <1>5
<1> HIDE DEF pins
<1>7. readers'[r] = [pc |-> "opening", pins |-> pins, held |-> {}]
  BY <1>1, <1>3 DEF Pins, NoReader
<1>8. Typed' /\ Disk' /\ Promised' /\ Memory' /\ Publication' /\ Maintenance'
  BY <1>3, <1>4, ReaderStep
<1>9. Pins'
  <2>1. readers' \in [Readers -> [pc : {"closed", "opening", "open"},
                                  pins : [Spaces -> 0 .. MaxGeneration], held : SUBSET Spaces]]
    BY <1>1, <1>3, <1>6 DEF Pins, NoReader
  <2>2. \A q \in Readers \ {r} : readers'[q] = readers[q]
    BY <1>1, <1>3 DEF Pins
  <2>3. ASSUME NEW q \in Readers
        PROVE  /\ readers'[q].pc = "opening" => gate' = q
               /\ readers'[q].pc # "open" => readers'[q].held = {}
               /\ readers'[q].pc = "open" => readers'[q].held = {s \in Spaces : readers'[q].pins[s] # 0}
               /\ readers'[q].pc # "closed" =>
                    \A s \in Spaces : readers'[q].pins[s] # 0 => readers'[q].pins[s] \in GensOf(dir'[s])
    <3>1. CASE q = r
      <4>1. readers'[q].pc = "opening" /\ readers'[q].pins = pins /\ readers'[q].held = {}
        BY <1>7, <3>1
      <4>2. gate' = q /\ dir' = dir
        BY <1>3, <3>1
      <4> QED
        BY <1>5, <4>1, <4>2
    <3>2. CASE q # r
      BY <1>1, <1>3, <1>4, <2>2, <3>2 DEF Pins
    <3> QED
      BY <3>1, <3>2
  <2> QED
    BY <1>3, <1>4, <2>1, <2>3 DEF Pins
<1> QED
  BY <1>8, <1>9 DEF IInv

\* A reader that is open, with the leases of what it pinned.
LEMMA OpenedPins ==
  ASSUME IInv, NEW r \in Readers, NEW pins \in [Spaces -> 0 .. MaxGeneration], Opened(r, pins),
         gate # Owner, gate' = None, UNCHANGED <<dir, pc>>,
         readers[r].pc = "opening" \/ gate = None,
         \A s \in Spaces : pins[s] # 0 => pins[s] \in GensOf(dir[s])
  PROVE  Pins'
<1> DEFINE held == {s \in Spaces : pins[s] # 0}
<1>1. /\ Pins /\ pc # "catalog" /\ \A q \in Readers \ {r} : readers[q].pc # "opening"
      /\ readers' = [readers EXCEPT ![r] = [pc |-> "open", pins |-> pins, held |-> held]]
  BY GateIs, CollectionAssumption DEF IInv, Opened
<1>2. held \in SUBSET Spaces
  OBVIOUS
<1>3. /\ readers' \in [Readers -> [pc : {"closed", "opening", "open"},
                                   pins : [Spaces -> 0 .. MaxGeneration], held : SUBSET Spaces]]
      /\ readers'[r] = [pc |-> "open", pins |-> pins, held |-> held]
      /\ \A q \in Readers \ {r} : readers'[q] = readers[q]
  BY <1>1, <1>2 DEF Pins
<1>4. ASSUME NEW q \in Readers
      PROVE  /\ readers'[q].pc = "opening" => gate' = q
             /\ readers'[q].pc # "open" => readers'[q].held = {}
             /\ readers'[q].pc = "open" => readers'[q].held = {s \in Spaces : readers'[q].pins[s] # 0}
             /\ readers'[q].pc # "closed" =>
                  \A s \in Spaces : readers'[q].pins[s] # 0 => readers'[q].pins[s] \in GensOf(dir'[s])
  <2>1. CASE q = r
    BY <1>3, <2>1
  <2>2. CASE q # r
    BY <1>1, <1>3, <2>2 DEF Pins
  <2> QED
    BY <2>1, <2>2
<1> QED
  BY <1>1, <1>3, <1>4 DEF Pins

LEMMA PinSpacesKeeps ==
  ASSUME IInv, NEW r \in Readers, PinSpaces(r)
  PROVE  IInv'
<1>1. /\ readers[r].pc = "opening" /\ gate' = None /\ Opened(r, readers[r].pins)
      /\ UNCHANGED <<text, dir, synced, pc, revisions, spaces, writeErr, job, corrupt, acked,
                     created, faults, crashes, batches>>
  BY DEF PinSpaces
<1>2. gate = r /\ gate # Owner
  BY <1>1, CollectionAssumption DEF IInv, Pins
<1>3. /\ readers[r].pins \in [Spaces -> 0 .. MaxGeneration]
      /\ \A s \in Spaces : readers[r].pins[s] # 0 => readers[r].pins[s] \in GensOf(dir[s])
  BY <1>1 DEF IInv, Pins
<1>4. Pins'
  BY <1>1, <1>2, <1>3, OpenedPins
<1>5. Typed' /\ Disk' /\ Promised' /\ Memory' /\ Publication' /\ Maintenance'
  BY <1>1, <1>2, GateIs, ReaderStep
<1> QED
  BY <1>4, <1>5 DEF IInv

LEMMA ReaderKeeps ==
  ASSUME IInv, NEW r \in Readers, NEW selected \in SUBSET Spaces, Reader(r, selected)
  PROVE  IInv'
<1> DEFINE pins == [s \in Spaces |-> IF s \in selected THEN spaces[s].newest ELSE 0]
<1>1. /\ pc = "idle" /\ ~ writeErr /\ gate = None /\ gate' = None /\ Opened(r, pins)
      /\ \A s \in selected : spaces[s] # None
      /\ UNCHANGED <<text, dir, synced, pc, revisions, spaces, writeErr, job, corrupt, acked,
                     created, faults, crashes, batches>>
  BY DEF Reader, Ready, Free
<1>2. gate # Owner /\ Disk
  BY <1>1, CollectionAssumption DEF IInv
<1>3. Live
  BY <1>1, NothingYet DEF IInv, Maintenance, Live
<1>4. ASSUME NEW s \in Spaces
      PROVE  pins[s] \in 0 .. MaxGeneration /\ (pins[s] # 0 => pins[s] \in GensOf(dir[s]))
  <2>1. CASE s \in selected
    <3>1. pins[s] = Newest(GensOf(dir[s]))
      BY <1>1, <1>3, <2>1 DEF IInv, Memory
    <3>2. GensOf(dir[s]) \in SUBSET Generation
      BY <1>2, NothingIsMissing
    <3> QED
      BY <3>1, <3>2, NewestIs
  <2>2. CASE s \notin selected
    BY <2>2, CollectionAssumption
  <2> QED
    BY <2>1, <2>2
<1>5. pins \in [Spaces -> 0 .. MaxGeneration]
  BY <1>4
<1> HIDE DEF pins
<1>6. Pins'
  BY <1>1, <1>2, <1>4, <1>5, OpenedPins
<1>7. Typed' /\ Disk' /\ Promised' /\ Memory' /\ Publication' /\ Maintenance'
  BY <1>1, <1>2, GateIs, ReaderStep
<1> QED
  BY <1>6, <1>7 DEF IInv

LEMMA CloseReaderKeeps ==
  ASSUME IInv, NEW r \in Readers, CloseReader(r)
  PROVE  IInv'
<1>1. /\ readers' = [readers EXCEPT ![r] = NoReader] /\ gate' = (IF gate = r THEN None ELSE gate)
      /\ UNCHANGED <<text, dir, synced, pc, revisions, spaces, writeErr, job, corrupt, acked,
                     created, faults, crashes, batches>>
  BY DEF CloseReader
<1>2. Pins /\ Typed /\ Owner \notin Readers /\ 0 \in 0 .. MaxGeneration
  BY CollectionAssumption DEF IInv
<1>3. Maintaining => gate' = Owner
  BY <1>1, <1>2 DEF IInv, Maintenance
<1>4. Typed' /\ Disk' /\ Promised' /\ Memory' /\ Publication' /\ Maintenance'
  BY <1>1, <1>2, <1>3, ReaderStep DEF Typed
<1>5. /\ readers' \in [Readers -> [pc : {"closed", "opening", "open"},
                                   pins : [Spaces -> 0 .. MaxGeneration], held : SUBSET Spaces]]
      /\ readers'[r].pc = "closed" /\ readers'[r].held = {}
      /\ \A q \in Readers \ {r} : readers'[q] = readers[q]
  BY <1>1, <1>2 DEF Pins, NoReader
<1>6. Pins'
  BY <1>1, <1>2, <1>5 DEF Pins
<1> QED
  BY <1>4, <1>6 DEF IInv

-----------------------------------------------------------------------------
(* The end of a process, and of all *)

LEMMA Forgotten ==
  ASSUME IInv, Forget, gate' \in Readers \cup {None, Owner}, crashes' \in 0 .. MaxCrashes,
         UNCHANGED <<text, corrupt, acked, created, faults, batches>>
  PROVE  Typed' /\ Memory' /\ Publication' /\ Maintenance'
<1>1. Typed'
  BY NothingYet DEF IInv, Typed, Forget
<1>2. Memory'
  BY DEF Forget, Memory, Live
<1>3. Publication' /\ Maintenance'
  BY AtRest DEF Forget
<1> QED
  BY <1>1, <1>2, <1>3

\* The process that owns the collection closes it or dies.
LEMMA OwnerLeaves ==
  ASSUME IInv, Close \/ Crash
  PROVE  IInv'
<1>1. /\ Forget /\ gate' \in {gate, IF gate = Owner THEN None ELSE gate}
      /\ UNCHANGED <<text, dir, synced, readers, corrupt, acked, created, faults, batches>>
  BY DEF Close, Crash
<1>2. crashes' \in 0 .. MaxCrashes
  BY CollectionAssumption DEF Close, Crash, IInv, Typed
<1>3. Typed' /\ Memory' /\ Publication' /\ Maintenance'
  BY <1>1, <1>2, Forgotten DEF IInv, Typed
<1>4. Disk' /\ Promised'
  BY <1>1 DEF IInv, Disk, Promised
<1>5. Pins'
  BY <1>1, CollectionAssumption DEF IInv, Pins, Forget
<1> QED
  BY <1>3, <1>4, <1>5 DEF IInv

LEMMA PowerLossKeeps ==
  ASSUME IInv, PowerLoss
  PROVE  IInv' /\ Unaltered
<1>1. /\ Forget /\ gate' = None /\ readers' = [r \in Readers |-> NoReader]
      /\ synced' = dir' /\ dir' = [s \in Spaces |-> dir'[s]]
      /\ \A s \in Spaces : dir'[s] \in AfterPowerLoss(synced[s], dir[s])
      /\ UNCHANGED <<text, corrupt, acked, created, faults, batches>>
  BY DEF PowerLoss
<1>2. crashes' \in 0 .. MaxCrashes /\ 0 \in 0 .. MaxGeneration
  BY CollectionAssumption DEF PowerLoss, IInv, Typed
<1>3. Typed' /\ Memory' /\ Publication' /\ Maintenance'
  BY <1>1, <1>2, Forgotten
<1>4. ASSUME NEW s \in Spaces
      PROVE  /\ Settled(dir'[s], dir'[s]) /\ Keeps(dir'[s], created[s], acked[s])
             /\ \A g \in GensOf(dir[s]) : Alike(dir[s], dir'[s], g)
  <2>1. Settled(synced[s], dir[s])
    BY DEF IInv, Disk
  <2>2. /\ Settled(dir'[s], dir'[s])
        /\ SameCatalog(synced[s], dir'[s]) \/ SameCatalog(dir[s], dir'[s])
        /\ \A g \in GensOf(synced[s]) \cup GensOf(dir[s]) : Alike(synced[s], dir'[s], g) /\ Alike(dir[s], dir'[s], g)
    BY <1>1, <2>1, PowerLost
  <2>3. PICK f \in {synced[s], dir[s]} :
          SameCatalog(f, dir'[s]) /\ \A g \in GensOf(f) : Alike(f, dir'[s], g)
    BY <2>2
  <2>4. Keeps(f, created[s], acked[s]) /\ Filed(f) /\ Filed(dir'[s])
    BY <2>1, <2>2 DEF IInv, Promised, Settled
  <2>5. Soft(f, dir'[s])
    BY <2>3, SoftSame
  <2>6. Keeps(dir'[s], created[s], acked[s])
    BY <2>4, <2>5, KeepsAgain DEF Soft
  <2> QED
    BY <2>2, <2>6
<1>5. Disk' /\ Promised'
  BY <1>1, <1>4 DEF IInv, Disk, Promised
<1>6. Pins'
  BY <1>1, <1>2 DEF Pins, NoReader, Forget
<1> QED
  BY <1>3, <1>4, <1>5, <1>6 DEF IInv, Unaltered

-----------------------------------------------------------------------------
(* The theorems *)

\* Every step keeps the invariant, and alters no generation that stays.
LEMMA Inductive ==
  ASSUME IInv, [Next]_vars
  PROVE  IInv' /\ Unaltered
<1>1. Disk
  BY DEF IInv
<1>2. UNCHANGED <<dir, synced>> => Unaltered
  BY <1>1, Untouched, GentleAlters
<1>3. CASE OpenCollection
  BY <1>2, <1>3, OpenCollectionKeeps DEF OpenCollection
<1>4. CASE \E ids \in (SUBSET Ids) \ {{}} : \E change \in [ids -> Revs] \cup {[id \in ids |-> None]} :
             EditDocuments(change)
  <2>1. PICK ids \in SUBSET Ids : \E change \in [ids -> Revs] \cup {[id \in ids |-> None]} :
          EditDocuments(change)
    BY <1>4
  <2>2. PICK change \in [ids -> Revs] \cup {[id \in ids |-> None]} : EditDocuments(change)
    BY <2>1
  <2>3. IInv'
    BY <2>2, EditDocumentsKeeps
  <2>4. UNCHANGED <<dir, synced>>
    BY <2>2 DEF EditDocuments
  <2> QED
    BY <1>2, <2>3, <2>4
<1>5. CASE \E s \in Spaces, spec \in Specs : CreateVectorSpace(s, spec)
  BY <1>5, CreateVectorSpaceKeeps
<1>6. CASE \E s \in Spaces, ids \in (SUBSET Ids) \ {{}} : \E records \in [ids -> Revs] :
             UpsertVectors(s, records)
  <2>1. PICK s \in Spaces, ids \in (SUBSET Ids) \ {{}} : \E records \in [ids -> Revs] :
          UpsertVectors(s, records)
    BY <1>6
  <2>2. PICK records \in [ids -> Revs] : UpsertVectors(s, records)
    BY <2>1
  <2> QED
    BY <2>2, UpsertVectorsKeeps, GentleAlters
<1>7. CASE PublishIndex \/ PublishMetadata
  BY <1>7, PublishPayloadKeeps, GentleAlters
<1>8. CASE PublishCommit
  BY <1>8, PublishCommitKeeps, GentleAlters
<1>9. CASE PublishCatalog
  BY <1>9, PublishCatalogKeeps
<1>10. CASE \E scope \in Scopes : Maintain(scope) \/ MaintainCollection(scope)
  <2>1. PICK scope \in Scopes : Maintain(scope) \/ MaintainCollection(scope)
    BY <1>10
  <2>2. IInv'
    BY <2>1, MaintainKeeps
  <2>3. UNCHANGED <<dir, synced>>
    BY <2>1 DEF Maintain, MaintainCollection
  <2> QED
    BY <1>2, <2>2, <2>3
<1>11. CASE BeginMaintenance
  BY <1>11, BeginMaintenanceKeeps, GentleAlters
<1>12. CASE \E s \in Spaces : Retire(s) \/ Sweep(s)
  BY <1>12, RetireKeeps, SweepKeeps, GentleAlters
<1>13. CASE \E d \in job.doomed : RetireCommit(d[1], d[2])
  BY <1>13, RetireCommitKeeps, GentleAlters
<1>14. CASE SweepDone \/ EndMaintenance \/ MaintenanceFails
  BY <1>14, SweepDoneKeeps, EndMaintenanceKeeps, MaintenanceFailsKeeps, GentleAlters
<1>15. ASSUME NEW r \in Readers, NEW selected \in SUBSET Spaces,
              OpenCollectionReader(r, selected) \/ Reader(r, selected)
       PROVE  IInv' /\ Unaltered
  <2>1. IInv'
    BY <1>15, OpenCollectionReaderKeeps, ReaderKeeps
  <2>2. UNCHANGED <<dir, synced>>
    BY <1>15 DEF OpenCollectionReader, Reader
  <2> QED
    BY <1>2, <2>1, <2>2
<1>16. ASSUME NEW r \in Readers, PinSpaces(r) \/ CloseReader(r)
       PROVE  IInv' /\ Unaltered
  <2>1. IInv'
    BY <1>16, PinSpacesKeeps, CloseReaderKeeps
  <2>2. UNCHANGED <<dir, synced>>
    BY <1>16 DEF PinSpaces, CloseReader
  <2> QED
    BY <1>2, <2>1, <2>2
<1>17. CASE Close \/ Crash
  <2>1. UNCHANGED <<dir, synced>>
    BY <1>17 DEF Close, Crash
  <2> QED
    BY <1>2, <1>17, <2>1, OwnerLeaves
<1>18. CASE PowerLoss
  BY <1>18, PowerLossKeeps
<1>19. CASE UNCHANGED vars
  <2>1. UNCHANGED <<dir, synced>>
    BY <1>19 DEF vars
  <2>2. UNCHANGED <<text, gate, pc, revisions, spaces, writeErr, job, readers, corrupt,
                    acked, created, faults, crashes, batches>>
    BY <1>19 DEF vars
  <2>3. gate' \in Readers \cup {None, Owner} /\ (Maintaining => gate' = Owner)
    BY <2>2 DEF IInv, Typed, Maintenance
  <2>4. Typed' /\ Disk' /\ Promised' /\ Memory' /\ Publication' /\ Maintenance'
    BY <2>1, <2>2, <2>3, ReaderStep
  <2>5. Pins'
    BY <2>1, <2>2 DEF IInv, Pins
  <2> QED
    BY <1>2, <2>1, <2>4, <2>5 DEF IInv
<1> QED
  BY <1>3, <1>4, <1>5, <1>6, <1>7, <1>8, <1>9, <1>10, <1>11, <1>12, <1>13, <1>14, <1>15, <1>16,
     <1>17, <1>18, <1>19 DEF Next

\* The inductive invariant: what is on disk and was synced, what the owner remembers, what
\* it is publishing, what maintenance is about to remove and what readers have pinned
\* agree after any interleaving, failure, crash or power loss (collection*.go).
THEOREM CollectionIsSound == Spec => []IInv
<1>1. IInv /\ [Next]_vars => IInv'
  BY Inductive
<1> QED
  BY <1>1, Initially, PTL DEF Spec

\* VerifyCollection never fails: what a catalog names is there in full, between any two
\* steps of publication, retirement and sweep (collection_storage.go, collection_gc.go).
THEOREM CatalogStaysComplete == Spec => []CatalogIsComplete
<1>1. IInv => CatalogIsComplete
  BY NothingIsMissing DEF IInv, CatalogIsComplete
<1> QED
  BY <1>1, CollectionIsSound, PTL

\* No step ever finds the collection corrupt: neither OpenCollection, UpsertVectors, the
\* re-read before a commit, maintenance nor a reader (ErrCollectionCorrupt).
THEOREM NothingSeemsCorrupt == Spec => []NothingLooksCorrupt
<1>1. IInv => NothingLooksCorrupt
  BY DEF IInv, Typed, NothingLooksCorrupt
<1> QED
  BY <1>1, CollectionIsSound, PTL

\* What a reader has pinned stays loadable and leased until it closes, whatever is
\* published, retired and swept meanwhile (collection_reader.go, vectorReader).
THEOREM PinnedStaysReadable == Spec => []PinnedIsReadable
<1>1. IInv => PinnedIsReadable
  <2> SUFFICES ASSUME IInv, NEW r \in Readers, NEW s \in Spaces,
                      readers[r].pc = "open", readers[r].pins[s] # 0
               PROVE  s \in readers[r].held /\ Loadable(s, readers[r].pins[s])
    BY DEF PinnedIsReadable
  <2>1. s \in readers[r].held /\ readers[r].pins[s] \in GensOf(dir[s])
    BY DEF IInv, Pins
  <2> QED
    BY <2>1, NothingIsMissing DEF IInv
<1> QED
  BY <1>1, CollectionIsSound, PTL

\* What CreateVectorSpace and UpsertVectors acknowledged is in the newest generation, also
\* after a crash, a power loss or a publication that failed (collection.go).
THEOREM AckedStaysPublished == Spec => []AckedIsPublished
<1>1. IInv => AckedIsPublished
  <2> SUFFICES ASSUME IInv, NEW s \in Spaces
               PROVE  /\ created[s] # None => Registered(s) /\ dir[s][Catalog].spec = created[s]
                      /\ \A id \in Ids : acked[s][id] # None =>
                           LET newest == Newest(Generations(s))
                           IN  /\ newest # 0
                               /\ dir[s][<<"index", newest>>][id] = acked[s][id]
                               /\ dir[s][<<"metadata", newest>>][id] = acked[s][id]
    BY DEF AckedIsPublished
  <2>1. /\ Registered(s) <=> Named(dir[s])
        /\ Registered(s) => Generations(s) = GensOf(dir[s])
        /\ GensOf(dir[s]) \in SUBSET Generation
    BY NothingIsMissing DEF IInv
  <2>2. Keeps(dir[s], created[s], acked[s])
    BY DEF IInv, Promised
  <2>3. ASSUME NEW id \in Ids, acked[s][id] # None
        PROVE  /\ Newest(Generations(s)) # 0
               /\ dir[s][<<"index", Newest(Generations(s))>>][id] = acked[s][id]
               /\ dir[s][<<"metadata", Newest(Generations(s))>>][id] = acked[s][id]
    <3>1. /\ GensOf(dir[s]) # {}
          /\ dir[s][<<"index", Newest(GensOf(dir[s]))>>][id] = acked[s][id]
      BY <2>2, <2>3 DEF Keeps
    <3>2. Generations(s) = GensOf(dir[s])
      BY <2>1, <3>1 DEF GensOf
    <3>3. Newest(GensOf(dir[s])) # 0 /\ Newest(GensOf(dir[s])) \in GensOf(dir[s])
      BY <2>1, <3>1, NewestIs
    <3>4. Whole(dir[s], Newest(GensOf(dir[s])))
      BY <3>3 DEF IInv, Disk, Settled
    <3> QED
      BY <3>1, <3>2, <3>3, <3>4 DEF Whole
  <2> QED
    BY <2>1, <2>2, <2>3 DEF Keeps
<1> QED
  BY <1>1, CollectionIsSound, PTL

\* A generation that stays in the catalog keeps its files, also when the number of an
\* abandoned publication is used again (collectionGeneration in collection_storage.go).
THEOREM GenerationsStayAsWritten == Spec => GenerationsAreImmutable
<1> DEFINE Kept == \A s \in Spaces : Registered(s) /\ Registered(s)' =>
                     \A g \in Generations(s) \cap Generations(s)' : \A kind \in {"index", "metadata"} :
                       dir'[s][<<kind, g>>] = dir[s][<<kind, g>>]
<1>1. IInv /\ [Next]_vars => [Kept]_vars
  <2> SUFFICES ASSUME IInv, [Next]_vars,
                      NEW s \in Spaces, Registered(s), Registered(s)',
                      NEW g \in Generations(s) \cap Generations(s)',
                      NEW kind \in {"index", "metadata"}
               PROVE  dir'[s][<<kind, g>>] = dir[s][<<kind, g>>]
    OBVIOUS
  <2>1. Unaltered
    BY Inductive
  <2>2. g \in GensOf(dir[s]) /\ g \in GensOf(dir'[s])
    BY DEF Registered, Generations, GensOf, Named
  <2> QED
    BY <2>1, <2>2 DEF Unaltered, Alike, Kinds
<1> QED
  BY <1>1, CollectionIsSound, PTL DEF Spec, GenerationsAreImmutable

\* Maintenance that ends well has left nothing in its spaces but what their catalogs name
\* (collection_gc.go).
THEOREM MaintenanceLeavesNothing == Spec => MaintenanceReclaims
<1> DEFINE Reclaimed ==
      EndMaintenance => \A s \in job.scope : \A n \in DOMAIN dir'[s] :
        n = Catalog \/ (n[1] \in {"index", "metadata", "commit"} /\ n[2] \in Committed(s)')
<1>1. IInv /\ [Next]_vars => [Reclaimed]_vars
  <2> SUFFICES ASSUME IInv, EndMaintenance, NEW s \in job.scope, NEW n \in DOMAIN dir'[s], n # Catalog
               PROVE  n[1] \in {"index", "metadata", "commit"} /\ n[2] \in Committed(s)'
    OBVIOUS
  <2>1. Maintaining /\ dir' = Unstaged(dir) /\ UNCHANGED synced /\ job.dirty = {}
    BY DEF EndMaintenance, Maintaining
  <2>2. s \in Spaces /\ Garbage(s) = {}
    BY <2>1 DEF IInv, Maintenance, Jobs
  <2>3. n \in DOMAIN dir[s] /\ GensOf(dir'[s]) = GensOf(dir[s])
    BY <2>1, <2>2, EndsGently
  <2>4. n \in Names
    BY <2>2, <2>3 DEF IInv, Disk, Settled, Filed
  <2>5. Committed(s)' = GensOf(dir'[s]) /\ Committed(s) = GensOf(dir[s])
    BY DEF Committed, Registered, Generations, GensOf, Named
  <2> QED
    BY <2>2, <2>3, <2>4, <2>5 DEF Garbage, Names, Catalog, Pending
<1> QED
  BY <1>1, CollectionIsSound, PTL DEF Spec, MaintenanceReclaims

=============================================================================
