--------------------------- MODULE DeletionPolicy ---------------------------
(***************************************************************************)
(* The bookkeeping of KeepNLatestDeletionPolicy (index/deletion.go): which  *)
(* snapshot epochs are retained, which are only waiting to be removed, what *)
(* segments each of them still needs, and which segment files are known.    *)
(* Pure operators over one policy record, used by every module whose        *)
(* writer commits snapshots and cleans its directory.                       *)
(***************************************************************************)
EXTENDS Naturals, Sequences, FiniteSets

CONSTANT Keep          \* n: how many of the latest snapshots are retained

ASSUME KeepAssumption == Keep \in Nat \ {0}

\* NewKeepNLatestDeletionPolicy.  needs holds <<epoch, segment id>> for every
\* entry of the liveSegments map of maps.
NewPolicy == [live |-> <<>>, deletable |-> {}, needs |-> {}, known |-> {}]

Policies ==
  [live : Seq(Nat), deletable : SUBSET Nat, needs : SUBSET (Nat \X Nat), known : SUBSET Nat]

\* Mutant: off by one, one snapshot too few is retained.
SurplusOneMore(live) == IF Len(live) >= Keep THEN Len(live) - Keep + 1 ELSE 0

\* The number of epochs that Commit trims off the front of liveEpochs.
Surplus(live) == IF Len(live) > Keep THEN Len(live) - Keep ELSE 0

\* Commit: remember what the snapshot needs, retire all but the Keep latest.
Commit(p, epoch, ids) ==
  LET live == Append(p.live, epoch)
      n    == Surplus(live)
  IN  [live      |-> SubSeq(live, n + 1, Len(live)),
       deletable |-> p.deletable \cup {live[i] : i \in 1..n},
       needs     |-> {x \in p.needs : x[1] # epoch} \cup ({epoch} \X ids),
       known     |-> p.known \cup ids]

\* TrackSegmentFiles.
TrackSegmentFiles(p, ids) == [p EXCEPT !.known = @ \cup ids]

\* Mutant: a snapshot gives up its segments although removing it failed.
ForgetAllDeletable(p, removed) ==
  [p EXCEPT !.deletable = @ \ removed,
            !.needs = {x \in @ : x[1] \notin p.deletable}]

\* cleanupSnapshots after the files of the epochs in "removed" went away: the
\* others stay deletable and keep their claim on their segments.
ForgetSnapshots(p, removed) ==
  [p EXCEPT !.deletable = @ \ removed,
            !.needs = {x \in @ : x[1] \notin removed}]

\* The segment files cleanupSegments tries to remove.
Unneeded(p) == {id \in p.known : \A x \in p.needs : x[2] # id}

\* cleanupSegments after the files in "removed" went away.
ForgetSegments(p, removed) == [p EXCEPT !.known = @ \ removed]

=============================================================================
