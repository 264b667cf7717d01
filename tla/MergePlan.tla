----------------------------- MODULE MergePlan -----------------------------
(***************************************************************************)
(* The merge planner (index/mergeplan/merge_plan.go) and what its plans do  *)
(* to the segments: plan picks rosters of small segments until they fit the *)
(* budget, every task leaves one segment.  The writer's Close repeats this  *)
(* until a plan is empty (index/merge.go, convergeMerges), so a plan that   *)
(* changes nothing would keep it for ever.                                  *)
(*                                                                         *)
(* A segment is [id, live, full].  Scores are left open: Options has a      *)
(* ScoreSegments of the application's, and any roster may be the best one.  *)
(***************************************************************************)
EXTENDS Integers, Sequences, FiniteSets, FiniteSetsExt, SequencesExt

CONSTANTS MaxSegmentSize, MaxSegmentsPerTier, TierGrowth, SegmentsPerMergeTask,
          FloorSegmentSize,   \* Options
          MaxSize,            \* bound: documents in a segment of a batch
          MaxIds              \* bound: segment ids

ASSUME MergePlanAssumption ==
  /\ {MaxSegmentSize, MaxSegmentsPerTier, SegmentsPerMergeTask, FloorSegmentSize} \subseteq Int
  /\ TierGrowth \in Int /\ MaxSize \in Nat /\ MaxIds \in Nat

VARIABLES
  segs,      \* the persisted segments
  lastId,
  planning,  \* [pc, eligibles, tasks, budget]
  quiet      \* Close: no batch comes any more

planVars == <<segs, lastId, planning, quiet>>

-----------------------------------------------------------------------------
(* The planner *)

Raised(size) == IF size > FloorSegmentSize THEN size ELSE FloorSegmentSize

AtLeast1(n) == IF n < 1 THEN 1 ELSE n

Staircase[total \in 0 .. MaxSize * MaxIds, tier \in Nat] ==
  LET width == AtLeast1(MaxSegmentsPerTier)
  IN  IF total < width * tier THEN (total + tier - 1) \div tier
      ELSE width + Staircase[total - width * tier, tier * AtLeast1(TierGrowth)]

CalcBudget(total, firstTier) == Staircase[total, AtLeast1(firstTier)]

LiveOf(some) == FoldSet(LAMBDA s, sum : sum + s.live, 0, some)

Bigger(s, t) == s.live > t.live \/ (s.live = t.live /\ s.id < t.id)

Eligible(some) == {s \in some : s.live < MaxSegmentSize \div 2}
Empties(some)  == {s \in some : s.live <= 0}

\* The roster that starts at a segment: the next ones that fit, up to the task's width.
Roster(eligibles, start) ==
  FoldLeft(LAMBDA roster, s :
             IF Len(roster) < SegmentsPerMergeTask
                  /\ LiveOf(ToSet(roster)) + s.live < MaxSegmentSize
               THEN Append(roster, s) ELSE roster,
           <<>>, SubSeq(eligibles, start, Len(eligibles)))

\* Mutant: a segment may be rewritten for nothing.
AnyRoster(roster) == roster # <<>>

RosterMakesProgress(roster) ==
  Len(roster) > 1 \/ (Len(roster) = 1 /\ roster[1].live < roster[1].full)

Rosters(eligibles) ==
  {r \in {Roster(eligibles, n) : n \in 1 .. Len(eligibles)} : RosterMakesProgress(r)}

RemoveSegments(eligibles, some) == SelectSeq(eligibles, LAMBDA s : s \notin some)

-----------------------------------------------------------------------------

NotPlanning == [pc |-> "idle", eligibles |-> <<>>, tasks |-> <<>>, budget |-> 0]

PlanInit == segs = {} /\ lastId = 0 /\ planning = NotPlanning /\ quiet = FALSE

\* Batches bring segments and delete documents in others.
AddSegment(size) ==
  /\ ~quiet /\ lastId < MaxIds /\ planning.pc = "idle"
  /\ lastId' = lastId + 1
  /\ segs' = segs \cup {[id |-> lastId + 1, live |-> size, full |-> size]}
  /\ UNCHANGED <<planning, quiet>>

Obsolete(s, count) ==
  /\ ~quiet /\ planning.pc = "idle"
  /\ segs' = (segs \ {s}) \cup {[s EXCEPT !.live = @ - count]}
  /\ UNCHANGED <<lastId, planning, quiet>>

\* Close takes the writer's lock.
NoMoreBatches ==
  /\ ~quiet /\ quiet' = TRUE
  /\ UNCHANGED <<segs, lastId, planning>>

\* plan up to its loop.  The empty segments are a task of their own.
StartPlan ==
  /\ quiet /\ planning.pc = "idle" /\ Cardinality(segs) > 1
  /\ LET sorted  == SetToSortSeq(Eligible(segs), Bigger)
         minLive == Min({s.live : s \in segs})
         empties == Empties(ToSet(sorted))
     IN  planning' =
           [pc |-> "loop",
            eligibles |-> RemoveSegments(sorted, empties),
            tasks |-> IF empties = {} THEN <<>> ELSE <<empties>>,
            budget |-> CalcBudget(LiveOf(Eligible(segs)), Raised(minLive))]
  /\ UNCHANGED <<segs, lastId, quiet>>

OverBudget ==
  /\ planning.eligibles # <<>>
  /\ Len(planning.eligibles) + Len(planning.tasks) > planning.budget

AddTask(roster) ==
  /\ planning.pc = "loop" /\ OverBudget
  /\ planning' = [planning EXCEPT
       !.tasks = Append(@, ToSet(roster)),
       !.eligibles = RemoveSegments(@, ToSet(roster))]
  /\ UNCHANGED <<segs, lastId, quiet>>

EndPlan ==
  /\ planning.pc = "loop"
  /\ OverBudget => Rosters(planning.eligibles) = {}
  /\ planning' = [planning EXCEPT !.pc = IF planning.tasks = <<>> THEN "converged" ELSE "planned"]
  /\ UNCHANGED <<segs, lastId, quiet>>

\* The tasks' segments leave, and what is live in each becomes one segment.
Merged(n) == LET live == LiveOf(planning.tasks[n])
             IN  [id |-> lastId + n, live |-> live, full |-> live]

ExecutePlan ==
  /\ planning.pc = "planned"
  /\ segs' = (segs \ UNION ToSet(planning.tasks))
               \cup {Merged(n) : n \in {m \in DOMAIN planning.tasks : LiveOf(planning.tasks[m]) > 0}}
  /\ lastId' = lastId + Len(planning.tasks)
  /\ planning' = NotPlanning
  /\ UNCHANGED quiet

PlanNext ==
  \/ \E size \in 1 .. MaxSize : AddSegment(size)
  \/ \E s \in segs : \E count \in 1 .. s.live : Obsolete(s, count)
  \/ NoMoreBatches \/ StartPlan \/ EndPlan \/ ExecutePlan
  \/ \E roster \in Rosters(planning.eligibles) : AddTask(roster)

PlanSpec == PlanInit /\ [][PlanNext]_planVars

-----------------------------------------------------------------------------
(* Properties *)

\* "A segment will be assigned to at most a single MergeTask" (Plan's comment), no task
\* is predicted to exceed MaxSegmentSize or is wider than asked for.
TasksAreDisjoint ==
  /\ \A m, n \in DOMAIN planning.tasks :
       m # n => planning.tasks[m] \cap planning.tasks[n] = {}
  /\ \A n \in DOMAIN planning.tasks :
       /\ planning.tasks[n] # {} /\ planning.tasks[n] \subseteq segs
       /\ LiveOf(planning.tasks[n]) < MaxSegmentSize
       /\ Cardinality(planning.tasks[n]) <= SegmentsPerMergeTask
            \/ LiveOf(planning.tasks[n]) = 0

\* CalcBudget is the least number of segments of the idealized staircase that hold what
\* the eligible segments hold, counted segment by segment.
Step(n, firstTier) ==
  AtLeast1(firstTier) * AtLeast1(TierGrowth) ^ ((n - 1) \div AtLeast1(MaxSegmentsPerTier))
Holds[n \in Nat, firstTier \in Nat] ==
  IF n = 0 THEN 0 ELSE Holds[n - 1, firstTier] + Step(n, firstTier)
BudgetIsTheStaircase ==
  LET total == LiveOf(Eligible(segs))
      tier  == Raised(Min({s.live : s \in segs}))
  IN  planning.budget = Min({n \in 0 .. total : Holds[n, tier] >= total})

\* Every plan, computed against the budget of the staircase, has disjoint tasks of the
\* allowed size, and one with a task leaves fewer segments than before, or as many of which
\* fewer have deleted documents, and no fewer live documents: repeated plans come to an end,
\* and with them Close's wait for the merger.
Deletes(some) == {s \in some : s.live < s.full}
PlansConverge ==
  [][planning.pc = "planned" =>
       /\ TasksAreDisjoint /\ BudgetIsTheStaircase
       /\ \/ Cardinality(segs') < Cardinality(segs)
          \/ /\ Cardinality(segs') = Cardinality(segs)
             /\ Cardinality(Deletes(segs')) < Cardinality(Deletes(segs))
       /\ LiveOf(segs') = LiveOf(segs)]_planVars
=============================================================================
