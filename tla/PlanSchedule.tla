---------------------------- MODULE PlanSchedule ----------------------------
(***************************************************************************)
(* validate_plan and the loop of topological_levels (plan_execute/dag.py)  *)
(* on one plan: the checks, then Kahn's algorithm one level at a time.     *)
(***************************************************************************)
EXTENDS PlanDag

CONSTANTS
  Plans,     \* the plans that may be submitted
  Registry   \* the tools that are registered

ASSUME PlansAssumption == \A p \in Plans : p \in Seq(Range(p))

VARIABLES
  plan,       \* the plan being checked
  pc,         \* "validate", "loop", "return" or "raise"
  reason,     \* why PlanError was raised
  remaining,  \* ids not yet placed (the keys of the dict)
  done,       \* ids placed so far
  levels      \* the levels built so far

vars == <<plan, pc, reason, remaining, done, levels>>

Reasons == {"none", "tool", "duplicate", "unknown", "self", "cycle"}

TypeOK ==
  /\ plan \in Plans
  /\ pc \in {"validate", "loop", "return", "raise"}
  /\ reason \in Reasons
  /\ remaining \subseteq Ids(plan)
  /\ done \subseteq Ids(plan)
  /\ levels \in Seq(SUBSET Ids(plan))

Init ==
  /\ plan \in Plans
  /\ pc = "validate"
  /\ reason = "none"
  /\ remaining = {}
  /\ done = {}
  /\ levels = <<>>

Raise(why) ==
  /\ pc' = "raise"
  /\ reason' = why
  /\ UNCHANGED <<plan, remaining, done, levels>>

Unmet(t) == ~ (EffectiveDeps(t) \subseteq Ids(plan))

Wrong(t) == Unmet(t) \/ t.id \in EffectiveDeps(t)

(* The first check that fails decides the message, and among dependencies  *)
(* the first task that has a wrong one.                                    *)
Refuse ==
  /\ pc = "validate"
  /\ \/ UnknownTool(plan, Registry) /\ Raise("tool")
     \/ /\ ~ UnknownTool(plan, Registry)
        /\ DuplicateIds(plan)
        /\ Raise("duplicate")
     \/ /\ ~ UnknownTool(plan, Registry) /\ ~ DuplicateIds(plan)
        /\ \E k \in DOMAIN plan :
             /\ Wrong(plan[k]) /\ \A j \in 1 .. k - 1 : ~ Wrong(plan[j])
             /\ Raise(IF Unmet(plan[k]) THEN "unknown" ELSE "self")

(* Mutant: repeated ids are not noticed.                                   *)
AcceptDuplicates ==
  /\ pc = "validate"
  /\ ~ UnknownTool(plan, Registry)
  /\ ~ UnknownDep(plan)
  /\ ~ SelfDep(plan)
  /\ pc' = "loop"
  /\ remaining' = Ids(plan)
  /\ UNCHANGED <<plan, reason, done, levels>>

Accept ==
  /\ pc = "validate"
  /\ ~ UnknownTool(plan, Registry)
  /\ ~ DuplicateIds(plan)
  /\ ~ UnknownDep(plan)
  /\ ~ SelfDep(plan)
  /\ pc' = "loop"
  /\ remaining' = Ids(plan)
  /\ UNCHANGED <<plan, reason, done, levels>>

Ready == {i \in remaining : DepsOf(plan)[i] \subseteq done}

PlaceLevel ==
  /\ pc = "loop"
  /\ Ready # {}
  /\ levels' = Append(levels, Ready)
  /\ done' = done \cup Ready
  /\ remaining' = remaining \ Ready
  /\ UNCHANGED <<plan, pc, reason>>

(* Mutant: without the test for an empty level the loop spins.             *)
CycleSpins ==
  /\ pc = "loop"
  /\ remaining # {}
  /\ Ready = {}
  /\ UNCHANGED vars

Cycle ==
  /\ pc = "loop"
  /\ remaining # {}
  /\ Ready = {}
  /\ Raise("cycle")

(* Mutant: an empty level ends the loop instead of raising.                *)
ReturnWhenStuck ==
  /\ pc = "loop"
  /\ Ready = {}
  /\ pc' = "return"
  /\ UNCHANGED <<plan, reason, remaining, done, levels>>

Return ==
  /\ pc = "loop"
  /\ remaining = {}
  /\ pc' = "return"
  /\ UNCHANGED <<plan, reason, remaining, done, levels>>

Next == Refuse \/ Accept \/ PlaceLevel \/ Cycle \/ Return

Spec == Init /\ [][Next]_vars

(* Straight-line code: a step that can be taken is taken.                  *)
FairSpec == Spec /\ WF_vars(Next)

-----------------------------------------------------------------------------
(* A set of tasks that all wait for one another: no order runs any of it.  *)
Knot(D, S) ==
  /\ S # {}
  /\ S \subseteq DOMAIN D
  /\ \A i \in S : D[i] \cap S # {}

(* What the loop returns: dependencies run in earlier levels, no task is   *)
(* lost or placed twice, and none waits for a level it does not need.      *)
ReturnsSchedule == pc = "return" => IsSchedule(DepsOf(plan), levels)

(* A "cycle" error names tasks that really wait for one another, and no    *)
(* plan that contains such a knot is ever returned as sorted.              *)
CycleIsReal ==
  /\ pc = "raise" /\ reason = "cycle" => Knot(DepsOf(plan), remaining)
  /\ pc = "return" => \A S \in SUBSET Ids(plan) : ~ Knot(DepsOf(plan), S)

(* A plan is either sorted into a schedule or has tasks that no order can  *)
(* run, and then the error is about these (topological_levels).            *)
SortedOrKnotted == ReturnsSchedule /\ CycleIsReal

(* The loop agrees with the definition the agent's model uses: it accepts  *)
(* exactly the valid plans and returns exactly their levels.               *)
LoopMatchesDefinition ==
  /\ pc = "return" => /\ ValidPlan(plan, Registry)
                      /\ levels = TopologicalLevels(plan)
  /\ pc = "raise" => ~ ValidPlan(plan, Registry)

(* validate_plan answers on every plan: the loop places a level or stops.  *)
Terminates == <>(pc \in {"return", "raise"})
=============================================================================
