-------------------------- MODULE PlanScheduleProofs --------------------------
(***************************************************************************)
(* Proofs about PlanSchedule, for plans of any length and any dependencies.*)
(* No induction over the plan is needed: what the loop has placed so far   *)
(* is a schedule of exactly those tasks, and each pass extends it.         *)
(***************************************************************************)
EXTENDS PlanSchedule, PlanDagProofs

D == DepsOf(plan)

(* The dict and the set share out the ids, and every dependency is one.    *)
SharedOut ==
  /\ done \cup remaining = Ids(plan)
  /\ done \cap remaining = {}
  /\ \A i \in Ids(plan) : D[i] \subseteq Ids(plan)

(* The levels hold what is done, each task in one of them.                 *)
Holds ==
  /\ \A i \in done : \E k \in DOMAIN levels : i \in levels[k]
  /\ \A k \in DOMAIN levels : levels[k] # {} /\ levels[k] \subseteq done
  /\ \A k, l \in DOMAIN levels : k # l => levels[k] \cap levels[l] = {}

(* Each task stands right after the last of its dependencies.              *)
Ordered ==
  \A k \in DOMAIN levels : \A i \in levels[k] :
    /\ \A j \in D[i] : \E l \in 1 .. k - 1 : j \in levels[l]
    /\ k = 1 \/ D[i] \cap levels[k - 1] # {}

(* A task still waiting could not have been placed in an earlier pass.     *)
NoneMissed ==
  \A i \in remaining :
    levels # <<>> /\ D[i] \subseteq done => D[i] \cap levels[Len(levels)] # {}

(* No task of a knot is ever placed.                                       *)
KnotsWait == \A S \in SUBSET Ids(plan) : Knot(D, S) => S \cap done = {}

Loop == SharedOut /\ Holds /\ Ordered /\ NoneMissed /\ KnotsWait

(* The checks validate_plan made before it sorts.                          *)
Checked ==
  /\ ~ UnknownTool(plan, Registry)
  /\ ~ DuplicateIds(plan)
  /\ ~ UnknownDep(plan)
  /\ ~ SelfDep(plan)

SInv ==
  /\ TypeOK
  /\ pc \in {"loop", "return"} => Checked
  /\ pc = "raise" /\ reason # "cycle" => ~ Checked
  /\ pc \in {"loop", "return"} => Loop
  /\ pc = "validate" => done = {} /\ levels = <<>>
  /\ pc = "return" => remaining = {}
  /\ pc = "raise" /\ reason = "cycle" => Knot(D, remaining)
-----------------------------------------------------------------------------
(* The dependency graph is a function on the ids of the plan.              *)
LEMMA DepsDomain == DOMAIN D = Ids(plan)
BY DEF D, DepsOf

(* Once unknown deps are ruled out, every dependency is a task's id.       *)
LEMMA DepsKnown ==
  ASSUME ~ UnknownDep(plan), NEW i \in Ids(plan)
  PROVE  D[i] \subseteq Ids(plan)
<1>1. ById(plan, i) \in Range(plan)
  BY DEF Ids, ById
<1>2. D[i] = EffectiveDeps(ById(plan, i))
  BY DEF D, DepsOf
<1>. QED
  BY <1>1, <1>2 DEF UnknownDep

LEMMA InitSInv == Init => SInv
BY DEF Init, SInv, TypeOK, Reasons

LEMMA AcceptStep ==
  ASSUME SInv, Accept
  PROVE  SInv'
<1>. USE DEF SInv, Accept, Checked
<1>1. TypeOK'
  BY DEF TypeOK
<1>2. D' = D /\ Ids(plan)' = Ids(plan)
  BY DEF D
<1>3. SharedOut'
  BY <1>2, DepsKnown DEF SharedOut
<1>4. (Holds /\ Ordered /\ NoneMissed /\ KnotsWait)'
  BY DEF Holds, Ordered, NoneMissed, KnotsWait
<1>. QED
  BY <1>1, <1>3, <1>4 DEF Loop

(* A pass of the loop: the ready tasks become the next level.              *)
LEMMA PlaceLevelStep ==
  ASSUME SInv, PlaceLevel
  PROVE  SInv'
<1>. USE DEF SInv
<1>. DEFINE n == Len(levels)
<1>1. /\ pc = "loop" /\ UNCHANGED <<plan, pc, reason>>
      /\ Ready # {} /\ Ready \subseteq remaining
      /\ \A i \in Ready : D[i] \subseteq done
      /\ \A i \in remaining \ Ready : ~ (D[i] \subseteq done)
      /\ done' = done \cup Ready
      /\ remaining' = remaining \ Ready
  BY DEF PlaceLevel, Ready, D
<1>2. D' = D /\ Ids(plan)' = Ids(plan)
  BY <1>1 DEF D
<1>3. SharedOut /\ Holds /\ Ordered /\ NoneMissed /\ KnotsWait
  BY <1>1 DEF Loop
<1>4. TypeOK'
  BY <1>1 DEF TypeOK, PlaceLevel
<1>5. /\ n \in Nat /\ DOMAIN levels = 1 .. n
      /\ Len(levels') = n + 1 /\ DOMAIN levels' = 1 .. n + 1
      /\ levels'[n + 1] = Ready
      /\ \A k \in 1 .. n : levels'[k] = levels[k]
  BY DEF TypeOK, PlaceLevel
<1>. HIDE DEF n
<1>6. SharedOut'
  BY <1>1, <1>2, <1>3 DEF SharedOut
<1>7. Holds'
  <2>1. \A i \in done' : \E k \in 1 .. n + 1 : i \in levels'[k]
    <3>1. ASSUME NEW i \in done PROVE \E k \in 1 .. n + 1 : i \in levels'[k]
      <4>1. PICK k \in 1 .. n : i \in levels[k]
        BY <1>3, <1>5 DEF Holds
      <4>. QED
        BY <4>1, <1>5
    <3>2. n + 1 \in 1 .. n + 1
      BY <1>5
    <3>. QED
      BY <1>1, <1>5, <3>1, <3>2
  <2>2. \A k \in 1 .. n + 1 : levels'[k] # {} /\ levels'[k] \subseteq done'
    <3>. SUFFICES ASSUME NEW k \in 1 .. n + 1
         PROVE  levels'[k] # {} /\ levels'[k] \subseteq done'
      OBVIOUS
    <3>1. CASE k = n + 1
      BY <1>1, <1>5, <3>1
    <3>2. CASE k \in 1 .. n
      BY <1>1, <1>3, <1>5, <3>2 DEF Holds
    <3>. QED
      BY <1>5, <3>1, <3>2
  <2>3. \A k \in 1 .. n : levels[k] \cap Ready = {}
    BY <1>1, <1>3, <1>5 DEF Holds, SharedOut
  <2>4. \A k, l \in 1 .. n + 1 : k # l => levels'[k] \cap levels'[l] = {}
    <3>. SUFFICES ASSUME NEW k \in 1 .. n + 1, NEW l \in 1 .. n + 1, k # l
         PROVE  levels'[k] \cap levels'[l] = {}
      OBVIOUS
    <3>1. CASE k = n + 1
      BY <1>5, <2>3, <3>1
    <3>2. CASE l = n + 1
      BY <1>5, <2>3, <3>2
    <3>3. CASE k \in 1 .. n /\ l \in 1 .. n
      BY <1>3, <1>5, <3>3 DEF Holds
    <3>. QED
      BY <1>5, <3>1, <3>2, <3>3
  <2>. QED
    BY <1>5, <2>1, <2>2, <2>4 DEF Holds
<1>8. Ordered'
  <2>. SUFFICES ASSUME NEW k \in 1 .. n + 1, NEW i \in levels'[k]
       PROVE  /\ \A j \in D[i] : \E l \in 1 .. k - 1 : j \in levels'[l]
              /\ k = 1 \/ D[i] \cap levels'[k - 1] # {}
    BY <1>2, <1>5 DEF Ordered
  <2>1. CASE k = n + 1
    <3>1. i \in Ready /\ D[i] \subseteq done
      BY <1>1, <1>5, <2>1
    <3>2. \A j \in D[i] : \E l \in 1 .. n : j \in levels[l]
      BY <1>3, <1>5, <3>1 DEF Holds
    <3>3. n # 0 => D[i] \cap levels[n] # {}
      BY <1>1, <1>3, <1>5, <3>1 DEF NoneMissed, n
    <3>. QED
      BY <1>5, <2>1, <3>2, <3>3
  <2>2. CASE k \in 1 .. n
    <3>1. /\ \A j \in D[i] : \E l \in 1 .. k - 1 : j \in levels[l]
          /\ k = 1 \/ D[i] \cap levels[k - 1] # {}
      BY <1>3, <1>5, <2>2 DEF Ordered
    <3>2. \A l \in 1 .. k - 1 : levels'[l] = levels[l]
      BY <1>5, <2>2
    <3>3. k # 1 => k - 1 \in 1 .. k - 1
      BY <1>5, <2>2
    <3>. QED
      BY <3>1, <3>2, <3>3
  <2>. QED
    BY <1>5, <2>1, <2>2
<1>9. NoneMissed'
  <2>. SUFFICES ASSUME NEW i \in remaining', D[i] \subseteq done'
       PROVE  D[i] \cap levels'[n + 1] # {}
    BY <1>2, <1>5 DEF NoneMissed
  <2>1. ~ (D[i] \subseteq done)
    BY <1>1
  <2>. QED
    BY <1>1, <1>5, <2>1
<1>10. KnotsWait'
  <2>. SUFFICES ASSUME NEW S \in SUBSET Ids(plan), Knot(D, S), NEW i \in S, i \in done'
       PROVE  FALSE
    BY <1>2 DEF KnotsWait
  <2>1. S \cap done = {}
    BY <1>3 DEF KnotsWait
  <2>2. D[i] \subseteq done
    BY <1>1, <2>1
  <2>3. D[i] \cap S # {}
    BY DEF Knot
  <2>. QED
    BY <2>1, <2>2, <2>3
<1>. QED
  BY <1>1, <1>4, <1>6, <1>7, <1>8, <1>9, <1>10 DEF Loop, Checked

(* When no task is ready, what remains waits for itself.                   *)
LEMMA CycleStep ==
  ASSUME SInv, Cycle
  PROVE  SInv'
<1>. USE DEF SInv, Cycle, Raise
<1>1. SharedOut
  BY DEF Loop
<1>2. Knot(D, remaining)
  <2>1. remaining \subseteq DOMAIN D
    BY <1>1, DepsDomain DEF SharedOut
  <2>2. ASSUME NEW i \in remaining PROVE D[i] \cap remaining # {}
    <3>1. ~ (D[i] \subseteq done)
      BY DEF Ready, D
    <3>. QED
      BY <1>1, <3>1 DEF SharedOut
  <2>. QED
    BY <2>1, <2>2 DEF Knot
<1>3. TypeOK'
  BY DEF TypeOK, Reasons
<1>. QED
  BY <1>2, <1>3 DEF D

LEMMA NextSInv == SInv /\ [Next]_vars => SInv'
<1>. SUFFICES ASSUME SInv, [Next]_vars PROVE SInv'
  OBVIOUS
<1>. USE DEF SInv
<1>1. CASE Accept
  BY <1>1, AcceptStep
<1>2. CASE PlaceLevel
  BY <1>2, PlaceLevelStep
<1>3. CASE Cycle
  BY <1>3, CycleStep
<1>4. CASE Refuse
  <2>1. ASSUME NEW k \in DOMAIN plan, Wrong(plan[k])
        PROVE  UnknownDep(plan) \/ SelfDep(plan)
    <3>1. plan[k] \in Range(plan)
      BY DEF Range
    <3>. QED
      BY <2>1, <3>1 DEF Wrong, Unmet, UnknownDep, SelfDep
  <2>2. ~ Checked
    BY <1>4, <2>1 DEF Refuse, Checked
  <2>3. /\ pc' = "raise" /\ reason' \in {"tool", "duplicate", "unknown", "self"}
        /\ UNCHANGED <<plan, remaining, done, levels>>
    BY <1>4 DEF Refuse, Raise
  <2>. QED
    BY <2>2, <2>3 DEF TypeOK, Reasons, Checked
<1>5. CASE Return
  <2>1. TypeOK'
    BY <1>5 DEF Return, TypeOK
  <2>2. Loop' /\ D' = D
    BY <1>5 DEF Return, Loop, D, SharedOut, Holds, Ordered, NoneMissed, KnotsWait
  <2>. QED
    BY <1>5, <2>1, <2>2 DEF Return, Checked
<1>6. CASE UNCHANGED vars
  <2>1. TypeOK'
    BY <1>6 DEF vars, TypeOK
  <2>2. (Loop' <=> Loop) /\ D' = D
    BY <1>6 DEF vars, Loop, D, SharedOut, Holds, Ordered, NoneMissed, KnotsWait
  <2>. QED
    BY <1>6, <2>1, <2>2 DEF vars, Checked
<1>. QED
  BY <1>1, <1>2, <1>3, <1>4, <1>5, <1>6 DEF Next
-----------------------------------------------------------------------------
(* What the loop has placed when it returns is a schedule of the plan.     *)
LEMMA ReturnedIsSchedule ==
  ASSUME SInv, pc = "return"
  PROVE  IsSchedule(D, levels) /\ levels \in Seq(SUBSET Ids(plan))
<1>1. done = Ids(plan) /\ SharedOut /\ Holds /\ Ordered
  BY DEF SInv, Loop, SharedOut
<1>2. UNION Range(levels) = DOMAIN D
  BY <1>1, DepsDomain DEF Holds, Range
<1>. QED
  BY <1>1, <1>2 DEF IsSchedule, Holds, Ordered, SInv, TypeOK

(* Tasks that wait for one another have no depths: a plan with a knot      *)
(* cannot be sorted.                                                       *)
LEMMA KnotsHaveNoDepth ==
  ASSUME SInv, NEW S, Knot(D, S)
  PROVE  ~ Acyclic(plan)
<1>. SUFFICES ASSUME NEW d \in Depths(D) PROVE FALSE
  BY DEF Acyclic, D
<1>1. IsFiniteSet(DOMAIN D)
  BY DepsDomain, IdsFinite, PlansAssumption DEF SInv, TypeOK
<1>2. d \in [DOMAIN D -> Nat \ {0}] /\ IsDepth(D, d)
  BY <1>1, DepthsType
<1>. DEFINE B == {v \in Nat : \E i \in S : d[i] = v}
<1>3. S # {} /\ S \subseteq DOMAIN D /\ \A i \in S : D[i] \cap S # {}
  BY DEF Knot
<1>4. B \in SUBSET Nat /\ B # {}
  BY <1>2, <1>3
<1>5. PICK m \in B : \A v \in B : m <= v
  BY <1>4, LeastElement
<1>6. PICK i \in S : d[i] = m
  OBVIOUS
<1>7. PICK j \in D[i] : j \in S /\ d[j] < d[i]
  BY <1>2, <1>3 DEF IsDepth
<1>. QED
  BY <1>2, <1>3, <1>5, <1>6, <1>7

(* The plan, the levels placed so far and the tasks left over have their   *)
(* types throughout validate_plan.                                         *)
THEOREM TypeCorrect == Spec => []TypeOK
<1>1. SInv => TypeOK
  BY DEF SInv
<1>. QED
  BY InitSInv, NextSInv, <1>1, PTL DEF Spec

(* topological_levels returns a schedule, however many tasks there are:    *)
(* all tasks, once each, every dependency in an earlier level, and no task *)
(* later than its dependencies make it.                                    *)
THEOREM SortedIsSchedule == Spec => []ReturnsSchedule
<1>1. SInv => ReturnsSchedule
  BY ReturnedIsSchedule DEF ReturnsSchedule, D
<1>. QED
  BY InitSInv, NextSInv, <1>1, PTL DEF Spec

(* A plan is called cyclic only when some of its tasks wait for one        *)
(* another, and a plan in which some do is never returned as sorted.       *)
THEOREM CyclesFound == Spec => []CycleIsReal
<1>1. SInv => CycleIsReal
  <2>. SUFFICES ASSUME SInv PROVE CycleIsReal
    OBVIOUS
  <2>1. ASSUME pc = "return", NEW S \in SUBSET Ids(plan), Knot(D, S) PROVE FALSE
    <3>1. S \cap done = {} /\ done = Ids(plan)
      BY <2>1 DEF SInv, Loop, KnotsWait, SharedOut
    <3>. QED
      BY <2>1, <3>1 DEF Knot
  <2>. QED
    BY <2>1 DEF SInv, CycleIsReal, D
<1>. QED
  BY InitSInv, NextSInv, <1>1, PTL DEF Spec

(* So a plan is either sorted into a schedule or has tasks that no order   *)
(* can run, and the error is about these.                                  *)
THEOREM SortsOrFindsKnot == Spec => []SortedOrKnotted
<1>1. ReturnsSchedule /\ CycleIsReal => SortedOrKnotted
  BY DEF SortedOrKnotted
<1>. QED
  BY SortedIsSchedule, CyclesFound, <1>1, PTL

(* The loop accepts exactly the plans that are valid by definition and     *)
(* returns exactly the levels the agent's model works with: Kahn's         *)
(* algorithm computes the one schedule there is.                           *)
THEOREM LoopComputesLevels == Spec => []LoopMatchesDefinition
<1>1. SInv => LoopMatchesDefinition
  <2>. SUFFICES ASSUME SInv PROVE LoopMatchesDefinition
    OBVIOUS
  <2>1. plan \in Seq(Range(plan))
    BY PlansAssumption DEF SInv, TypeOK
  <2>2. ASSUME pc = "return"
        PROVE  ValidPlan(plan, Registry) /\ levels = TopologicalLevels(plan)
    <3>1. Acyclic(plan) /\ levels = TopologicalLevels(plan)
      BY <2>1, <2>2, ReturnedIsSchedule, ScheduleOfPlan DEF D
    <3>. QED
      BY <2>2, <3>1 DEF SInv, Checked, ValidPlan
  <2>3. ASSUME pc = "raise"
        PROVE  ~ ValidPlan(plan, Registry)
    <3>1. CASE reason = "cycle"
      BY <2>3, <3>1, KnotsHaveNoDepth DEF SInv, ValidPlan
    <3>2. CASE reason # "cycle"
      BY <2>3, <3>2 DEF SInv, Checked, ValidPlan
    <3>. QED
      BY <3>1, <3>2
  <2>. QED
    BY <2>2, <2>3 DEF LoopMatchesDefinition
<1>. QED
  BY InitSInv, NextSInv, <1>1, PTL DEF Spec
=============================================================================
