-------------------------- MODULE PlanExecuteProofs --------------------------
(***************************************************************************)
(* Proofs about PlanExecute, for any set of ids, tools and plans and any   *)
(* bounds.                                                                 *)
(***************************************************************************)
EXTENDS PlanExecute, PlanDagProofs

(* The plan's levels and the branches in flight are tasks of the plan, and *)
(* branches exist only while their step runs.                              *)
InPlan ==
  /\ \A k \in DOMAIN levels : levels[k] \subseteq Ids(plan)
  /\ DOMAIN flight \subseteq Ids(plan)
  /\ pc # "run_task" => DOMAIN flight = {}

(* A branch in flight has no result yet, so merging never overwrites one.  *)
FlightIsNew == DOMAIN flight \cap DOMAIN results = {}

(* While a plan is being worked on, whatever the gate recorded as approved *)
(* was approved with the arguments the task has now: the results its       *)
(* references need were all there when the human was asked.                *)
GateRecorded ==
  pc \in {"approve", "level_gate", "run_task", "advance"} =>
    \A i \in preapproved :
      /\ i \in Ids(plan)
      /\ Resolvable(TaskById(i), results)
      /\ GateCall(i) \in granted

(* A branch allowed to run a gated tool carries an approved call.          *)
BranchApproved ==
  \A i \in DOMAIN flight :
    /\ flight[i].preapproved => TaskCall(i) \in granted
    /\ flight[i].st = "answered" /\ AsksInline(i) => TaskCall(i) \in granted

(* A branch that is done has returned a value.                             *)
DoneHasValue == \A i \in DOMAIN flight : flight[i].st = "done" => flight[i].out \in Value

IInv ==
  /\ TypeOK
  /\ InPlan
  /\ DoneHasValue
  /\ FlightIsNew
  /\ GateRecorded
  /\ BranchApproved
  /\ ApprovedBeforeRun
-----------------------------------------------------------------------------
(* Lemmas about plans and results                                          *)

(* by_id returns a task of the plan that carries the id.                   *)
LEMMA ByIdType ==
  ASSUME NEW p \in Seq(Task(Id, Registry)), NEW i \in Ids(p)
  PROVE  ById(p, i) \in Task(Id, Registry) /\ ById(p, i).id = i
<1>1. PICK t \in Range(p) : t.id = i
  BY DEF Ids
<1>2. ById(p, i) \in Range(p) /\ ById(p, i).id = i
  BY <1>1 DEF ById
<1>3. Range(p) \subseteq Task(Id, Registry)
  BY DEF Range
<1>. QED
  BY <1>2, <1>3

(* Every id of a plan is an id.                                            *)
LEMMA IdsType ==
  ASSUME NEW p \in Seq(Task(Id, Registry))
  PROVE  Ids(p) \subseteq Id
<1>1. SUFFICES ASSUME NEW t \in Range(p) PROVE t.id \in Id
  BY DEF Ids
<1>2. t \in Task(Id, Registry)
  BY DEF Range
<1>. QED
  BY <1>2 DEF Task

(* The levels of a valid plan are a list of sets of its ids.               *)
LEMMA LevelsType ==
  ASSUME NEW p \in Seq(Task(Id, Registry)), ValidPlan(p, Registry)
  PROVE  /\ TopologicalLevels(p) \in Seq(SUBSET Id)
         /\ \A k \in DOMAIN TopologicalLevels(p) :
              TopologicalLevels(p)[k] \subseteq Ids(p)
<1>1. TopologicalLevels(p) \in Seq(SUBSET Ids(p))
  BY LevelsOfPlan DEF ValidPlan
<1>. QED
  BY <1>1, IdsType

(* Substituted arguments are a partial map from ids to values.             *)
LEMMA ArgsType ==
  ASSUME NEW t, NEW res, DOMAIN res \subseteq Id, res \in [DOMAIN res -> Value],
         Resolvable(t, res)
  PROVE  SubstituteArgs(t, res) \in Args
BY DEF SubstituteArgs, Resolvable, Restrict, Args, Partial

(* Adding results under new ids changes neither whether the references of  *)
(* a task resolve, once they do, nor what they resolve to.                 *)
LEMMA MergeKeepsArgs ==
  ASSUME NEW t, NEW a, NEW b, DOMAIN a \cap DOMAIN b = {}, Resolvable(t, a)
  PROVE  /\ Resolvable(t, MergeResults(a, b))
         /\ SubstituteArgs(t, MergeResults(a, b)) = SubstituteArgs(t, a)
BY DEF Resolvable, SubstituteArgs, MergeResults, Restrict, RefsIn
-----------------------------------------------------------------------------
(* The inductive invariant                                                 *)

Active == {"approve", "level_gate", "run_task", "advance"}

LEMMA InitIInv == Init => IInv
<1>. SUFFICES ASSUME Init PROVE IInv
  OBVIOUS
<1>. USE DEF Init, Nothing
<1>1. TypeOK
  <2>1. DOMAIN Nothing = {} /\ \A S : Nothing \in [DOMAIN Nothing -> S]
    OBVIOUS
  <2>2. <<>> \in Seq(Task(Id, Registry)) /\ <<>> \in Seq(SUBSET Id)
    OBVIOUS
  <2>. HIDE DEF Nothing
  <2>. QED
    BY <2>1, <2>2 DEF TypeOK, Node
<1>2. InPlan /\ FlightIsNew /\ DoneHasValue /\ GateRecorded /\ BranchApproved
  BY DEF InPlan, FlightIsNew, DoneHasValue, GateRecorded, BranchApproved
<1>3. ApprovedBeforeRun
  BY DEF ApprovedBeforeRun
<1>. QED
  BY <1>1, <1>2, <1>3 DEF IInv

(* A step that touches neither the plan, its results and approvals nor the *)
(* branches preserves everything but types and the position.               *)
LEMMA QuietStep ==
  ASSUME IInv, TypeOK',
         UNCHANGED <<plan, levels, results, preapproved, flight, granted, ran>>,
         pc' \in Active => pc \in Active,
         pc' # "run_task" => DOMAIN flight = {}
  PROVE  IInv'
<1>. USE DEF IInv
<1>1. InPlan' /\ FlightIsNew' /\ DoneHasValue'
  BY DEF InPlan, FlightIsNew, DoneHasValue
<1>2. GateRecorded'
  BY DEF GateRecorded, Active, TaskById, GateCall
<1>3. BranchApproved'
  BY DEF BranchApproved, TaskCall, AsksInline, TaskById
<1>4. ApprovedBeforeRun'
  BY DEF ApprovedBeforeRun
<1>. QED
  BY <1>1, <1>2, <1>3, <1>4

(* A step that puts a plan in effect (or none) with a fresh namespace.     *)
LEMMA FreshStep ==
  ASSUME IInv, TypeOK',
         \A k \in DOMAIN levels' : levels'[k] \subseteq Ids(plan'),
         DOMAIN flight' = {}, ran' = {},
         pc' \in Active => preapproved' = {}
  PROVE  IInv'
<1>1. InPlan' /\ FlightIsNew' /\ DoneHasValue'
  BY DEF InPlan, FlightIsNew, DoneHasValue
<1>2. GateRecorded'
  BY DEF GateRecorded, Active
<1>3. BranchApproved'
  BY DEF BranchApproved
<1>4. ApprovedBeforeRun'
  BY DEF ApprovedBeforeRun
<1>. QED
  BY <1>1, <1>2, <1>3, <1>4 DEF IInv

(* What the gate and dispatch produce is well typed.                       *)
LEMMA GateCallType ==
  ASSUME IInv, NEW i \in GateItems
  PROVE  GateCall(i) \in Call /\ i \in Ids(plan)
<1>1. i \in LevelAt(cur) /\ Resolvable(TaskById(i), results)
  BY DEF GateItems
<1>2. i \in Ids(plan)
  BY <1>1 DEF LevelAt, IInv, InPlan, TypeOK
<1>3. TaskById(i) \in Task(Id, Registry) /\ i \in Id
  BY <1>2, ByIdType, IdsType DEF TaskById, IInv, TypeOK
<1>4. SubstituteArgs(TaskById(i), results) \in Args
  BY <1>1, ArgsType DEF IInv, TypeOK
<1>. QED
  BY <1>2, <1>3, <1>4 DEF GateCall, Call, Task

LEMMA DispatchType ==
  ASSUME IInv, NEW res, DOMAIN res \subseteq Id, res \in [DOMAIN res -> Value],
         NEW ok
  PROVE  LET fl == [i \in ToSend(res) |-> Send(i, res, ok)]
         IN  /\ DOMAIN fl \subseteq Ids(plan)
             /\ DOMAIN fl \subseteq Id
             /\ DOMAIN fl \cap DOMAIN res = {}
             /\ fl \in [DOMAIN fl -> Branch]
<1>1. ToSend(res) \subseteq LevelAt(cur) /\ ToSend(res) \cap DOMAIN res = {}
  BY DEF ToSend
<1>2. LevelAt(cur) \subseteq Ids(plan)
  BY DEF LevelAt, IInv, InPlan, TypeOK
<1>3. Ids(plan) \subseteq Id
  BY IdsType DEF IInv, TypeOK
<1>4. Nothing \in Args
  BY DEF Nothing, Args, Partial
<1>5. ASSUME NEW i \in ToSend(res)
      PROVE  Send(i, res, ok) \in Branch
  <2>1. CASE Resolvable(TaskById(i), res)
    <3>1. SubstituteArgs(TaskById(i), res) \in Args
      BY <2>1, ArgsType
    <3>. QED
      BY <2>1, <3>1 DEF Send, Branch
  <2>2. CASE ~ Resolvable(TaskById(i), res)
    BY <2>2, <1>4 DEF Send, Branch
  <2>. QED
    BY <2>1, <2>2
<1>. QED
  BY <1>1, <1>2, <1>3, <1>5

LEMMA TaskCallType ==
  ASSUME IInv, NEW i \in DOMAIN flight
  PROVE  TaskCall(i) \in Call /\ TaskCall(i).tool = TaskById(i).tool
<1>1. i \in Ids(plan) /\ i \in Id /\ flight[i] \in Branch
  BY IdsType DEF IInv, InPlan, TypeOK
<1>2. TaskById(i) \in Task(Id, Registry)
  BY <1>1, ByIdType DEF TaskById, IInv, TypeOK
<1>. QED
  BY <1>1, <1>2 DEF TaskCall, Call, Task, Branch

(* The routing functions return nodes.                                     *)
LEMMA RouteTypes ==
  /\ \A e : RoutePlan(e) \in Node
  /\ \A r : RouteApprove(r) \in Node
  /\ \A e, d : RouteJoin(e, d) \in Node
BY DEF RoutePlan, RouteApprove, RouteJoin, Node

-----------------------------------------------------------------------------
(* One lemma per group of actions                                          *)

LEMMA PlanStep ==
  ASSUME IInv, UNCHANGED flags, NEW p \in Plans, PlanNode(p)
  PROVE  IInv'
<1>. USE DEF IInv, flags
<1>1. p \in Seq(Task(Id, Registry))
  BY PlansAssumption
<1>2. levels' \in Seq(SUBSET Id) /\ \A k \in DOMAIN levels' : levels'[k] \subseteq Ids(plan')
  BY <1>1, LevelsType DEF PlanNode, PlannerReturns, Schedule
<1>3. DOMAIN results' = {} /\ results' \in [DOMAIN results' -> Value]
  BY DEF PlanNode, FreshNamespace, Nothing
<1>4. TypeOK'
  <2>1. pc' \in Node
    BY RouteTypes DEF PlanNode
  <2>2. iteration' \in Nat
    BY DEF PlanNode, PlannerReturns, TypeOK
  <2>. QED
    BY <1>1, <1>2, <1>3, <2>1, <2>2
       DEF PlanNode, PlannerReturns, Schedule, FreshNamespace, TypeOK
<1>5. DOMAIN flight' = {}
  BY DEF PlanNode, InPlan
<1>. QED
  BY <1>2, <1>4, <1>5, FreshStep DEF PlanNode, FreshNamespace

LEMMA PlanFailsStep ==
  ASSUME IInv, UNCHANGED flags, PlanNodeFails
  PROVE  IInv'
<1>. USE DEF IInv, flags
<1>. <<>> \in Seq(Task(Id, Registry)) /\ <<>> \in Seq(SUBSET Id)
  OBVIOUS
<1>1. TypeOK'
  BY DEF PlanNodeFails, RoutePlan, TypeOK, Node
<1>2. DOMAIN flight' = {} /\ pc' = "end"
  BY DEF PlanNodeFails, RoutePlan, InPlan
<1>. QED
  BY <1>1, <1>2, FreshStep DEF PlanNodeFails, Active

LEMMA ApproveSteps ==
  ASSUME IInv, UNCHANGED flags, ApprovePause \/ ApproveYes \/ ApproveNo
  PROVE  IInv'
<1>. USE DEF IInv, flags
<1>1. TypeOK'
  <2>1. CASE ApprovePause
    BY <2>1 DEF ApprovePause, TypeOK, agentState, ghosts
  <2>2. CASE ApproveYes
    BY <2>2, RouteTypes DEF ApproveYes, TypeOK
  <2>3. CASE ApproveNo
    BY <2>3, RouteTypes DEF ApproveNo, TypeOK, ghosts
  <2>. QED
    BY <2>1, <2>2, <2>3
<1>2. pc = "approve" /\ DOMAIN flight = {}
  BY DEF ApprovePause, ApproveYes, ApproveNo, InPlan
<1>3. UNCHANGED <<plan, levels, results, preapproved, flight, granted, ran>>
  BY DEF ApprovePause, ApproveYes, ApproveNo, agentState, ghosts
<1>. QED
  BY <1>1, <1>2, <1>3, QuietStep DEF Active

LEMMA EditStep ==
  ASSUME IInv, UNCHANGED flags, NEW p \in Edits, ApproveEdit(p)
  PROVE  IInv'
<1>. USE DEF IInv, flags
<1>1. p \in Seq(Task(Id, Registry))
  BY PlansAssumption
<1>2. levels' \in Seq(SUBSET Id) /\ \A k \in DOMAIN levels' : levels'[k] \subseteq Ids(plan')
  BY <1>1, LevelsType DEF ApproveEdit, Schedule
<1>3. DOMAIN results' = {} /\ results' \in [DOMAIN results' -> Value]
  BY DEF ApproveEdit, FreshNamespace, Nothing
<1>4. TypeOK'
  BY <1>1, <1>2, <1>3
     DEF ApproveEdit, Schedule, FreshNamespace, RouteApprove, TypeOK, Node
<1>5. DOMAIN flight' = {}
  BY DEF ApproveEdit, InPlan
<1>. QED
  BY <1>2, <1>4, <1>5, FreshStep DEF ApproveEdit, FreshNamespace

LEMMA ReviewAndJoinSteps ==
  ASSUME IInv, UNCHANGED flags,
         \/ Advance \/ ReviewPause \/ ReviewYes \/ ReviewNo
         \/ JoinFinish \/ JoinReplan \/ JoinFails
  PROVE  IInv'
<1>. USE DEF IInv, flags
<1>1. CASE Advance \/ ReviewPause \/ ReviewYes \/ ReviewNo
  <2>1. TypeOK'
    <3>1. CASE Advance
      BY <3>1 DEF Advance, TypeOK, Node, ghosts
    <3>2. CASE ReviewPause
      BY <3>2 DEF ReviewPause, TypeOK, agentState, ghosts
    <3>3. CASE ReviewYes
      <4>1. pc' \in Node
        BY <3>3, RouteTypes DEF ReviewYes
      <4>2. cur' \in Nat
        BY <3>3 DEF ReviewYes, TypeOK
      <4>. QED
        BY <3>3, <4>1, <4>2 DEF ReviewYes, TypeOK, ghosts
    <3>4. CASE ReviewNo
      <4>1. pc' \in Node
        BY <3>4, RouteTypes DEF ReviewNo
      <4>2. cur' \in Nat
        BY <3>4 DEF ReviewNo, TypeOK
      <4>. QED
        BY <3>4, <4>1, <4>2 DEF ReviewNo, TypeOK, ghosts
    <3>. QED
      BY <1>1, <3>1, <3>2, <3>3, <3>4
  <2>2. pc = "advance" /\ DOMAIN flight = {}
    BY <1>1 DEF Advance, ReviewPause, ReviewYes, ReviewNo, InPlan
  <2>3. UNCHANGED <<plan, levels, results, preapproved, flight, granted, ran>>
    BY <1>1 DEF Advance, ReviewPause, ReviewYes, ReviewNo, agentState, ghosts
  <2>. QED
    BY <2>1, <2>2, <2>3, QuietStep DEF Active
<1>2. CASE JoinFinish \/ JoinReplan \/ JoinFails
  <2>1. TypeOK'
    BY <1>2 DEF JoinFinish, JoinReplan, JoinFails, JoinerReturns, RouteJoin, TypeOK, Node,
                ghosts
  <2>2. pc = "join" /\ DOMAIN flight = {} /\ pc' \in {"end", "plan"}
    BY <1>2 DEF JoinFinish, JoinReplan, JoinFails, RouteJoin, InPlan
  <2>3. UNCHANGED <<plan, levels, results, preapproved, flight, granted, ran>>
    BY <1>2 DEF JoinFinish, JoinReplan, JoinFails, ghosts
  <2>. QED
    BY <2>1, <2>2, <2>3, QuietStep DEF Active
<1>. QED
  BY <1>1, <1>2

(* The caller gets an exception; the thread stays as it was.               *)
LEMMA RaiseStep ==
  ASSUME IInv, UNCHANGED flags, NodeRaises
  PROVE  IInv'
<1>. USE DEF IInv, flags
<1>1. /\ pc \in {"plan", "join"} /\ pc' = "raised"
      /\ UNCHANGED <<paused, agentState, flight, runs, ghosts>>
  BY DEF NodeRaises
<1>2. TypeOK'
  BY <1>1 DEF TypeOK, Node, agentState, ghosts
<1>3. DOMAIN flight = {}
  BY <1>1 DEF InPlan
<1>. QED
  BY <1>1, <1>2, <1>3, QuietStep DEF Active, agentState, ghosts

LEMMA NewRunStep ==
  ASSUME IInv, UNCHANGED flags, NewRun
  PROVE  IInv'
<1>. USE DEF IInv, flags
<1>1. DOMAIN flight' = {} /\ flight' \in [DOMAIN flight' -> Branch]
  BY DEF NewRun, Nothing
<1>2. TypeOK'
  <2>1. runs' \in Nat
    BY DEF NewRun, TypeOK
  <2>. QED
    BY <1>1, <2>1 DEF NewRun, TypeOK, Node, ghosts
<1>3. InPlan' /\ FlightIsNew' /\ DoneHasValue' /\ BranchApproved'
  BY <1>1 DEF NewRun, InPlan, FlightIsNew, DoneHasValue, BranchApproved
<1>4. GateRecorded'
  BY DEF NewRun, GateRecorded
<1>5. ApprovedBeforeRun'
  BY DEF NewRun, ApprovedBeforeRun, ghosts
<1>. QED
  BY <1>2, <1>3, <1>4, <1>5

(* Dispatching: when every preapproved task carries an approved call with  *)
(* the results as they are now, so do the branches that are sent.          *)
LEMMA DispatchStep ==
  ASSUME IInv, TypeOK', Dispatch(results', preapproved'),
         UNCHANGED <<plan, levels, ran>>, granted \subseteq granted',
         \A i \in preapproved' :
           /\ i \in Ids(plan)
           /\ Resolvable(TaskById(i), results')
           /\ GateCall(i)' \in granted'
  PROVE  IInv'
<1>. USE DEF IInv
<1>1. DOMAIN flight' = ToSend(results') /\ pc' \in {"join", "run_task"}
  BY DEF Dispatch
<1>2. DOMAIN flight' \subseteq Ids(plan) /\ DOMAIN flight' \cap DOMAIN results' = {}
  BY <1>1, DispatchType DEF TypeOK
<1>3. \A i : TaskById(i)' = TaskById(i)
  BY DEF TaskById
<1>4. InPlan'
  BY <1>1, <1>2 DEF InPlan, Dispatch
<1>5. FlightIsNew' /\ DoneHasValue'
  <2>1. \A i \in DOMAIN flight' : flight'[i].st # "done"
    BY <1>1 DEF Dispatch, Send
  <2>. QED
    BY <1>2, <2>1 DEF FlightIsNew, DoneHasValue
<1>6. GateRecorded'
  BY <1>3 DEF GateRecorded
<1>7. BranchApproved'
  <2>. SUFFICES ASSUME NEW i \in DOMAIN flight'
       PROVE  /\ flight'[i].preapproved => TaskCall(i)' \in granted'
              /\ flight'[i].st # "answered"
    BY DEF BranchApproved
  <2>1. flight'[i] = Send(i, results', preapproved')
    BY <1>1 DEF Dispatch
  <2>2. flight'[i].st # "answered"
    BY <2>1 DEF Send
  <2>3. ASSUME flight'[i].preapproved
        PROVE  TaskCall(i)' \in granted'
    <3>1. Resolvable(TaskById(i), results')
      BY <2>1, <2>3 DEF Send
    <3>2. flight'[i] = [args |-> SubstituteArgs(TaskById(i), results'),
                        preapproved |-> i \in preapproved',
                        arg_error |-> FALSE, st |-> "ready", out |-> "none"]
      BY <2>1, <3>1 DEF Send
    <3>4. i \in preapproved'
      <4>. SUFFICES ASSUME i \notin preapproved' PROVE FALSE
        OBVIOUS
      <4>1. (i \in preapproved') = FALSE
        OBVIOUS
      <4>2. flight'[i] = [args |-> SubstituteArgs(TaskById(i), results'),
                          preapproved |-> FALSE,
                          arg_error |-> FALSE, st |-> "ready", out |-> "none"]
        BY <3>2, <4>1, Zenon
      <4>3. flight'[i].preapproved = FALSE
        BY <4>2
      <4>. QED
        BY <2>3, <4>3
    <3>5. flight'[i].args = SubstituteArgs(TaskById(i), results')
      BY <3>2
    <3>6. TaskCall(i)' = GateCall(i)'
      BY <1>3, <3>5 DEF TaskCall, GateCall
    <3>. QED
      BY <3>4, <3>6
  <2>. QED
    BY <2>2, <2>3
<1>8. ApprovedBeforeRun'
  BY DEF ApprovedBeforeRun, NeedsApproval
<1>. QED
  BY <1>4, <1>5, <1>6, <1>7, <1>8

LEMMA GatePassStep ==
  ASSUME IInv, UNCHANGED flags, LevelGatePass \/ LevelGatePause
  PROVE  IInv'
<1>. USE DEF IInv, flags
<1>1. CASE LevelGatePause
  <2>1. TypeOK'
    BY <1>1 DEF LevelGatePause, TypeOK, agentState, ghosts
  <2>. QED
    BY <1>1, <2>1, QuietStep DEF LevelGatePause, agentState, ghosts, InPlan, Active
<1>2. CASE LevelGatePass
  <2>1. DOMAIN flight' \subseteq Id /\ flight' \in [DOMAIN flight' -> Branch]
    BY <1>2, DispatchType DEF LevelGatePass, Dispatch, TypeOK
  <2>2. pc' \in Node
    BY <1>2 DEF LevelGatePass, Dispatch, Node
  <2>3. TypeOK'
    BY <1>2, <2>1, <2>2 DEF LevelGatePass, TypeOK, agentState, ghosts
  <2>4. \A i \in preapproved :
          i \in Ids(plan) /\ Resolvable(TaskById(i), results) /\ GateCall(i) \in granted
    BY <1>2 DEF LevelGatePass, GateRecorded
  <2>5. UNCHANGED <<plan, levels, results, preapproved, granted, ran>>
    BY <1>2 DEF LevelGatePass, agentState, ghosts
  <2>6. \A i : GateCall(i)' = GateCall(i)
    BY <2>5 DEF GateCall, TaskById
  <2>. QED
    BY <1>2, <2>3, <2>4, <2>5, <2>6, DispatchStep DEF LevelGatePass
<1>. QED
  BY <1>1, <1>2

LEMMA GateVerdictStep ==
  ASSUME IInv, UNCHANGED flags, NEW v \in Verdicts(GateItems), LevelGateVerdict(v)
  PROVE  IInv'
<1>. USE DEF IInv, flags
<1>. DEFINE ok == {i \in GateItems : VerdictFor(v, i)}
            denied == [i \in GateItems \ ok |-> "denied"]
<1>1. /\ pc = "level_gate"
      /\ preapproved' = preapproved \cup ok
      /\ results' = MergeResults(results, denied)
      /\ Dispatch(results', preapproved')
      /\ UNCHANGED <<plan, levels, cur, iteration, rejected, decision, reason, final,
                     status, error, runs, ran, blessed>>
  BY DEF LevelGateVerdict
<1>2. GateItems \subseteq Ids(plan) /\ GateItems \subseteq Id
  BY GateCallType, IdsType DEF TypeOK
<1>3. GateItems \cap DOMAIN results = {}
  BY DEF GateItems
<1>4. granted \subseteq granted' /\ \A i \in ok : GateCall(i) \in granted'
  <2>1. \A i \in ok : SaidYes(v, i)
    BY DEF VerdictFor, SaidYes, Verdicts
  <2>. QED
    BY <2>1 DEF LevelGateVerdict
<1>5. DOMAIN results' \subseteq Id /\ results' \in [DOMAIN results' -> Value]
  BY <1>1, <1>2 DEF MergeResults, Value, Failures, TypeOK
<1>6. TypeOK'
  <2>1. DOMAIN flight' \subseteq Id /\ flight' \in [DOMAIN flight' -> Branch]
    BY <1>1, <1>5, DispatchType DEF Dispatch
  <2>2. pc' \in Node
    BY <1>1 DEF Dispatch, Node
  <2>3. granted' \subseteq Call /\ refused' \subseteq Call
    BY GateCallType DEF LevelGateVerdict, TypeOK
  <2>4. preapproved' \subseteq Id /\ paused' \in BOOLEAN
    BY <1>1, <1>2 DEF LevelGateVerdict, TypeOK
  <2>. HIDE DEF ok, denied
  <2>. QED
    BY <1>1, <1>5, <2>1, <2>2, <2>3, <2>4 DEF TypeOK
<1>7. ASSUME NEW i \in preapproved'
      PROVE  /\ i \in Ids(plan)
             /\ Resolvable(TaskById(i), results')
             /\ GateCall(i)' \in granted'
  <2>1. i \in Ids(plan) /\ Resolvable(TaskById(i), results) /\ GateCall(i) \in granted'
    <3>1. CASE i \in preapproved
      BY <1>1, <1>4, <3>1 DEF GateRecorded
    <3>2. CASE i \in ok
      BY <1>2, <1>4, <3>2 DEF GateItems
    <3>. QED
      BY <1>1, <1>7, <3>1, <3>2
  <2>2. DOMAIN results \cap DOMAIN denied = {}
    BY <1>3
  <2>. HIDE DEF denied, ok
  <2>3. /\ Resolvable(TaskById(i), results')
        /\ SubstituteArgs(TaskById(i), results') = SubstituteArgs(TaskById(i), results)
    BY <1>1, <2>1, <2>2, MergeKeepsArgs
  <2>4. GateCall(i)' = GateCall(i)
    BY <1>1, <2>3 DEF GateCall, TaskById
  <2>. QED
    BY <2>1, <2>3, <2>4
<1>. HIDE DEF ok, denied
<1>. QED
  BY <1>1, <1>4, <1>6, <1>7, DispatchStep

(* A branch that fails, runs its tool or asks: only RunTool starts a tool, *)
(* and it does so with the branch's own, approved call (executor.py).      *)
LEMMA BranchSteps ==
  ASSUME IInv, UNCHANGED flags, NEW i \in Id, Unresolved(i) \/ RunTool(i) \/ TaskAsks(i)
  PROVE  IInv'
<1>. USE DEF IInv, flags
<1>1. /\ pc = "run_task" /\ i \in DOMAIN flight
      /\ UNCHANGED <<pc, paused, agentState, runs, granted, refused, blessed>>
  BY DEF Unresolved, RunTool, TaskAsks, ghosts
<1>2. /\ DOMAIN flight' = DOMAIN flight
      /\ flight' \in [DOMAIN flight -> Branch]
      /\ \A j \in DOMAIN flight :
           /\ flight'[j].args = flight[j].args
           /\ flight'[j].preapproved = flight[j].preapproved
           /\ flight'[j].st = "answered" => flight[j].st = "answered"
  <2>1. \/ \E v \in Value : Settle(i, v)
        \/ flight' = [flight EXCEPT ![i].st = "asked"]
    BY DEF Unresolved, RunTool, TaskAsks, Outcomes, Value, Failures
  <2>2. flight \in [DOMAIN flight -> Branch] /\ i \in DOMAIN flight
    BY <1>1 DEF TypeOK
  <2>3. CASE \E v \in Value : Settle(i, v)
    BY <2>2, <2>3 DEF Settle, Branch
  <2>4. CASE flight' = [flight EXCEPT ![i].st = "asked"]
    BY <2>2, <2>4 DEF Branch
  <2>. QED
    BY <2>1, <2>3, <2>4
<1>3. ran' \subseteq ran \cup {TaskCall(i)}
  BY DEF Unresolved, RunTool, TaskAsks, ghosts
<1>4. ran' \subseteq Call
  BY <1>1, <1>3, TaskCallType DEF TypeOK
<1>5. TypeOK'
  BY <1>1, <1>2, <1>4 DEF TypeOK, agentState
<1>6. \A j \in DOMAIN flight :
        TaskCall(j)' = TaskCall(j) /\ (AsksInline(j)' => AsksInline(j))
  BY <1>1, <1>2 DEF TaskCall, AsksInline, TaskById, agentState
<1>7. InPlan' /\ FlightIsNew' /\ DoneHasValue'
  <2>1. DoneHasValue'
    <3>1. CASE \E v \in Value : Settle(i, v)
      BY <3>1 DEF Settle, DoneHasValue, TypeOK
    <3>2. CASE flight' = [flight EXCEPT ![i].st = "asked"]
      BY <3>2 DEF DoneHasValue, TypeOK
    <3>3. Outcomes \subseteq Value /\ "fail" \in Value
      BY DEF Outcomes, Value, Failures
    <3>. QED
      BY <3>1, <3>2, <3>3 DEF Unresolved, RunTool, TaskAsks
  <2>. QED
    BY <1>1, <1>2, <2>1 DEF InPlan, FlightIsNew, agentState
<1>8. GateRecorded'
  BY <1>1 DEF GateRecorded, GateCall, TaskById, agentState
<1>9. BranchApproved'
  BY <1>1, <1>2, <1>6 DEF BranchApproved
<1>10. ApprovedBeforeRun'
  <2>1. TaskCall(i) \in ran' \ ran /\ NeedsApproval(TaskCall(i).tool) =>
          TaskCall(i) \in granted
    <3>. SUFFICES ASSUME TaskCall(i) \in ran' \ ran, NeedsApproval(TaskCall(i).tool)
         PROVE  TaskCall(i) \in granted
      OBVIOUS
    <3>1. NeedsApproval(TaskById(i).tool)
      BY <1>1, TaskCallType
    <3>2. CASE AsksInline(i)
      <4>1. flight[i].st = "answered"
        BY <3>2 DEF Unresolved, RunTool, TaskAsks, ghosts
      <4>. QED
        BY <1>1, <3>2, <4>1 DEF BranchApproved
    <3>3. CASE flight[i].preapproved
      BY <1>1, <3>3 DEF BranchApproved
    <3>. QED
      BY <3>1, <3>2, <3>3 DEF AsksInline
  <2>. QED
    BY <1>1, <1>3, <2>1 DEF ApprovedBeforeRun
<1>. QED
  BY <1>5, <1>7, <1>8, <1>9, <1>10

LEMMA AnswerStep ==
  ASSUME IInv, UNCHANGED flags, NEW says \in [Asked -> BOOLEAN], AnswerTasks(says)
  PROVE  IInv'
<1>. USE DEF IInv, flags
<1>. DEFINE denies == {i \in Asked : AsksInline(i) /\ ~ says[i]}
            grants == {i \in Asked : AsksInline(i) /\ says[i]}
<1>1. /\ pc = "run_task"
      /\ UNCHANGED <<pc, paused, agentState, runs, ran, blessed>>
  BY DEF AnswerTasks, WaitsForAnswers
<1>2. /\ flight' = [i \in DOMAIN flight |->
                     IF i \in denies
                     THEN [flight[i] EXCEPT !.st = "done", !.out = "denied"]
                     ELSE IF i \in Asked THEN [flight[i] EXCEPT !.st = "answered"]
                     ELSE flight[i]]
      /\ granted' = granted \cup {TaskCall(i) : i \in grants}
      /\ refused' = refused \cup {TaskCall(i) : i \in denies}
  BY DEF AnswerTasks
<1>3. denies \subseteq Asked /\ grants \subseteq Asked /\ Asked \subseteq DOMAIN flight
  BY DEF Asked
<1>4. \A i \in Asked : AsksInline(i) /\ i \notin denies => i \in grants
  OBVIOUS
<1>. HIDE DEF denies, grants
<1>5. /\ DOMAIN flight' = DOMAIN flight
      /\ flight' \in [DOMAIN flight -> Branch]
      /\ \A j \in DOMAIN flight :
           /\ flight'[j].args = flight[j].args
           /\ flight'[j].preapproved = flight[j].preapproved
           /\ flight'[j].st = "answered" =>
                flight[j].st = "answered" \/ j \in Asked \ denies
  <2>1. flight \in [DOMAIN flight -> Branch]
    BY DEF TypeOK
  <2>2. DOMAIN flight' = DOMAIN flight
    BY <1>2
  <2>3. ASSUME NEW j \in DOMAIN flight
        PROVE  /\ flight'[j] \in Branch
               /\ flight'[j].args = flight[j].args
               /\ flight'[j].preapproved = flight[j].preapproved
               /\ flight'[j].st = "answered" =>
                    flight[j].st = "answered" \/ j \in Asked \ denies
    <3>1. flight[j] \in Branch
      BY <2>1
    <3>2. flight'[j] = IF j \in denies
                       THEN [flight[j] EXCEPT !.st = "done", !.out = "denied"]
                       ELSE IF j \in Asked THEN [flight[j] EXCEPT !.st = "answered"]
                       ELSE flight[j]
      BY <1>2
    <3>. QED
      BY <3>1, <3>2 DEF Branch, Value, Failures
  <2>4. flight' = [j \in DOMAIN flight |-> flight'[j]]
    BY <1>2
  <2>. QED
    BY <2>2, <2>3, <2>4
<1>6. TypeOK'
  <2>1. granted' \subseteq Call /\ refused' \subseteq Call
    BY <1>2, <1>3, TaskCallType DEF TypeOK
  <2>. QED
    BY <1>1, <1>5, <2>1 DEF TypeOK, agentState
<1>7. \A j \in DOMAIN flight :
        TaskCall(j)' = TaskCall(j) /\ (AsksInline(j)' => AsksInline(j))
  BY <1>1, <1>5 DEF TaskCall, AsksInline, TaskById, agentState
<1>8. InPlan' /\ FlightIsNew' /\ DoneHasValue'
  <2>1. DoneHasValue'
    <3>. SUFFICES ASSUME NEW j \in DOMAIN flight, flight'[j].st = "done"
                  PROVE  flight'[j].out \in Value
      BY <1>5 DEF DoneHasValue
    <3>1. flight[j] \in Branch
      BY DEF TypeOK
    <3>2. CASE j \in denies
      <4>1. flight'[j] = [flight[j] EXCEPT !.st = "done", !.out = "denied"]
        BY <1>2, <3>2
      <4>. QED
        BY <3>1, <4>1 DEF Branch, Value, Failures
    <3>3. CASE j \notin denies /\ j \in Asked
      <4>1. flight'[j] = [flight[j] EXCEPT !.st = "answered"]
        BY <1>2, <3>3
      <4>. QED
        BY <3>1, <4>1 DEF Branch
    <3>4. CASE j \notin denies /\ j \notin Asked
      <4>1. flight'[j] = flight[j]
        BY <1>2, <3>4
      <4>. QED
        BY <4>1 DEF DoneHasValue
    <3>. QED
      BY <3>2, <3>3, <3>4
  <2>. QED
    BY <1>1, <1>5, <2>1 DEF InPlan, FlightIsNew, agentState
<1>9. GateRecorded'
  BY <1>1, <1>2 DEF GateRecorded, GateCall, TaskById, agentState
<1>10. BranchApproved'
  <2>1. \A j \in DOMAIN flight : flight[j].preapproved => TaskCall(j) \in granted'
    BY <1>2 DEF BranchApproved
  <2>2. \A j \in DOMAIN flight :
          flight[j].st = "answered" /\ AsksInline(j) => TaskCall(j) \in granted'
    BY <1>2 DEF BranchApproved
  <2>3. \A j \in Asked \ denies : AsksInline(j) => TaskCall(j) \in granted'
    BY <1>2, <1>4
  <2>. QED
    BY <1>5, <1>7, <2>1, <2>2, <2>3 DEF BranchApproved
<1>11. ApprovedBeforeRun'
  BY <1>1, <1>2 DEF ApprovedBeforeRun
<1>. QED
  BY <1>6, <1>8, <1>9, <1>10, <1>11

LEMMA BarrierStep ==
  ASSUME IInv, UNCHANGED flags, Barrier
  PROVE  IInv'
<1>. USE DEF IInv, flags
<1>. DEFINE outs == [i \in DOMAIN flight |-> flight[i].out]
<1>1. /\ pc = "run_task" /\ pc' = "advance"
      /\ results' = MergeResults(results, outs)
      /\ DOMAIN flight' = {} /\ flight' \in [DOMAIN flight' -> Branch]
      /\ UNCHANGED <<paused, plan, levels, cur, iteration, rejected, preapproved,
                     decision, reason, final, status, error, runs, ghosts>>
  BY DEF Barrier, Nothing
<1>2. /\ DOMAIN outs = DOMAIN flight
      /\ \A i \in DOMAIN flight : outs[i] \in Value
  BY DEF Barrier, DoneHasValue
<1>3. DOMAIN results \cap DOMAIN outs = {}
  BY <1>2 DEF FlightIsNew
<1>. HIDE DEF outs
<1>4. DOMAIN results' \subseteq Id /\ results' \in [DOMAIN results' -> Value]
  BY <1>1, <1>2 DEF MergeResults, TypeOK
<1>5. TypeOK'
  BY <1>1, <1>4 DEF TypeOK, Node, ghosts
<1>6. InPlan' /\ FlightIsNew' /\ DoneHasValue' /\ BranchApproved'
  BY <1>1 DEF InPlan, FlightIsNew, DoneHasValue, BranchApproved
<1>7. GateRecorded'
  <2>. SUFFICES ASSUME NEW i \in preapproved
       PROVE  /\ i \in Ids(plan)
              /\ Resolvable(TaskById(i), results')
              /\ GateCall(i)' \in granted
    BY <1>1 DEF GateRecorded, TaskById, ghosts
  <2>1. i \in Ids(plan) /\ Resolvable(TaskById(i), results) /\ GateCall(i) \in granted
    BY <1>1 DEF GateRecorded
  <2>2. /\ Resolvable(TaskById(i), results')
        /\ SubstituteArgs(TaskById(i), results') = SubstituteArgs(TaskById(i), results)
    BY <1>1, <1>3, <2>1, MergeKeepsArgs
  <2>3. GateCall(i)' = GateCall(i)
    BY <1>1, <2>2 DEF GateCall, TaskById
  <2>. QED
    BY <2>1, <2>2, <2>3
<1>8. ApprovedBeforeRun'
  BY <1>1 DEF ApprovedBeforeRun, ghosts
<1>. QED
  BY <1>5, <1>6, <1>7, <1>8

(* Every step of the graph, of the human and of the caller preserves it.   *)
LEMMA NextIInv == IInv /\ [Next]_vars => IInv'
<1>. SUFFICES ASSUME IInv, [Next]_vars PROVE IInv'
  OBVIOUS
<1>1. CASE UNCHANGED vars
  <2>1. UNCHANGED <<approve_plans, approve_levels, pc, paused, plan, levels, cur, iteration, results, rejected,
                    preapproved, decision, reason, final, status, error, flight, runs,
                    granted, refused, ran, blessed>>
    BY <1>1 DEF vars, flags, agentState, ghosts
  <2>2. TypeOK'
    BY <2>1 DEF IInv, TypeOK
  <2>. QED
    BY <2>1, <2>2, QuietStep DEF IInv, InPlan
<1>2. CASE Machine
  BY <1>2, PlanStep, PlanFailsStep, ApproveSteps, GatePassStep, BranchSteps, BarrierStep,
     ReviewAndJoinSteps, RaiseStep DEF Machine, MachineStep
<1>3. CASE Human
  BY <1>3, ApproveSteps, EditStep, GateVerdictStep, AnswerStep, ReviewAndJoinSteps
     DEF Human, HumanStep
<1>4. CASE NewRun /\ UNCHANGED flags
  BY <1>4, NewRunStep
<1>. QED
  BY <1>1, <1>2, <1>3, <1>4 DEF Next
-----------------------------------------------------------------------------
(* Theorems                                                                *)

(* Every channel of AgentState, the step's branches and the ghosts keep    *)
(* their types through every node, verdict, pause and new query.           *)
THEOREM TypeCorrect == Spec => []TypeOK
<1>1. IInv => TypeOK
  BY DEF IInv
<1>. QED
  BY InitIInv, NextIInv, <1>1, PTL DEF Spec

(* Whatever the plans, the tools, the number of tasks and the order their  *)
(* branches run and pause in: a tool with requires_approval is started     *)
(* only with the arguments a human approved, under the plan in effect.     *)
THEOREM ApprovalSafety == Spec => []ApprovedBeforeRun
<1>1. IInv => ApprovedBeforeRun
  BY DEF IInv
<1>. QED
  BY InitIInv, NextIInv, <1>1, PTL DEF Spec

-----------------------------------------------------------------------------
(* A run: what its levels, its results, the human's verdicts and its       *)
(* status have to do with one another.                                     *)


(* The tasks of the first k levels.                                        *)
Upto(k) == UNION {levels[l] : l \in 1 .. k \cap DOMAIN levels}

(* The levels are the schedule of the plan.                                *)
Scheduled == IsSchedule(DepsOf(plan), levels)

(* Results and branches cover the levels exactly as far as the run is.     *)
CursorMatches ==
  /\ ~ error => Upto(cur) \subseteq DOMAIN results /\ DOMAIN results \subseteq Upto(cur + 1)
  /\ pc = "approve" => cur = 0 /\ DOMAIN results = {}
  /\ pc = "level_gate" => DOMAIN results = Upto(cur)
  /\ pc = "run_task" => DOMAIN results \cup DOMAIN flight = Upto(cur + 1)
  /\ pc = "advance" => DOMAIN results = Upto(cur + 1)
  /\ pc = "join" /\ ~ rejected /\ ~ HasError(results) => DOMAIN results = Ids(plan)

(* The branches are tasks of the current level, no task of an earlier one  *)
(* has failed, and only a branch whose arguments resolved asks.            *)
LevelRuns ==
  /\ DOMAIN flight \subseteq LevelAt(cur)
  /\ \A i \in DOMAIN flight : flight[i].st \in {"asked", "answered"} => ~ flight[i].arg_error
  /\ pc = "run_task" => \A i \in Upto(cur) : results[i] \notin Failures

(* While a plan is worked on, what was denied is settled, what was         *)
(* approved was approved at the gate, and what ran has a result or a       *)
(* branch.                                                                 *)
Settled ==
  pc \in Active =>
    /\ \A c \in refused : c.id \in DOMAIN results
    /\ \A c \in granted : c.id \in preapproved
    /\ \A c \in ran : c.id \in DOMAIN results \cup DOMAIN flight

(* Whatever was approved has run, or is a branch that still will.          *)
Used ==
  /\ pc \in {"level_gate", "advance", "join", "end"} => granted \subseteq ran
  /\ pc = "approve" => granted = {} /\ ran = {} /\ refused = {}
  /\ pc = "run_task" => \A c \in granted \ ran :
       /\ c.id \in DOMAIN flight /\ c = TaskCall(c.id)
       /\ ~ flight[c.id].arg_error /\ flight[c.id].st # "done"

Blessed ==
  approve_plans /\ pc \in {"level_gate", "run_task", "advance"} => blessed = plan

(* A run that is not over has no error, no rejection and no status yet.    *)
Working ==
  /\ pc \in Active \cup {"join"} => ~ error
  /\ pc \in Active => ~ rejected
  /\ pc # "end" => status = "none"
  /\ pc = "plan" => iteration < MaxIterations

RInv ==
  /\ Scheduled /\ CursorMatches /\ LevelRuns
  /\ Settled /\ Used /\ Blessed /\ Working
  /\ DeniedNeverRuns /\ NoApprovalMidFanOut /\ RunsOnCleanLevels
  /\ OnlyBlessedPlansRun /\ EndStatus
-----------------------------------------------------------------------------
(* Facts about the levels of a schedule                                    *)

LEMMA LevelFacts ==
  ASSUME IInv, Scheduled, NEW k \in Nat
  PROVE  /\ Upto(k + 1) = Upto(k) \cup LevelAt(k)
         /\ Upto(k) \cap LevelAt(k) = {}
         /\ Upto(k) \subseteq Ids(plan)
         /\ LevelAt(k) = {} => Upto(k) = Ids(plan)
         /\ \A i \in LevelAt(k) : RefsIn(TaskById(i)) \subseteq Upto(k)
<1>. DEFINE n == Len(levels)
<1>1. n \in Nat /\ DOMAIN levels = 1 .. n
  BY DEF IInv, TypeOK
<1>2. /\ \A l \in 1 .. n : levels[l] \subseteq Ids(plan) /\ levels[l] # {}
      /\ \A i \in Ids(plan) : \E l \in 1 .. n : i \in levels[l]
      /\ \A l, m \in 1 .. n : l # m => levels[l] \cap levels[m] = {}
      /\ \A l \in 1 .. n : \A i \in levels[l] : \A j \in DepsOf(plan)[i] :
           \E m \in 1 .. l - 1 : j \in levels[m]
  <2>1. DOMAIN DepsOf(plan) = Ids(plan) /\ UNION Range(levels) = Ids(plan)
    BY DEF DepsOf, Scheduled, IsSchedule
  <2>2. \A l \in 1 .. n : levels[l] \subseteq Ids(plan) /\ levels[l] # {}
    BY <1>1 DEF Scheduled, IsSchedule, IInv, InPlan
  <2>3. ASSUME NEW i \in Ids(plan)
        PROVE  \E l \in 1 .. n : i \in levels[l]
    <3>1. PICK s \in Range(levels) : i \in s
      BY <2>1
    <3>. QED
      BY <1>1, <3>1 DEF Range
  <2>4. \A l, m \in 1 .. n : l # m => levels[l] \cap levels[m] = {}
    BY <1>1 DEF Scheduled, IsSchedule
  <2>5. \A l \in 1 .. n : \A i \in levels[l] : \A j \in DepsOf(plan)[i] :
           \E m \in 1 .. l - 1 : j \in levels[m]
    BY <1>1 DEF Scheduled, IsSchedule
  <2>. QED
    BY <2>2, <2>3, <2>4, <2>5
<1>. HIDE DEF n
<1>3. \A m \in Nat : \A i : i \in Upto(m) <=> \E l \in 1 .. n : l <= m /\ i \in levels[l]
  BY <1>1 DEF Upto
<1>4. LevelAt(k) = IF k < n THEN levels[k + 1] ELSE {}
  BY DEF LevelAt, n
<1>5. CASE k < n
  <2>1. k + 1 \in 1 .. n
    BY <1>1, <1>5
  <2>2. \A i : i \in Upto(k + 1) <=> i \in Upto(k) \/ i \in levels[k + 1]
    <3>1. \A l \in 1 .. n : l <= k + 1 <=> l <= k \/ l = k + 1
      BY <1>1
    <3>. QED
      BY <1>3, <2>1, <3>1
  <2>3. \A i \in levels[k + 1] : i \notin Upto(k)
    BY <1>1, <1>2, <1>3, <2>1
  <2>4. \A i \in Upto(k) : i \in Ids(plan)
    BY <1>2, <1>3
  <2>5. ASSUME NEW i \in levels[k + 1]
        PROVE  RefsIn(TaskById(i)) \subseteq Upto(k)
    <3>1. i \in Ids(plan)
      BY <1>2, <2>1
    <3>2. RefsIn(TaskById(i)) \subseteq DepsOf(plan)[i]
      BY <3>1 DEF DepsOf, EffectiveDeps, TaskById
    <3>3. \A j \in DepsOf(plan)[i] : \E m \in 1 .. k : j \in levels[m]
      BY <1>2, <2>1
    <3>4. \A m \in 1 .. k : m \in 1 .. n /\ m <= k
      BY <1>1, <1>5
    <3>. QED
      BY <1>3, <3>2, <3>3, <3>4
  <2>. QED
    BY <1>2, <1>4, <1>5, <2>1, <2>2, <2>3, <2>4, <2>5
<1>6. CASE ~ (k < n)
  <2>1. \A l \in 1 .. n : l <= k /\ l <= k + 1
    BY <1>1, <1>6
  <2>2. \A i : i \in Upto(k) <=> i \in Ids(plan)
    BY <1>2, <1>3, <2>1
  <2>3. \A i : i \in Upto(k + 1) <=> i \in Ids(plan)
    BY <1>2, <1>3, <2>1
  <2>. QED
    BY <1>4, <1>6, <2>2, <2>3
<1>. QED
  BY <1>5, <1>6

(* Whatever level a task of the current one is said to be in, the levels   *)
(* before it are the finished ones.                                        *)
LEMMA LevelOfTask ==
  ASSUME IInv, Scheduled, NEW k \in Nat, NEW i \in LevelAt(k),
         NEW m \in DOMAIN levels, i \in levels[m], NEW l \in 1 .. m - 1
  PROVE  levels[l] \subseteq Upto(k)
<1>1. Len(levels) \in Nat /\ DOMAIN levels = 1 .. Len(levels)
  BY DEF IInv, TypeOK
<1>2. k < Len(levels) /\ i \in levels[k + 1] /\ k + 1 \in DOMAIN levels
  BY <1>1 DEF LevelAt
<1>3. m = k + 1
  BY <1>2 DEF Scheduled, IsSchedule
<1>4. l \in 1 .. k \cap DOMAIN levels
  BY <1>1, <1>2, <1>3
<1>. QED
  BY <1>4 DEF Upto
-----------------------------------------------------------------------------
(* The second inductive invariant                                          *)

LEMMA InitRInv == Init => RInv
<1>. SUFFICES ASSUME Init PROVE RInv
  OBVIOUS
<1>1. /\ pc = "plan" /\ plan = <<>> /\ levels = <<>> /\ cur = 0 /\ iteration = 0
      /\ DOMAIN results = {} /\ DOMAIN flight = {} /\ error = FALSE /\ status = "none"
      /\ granted = {} /\ refused = {} /\ ran = {}
  BY DEF Init, Nothing
<1>2. Scheduled
  BY <1>1 DEF Scheduled, IsSchedule, DepsOf, Ids, Range
<1>3. CursorMatches /\ LevelRuns
  BY <1>1 DEF CursorMatches, LevelRuns, Upto
<1>4. Settled /\ Used /\ Blessed /\ Working
  BY <1>1, BoundsAssumption DEF Settled, Used, Blessed, Working, Active
<1>5. /\ DeniedNeverRuns /\ NoApprovalMidFanOut /\ RunsOnCleanLevels
      /\ OnlyBlessedPlansRun /\ EndStatus
  BY <1>1, BoundsAssumption
     DEF DeniedNeverRuns, NoApprovalMidFanOut, RunsOnCleanLevels, OnlyBlessedPlansRun,
         EndStatus
<1>. QED
  BY <1>2, <1>3, <1>4, <1>5 DEF RInv

(* A plan takes effect, by the planner or by the human's hand: nothing of  *)
(* an earlier one is left in its namespace.                                *)
LEMMA PlanTakesEffect ==
  ASSUME IInv, RInv, UNCHANGED flags, NEW p \in Seq(Task(Id, Registry)),
         ValidPlan(p, Registry), Schedule(p), FreshNamespace, DOMAIN flight' = {},
         error' = FALSE, status' = "none", iteration' <= MaxIterations,
         \/ pc' = "approve"
         \/ pc' = "level_gate" /\ (approve_plans => blessed' = plan')
  PROVE  RInv'
<1>1. /\ plan' = p /\ levels' = TopologicalLevels(p) /\ cur' = 0
      /\ DOMAIN results' = {} /\ rejected' = FALSE /\ preapproved' = {}
      /\ granted' = {} /\ refused' = {} /\ ran' = {}
  BY DEF Schedule, FreshNamespace, Nothing
<1>2. Scheduled'
  BY <1>1, LevelsOfPlan DEF Scheduled, ValidPlan
<1>3. Upto(cur)' = {}
  BY <1>1 DEF Upto
<1>4. CursorMatches' /\ LevelRuns'
  BY <1>1, <1>3 DEF CursorMatches, LevelRuns
<1>5. Settled' /\ Used' /\ Blessed' /\ Working'
  BY <1>1 DEF Settled, Used, Blessed, Working, Active, flags
<1>6. /\ DeniedNeverRuns' /\ NoApprovalMidFanOut' /\ RunsOnCleanLevels'
      /\ OnlyBlessedPlansRun' /\ EndStatus'
  BY <1>1 DEF DeniedNeverRuns, NoApprovalMidFanOut, RunsOnCleanLevels,
              OnlyBlessedPlansRun, EndStatus
<1>. QED
  BY <1>2, <1>4, <1>5, <1>6 DEF RInv

(* The plan fails to come about: the run is over, with an error.           *)
LEMMA PlanFailsKeepsRun ==
  ASSUME IInv, RInv, UNCHANGED flags, PlanNodeFails
  PROVE  RInv'
<1>1. /\ pc = "plan" /\ pc' = "end" /\ plan' = <<>> /\ levels' = <<>> /\ error' = TRUE
      /\ status' = "error" /\ final' = "none" /\ iteration' = iteration + 1
      /\ granted' = {} /\ refused' = {} /\ ran' = {} /\ flight' = flight
  BY DEF PlanNodeFails, RoutePlan
<1>2. DOMAIN flight' = {}
  BY <1>1 DEF IInv, InPlan
<1>3. Scheduled'
  BY <1>1 DEF Scheduled, IsSchedule, DepsOf, Ids, Range
<1>4. CursorMatches' /\ LevelRuns'
  BY <1>1, <1>2 DEF CursorMatches, LevelRuns
<1>5. Settled' /\ Used' /\ Blessed' /\ Working'
  BY <1>1 DEF Settled, Used, Blessed, Working, Active
<1>6. iteration' <= MaxIterations
  BY <1>1, BoundsAssumption DEF RInv, Working, IInv, TypeOK
<1>7. /\ DeniedNeverRuns' /\ NoApprovalMidFanOut' /\ RunsOnCleanLevels'
      /\ OnlyBlessedPlansRun' /\ EndStatus'
  BY <1>1, <1>2, <1>6 DEF DeniedNeverRuns, NoApprovalMidFanOut, RunsOnCleanLevels,
              OnlyBlessedPlansRun, EndStatus
<1>. QED
  BY <1>3, <1>4, <1>5, <1>7 DEF RInv

(* A step that leaves the plan, its results and its calls alone moves only *)
(* the position of the run.                                                *)
LEMMA MoveStep ==
  ASSUME IInv, RInv,
         UNCHANGED <<approve_plans, plan, levels, cur, results, preapproved, flight,
                     granted, refused, ran>>,
         pc' # "run_task" \/ pc = "run_task",
         CursorMatches', Settled', Used', Blessed', Working', EndStatus',
         blessed' \in {blessed, plan}
  PROVE  RInv'
<1>1. Scheduled' /\ RunsOnCleanLevels'
  BY DEF RInv, Scheduled, RunsOnCleanLevels
<1>2. LevelRuns'
  BY DEF RInv, LevelRuns, LevelAt, Upto
<1>3. DeniedNeverRuns'
  <2>1. (\A c \in ran, d \in refused : c.id # d.id)'
    BY DEF RInv, DeniedNeverRuns
  <2>2. \A i \in GateItems' : i \notin DOMAIN results' /\ i \notin preapproved'
    BY DEF GateItems
  <2>3. pc' = "level_gate" =>
          \A c \in granted' \cup refused' : c.id \in DOMAIN results' \cup preapproved'
    BY DEF Settled, Active
  <2>. QED
    BY <2>1, <2>2, <2>3 DEF DeniedNeverRuns
<1>4. NoApprovalMidFanOut'
  BY DEF RInv, NoApprovalMidFanOut, AsksInline, TaskById
<1>5. OnlyBlessedPlansRun'
  BY DEF RInv, OnlyBlessedPlansRun
<1>. QED
  BY <1>1, <1>2, <1>3, <1>4, <1>5 DEF RInv

(* The approval of the plan.                                               *)
LEMMA ApproveKeepsRun ==
  ASSUME IInv, RInv, UNCHANGED flags, ApprovePause \/ ApproveYes \/ ApproveNo
  PROVE  RInv'
<1>. USE DEF flags
<1>1. /\ pc = "approve" /\ cur = 0 /\ DOMAIN results = {} /\ granted = {} /\ ran = {}
      /\ refused = {} /\ ~ error /\ ~ rejected /\ status = "none" /\ DOMAIN flight = {}
      /\ iteration <= MaxIterations
  BY DEF ApprovePause, ApproveYes, ApproveNo, RInv, CursorMatches, Used, Working, Active,
         IInv, InPlan, EndStatus
<1>2. /\ UNCHANGED <<approve_plans, plan, levels, cur, iteration, results, preapproved,
                     flight, status, error, granted, refused, ran>>
      /\ blessed' \in {blessed, plan}
  BY DEF ApprovePause, ApproveYes, ApproveNo, agentState, ghosts
<1>3. \/ pc' = "approve" /\ ~ rejected'
      \/ pc' = "level_gate" /\ ~ rejected' /\ blessed' = plan
      \/ pc' = "plan" /\ iteration < MaxIterations
      \/ pc' = "join" /\ rejected'
  BY <1>1 DEF ApprovePause, ApproveYes, ApproveNo, RouteApprove, agentState
<1>4. Upto(cur)' = {} /\ Upto(cur + 1)' = Upto(cur + 1) /\ Upto(cur) = {}
  BY <1>1, <1>2 DEF Upto
<1>5. CursorMatches'
  BY <1>1, <1>2, <1>3, <1>4 DEF CursorMatches
<1>6. Settled' /\ Used' /\ Blessed' /\ Working' /\ EndStatus'
  BY <1>1, <1>2, <1>3 DEF Settled, Used, Blessed, Working, Active, EndStatus
<1>. QED
  BY <1>1, <1>2, <1>3, <1>5, <1>6, MoveStep

(* The pauses at a level, and a step that changes nothing.                 *)
LEMMA PauseKeepsRun ==
  ASSUME IInv, RInv,
         UNCHANGED <<flags, pc, agentState, flight, ghosts>>
  PROVE  RInv'
<1>1. UNCHANGED <<approve_plans, pc, plan, levels, cur, iteration, results, rejected,
                  preapproved, decision, final, status, error, flight, granted, refused,
                  ran, blessed>>
  BY DEF flags, agentState, ghosts
<1>2. CursorMatches' /\ Settled' /\ Used' /\ Blessed' /\ Working' /\ EndStatus'
  BY <1>1 DEF RInv, CursorMatches, Upto, HasError, Settled, Used, TaskCall, TaskById,
              Blessed, Working, EndStatus
<1>. QED
  BY <1>1, <1>2, MoveStep

(* The joiner finishes, replans or fails.                                  *)
LEMMA JoinKeepsRun ==
  ASSUME IInv, RInv, UNCHANGED flags, JoinFinish \/ JoinReplan \/ JoinFails
  PROVE  RInv'
<1>. USE DEF flags
<1>1. /\ pc = "join" /\ ~ error /\ status = "none" /\ granted \subseteq ran
      /\ iteration <= MaxIterations
  BY DEF JoinFinish, JoinReplan, JoinFails, RInv, Working, Used, EndStatus
<1>2. /\ UNCHANGED <<approve_plans, plan, levels, cur, iteration, results, preapproved,
                     flight, granted, refused, ran, blessed>>
  BY DEF JoinFinish, JoinReplan, JoinFails, ghosts
<1>3. \/ pc' = "end" /\ status' = "ok" /\ decision' = "finish" /\ ~ error'
      \/ pc' = "end" /\ status' = "error" /\ error' /\ final' = "none"
      \/ pc' = "end" /\ status' = "none" /\ ~ error' /\ decision' = "replan"
           /\ iteration >= MaxIterations
      \/ pc' = "plan" /\ status' = "none" /\ ~ error' /\ iteration < MaxIterations
  BY <1>1, BoundsAssumption
     DEF JoinFinish, JoinReplan, JoinFails, JoinerReturns, RouteJoin, IInv, TypeOK
<1>4. CursorMatches'
  BY <1>1, <1>2, <1>3 DEF RInv, CursorMatches, Upto
<1>5. Settled' /\ Used' /\ Blessed' /\ Working' /\ EndStatus'
  BY <1>1, <1>2, <1>3 DEF Settled, Used, Blessed, Working, Active, EndStatus
<1>. QED
  BY <1>1, <1>2, <1>3, <1>4, <1>5, MoveStep

(* A node raises, and changes nothing.                                     *)
LEMMA RaiseKeepsRun ==
  ASSUME IInv, RInv, UNCHANGED flags, NodeRaises
  PROVE  RInv'
<1>. USE DEF flags
<1>1. /\ pc \in {"plan", "join"} /\ pc' = "raised"
      /\ UNCHANGED <<approve_plans, plan, levels, cur, iteration, results, rejected,
                     preapproved, decision, final, status, error, flight, granted, refused,
                     ran, blessed>>
  BY DEF NodeRaises, agentState, ghosts
<1>2. CursorMatches'
  BY <1>1 DEF RInv, CursorMatches, Upto
<1>3. Settled' /\ Used' /\ Blessed' /\ Working' /\ EndStatus'
  BY <1>1 DEF RInv, Settled, Used, Blessed, Working, Active, EndStatus
<1>. QED
  BY <1>1, <1>2, <1>3, MoveStep

(* Another query, with whatever the previous run left in the namespace.    *)
LEMMA NewRunKeepsRun ==
  ASSUME IInv, RInv, UNCHANGED flags, NewRun
  PROVE  RInv'
<1>1. /\ pc' = "plan" /\ iteration' = 0 /\ status' = "none" /\ DOMAIN flight' = {}
      /\ UNCHANGED <<approve_plans, plan, levels, cur, results, rejected, preapproved,
                     error, granted, refused, ran, blessed>>
  BY DEF NewRun, ghosts, flags, Nothing
<1>2. Scheduled' /\ RunsOnCleanLevels' /\ OnlyBlessedPlansRun'
  BY <1>1 DEF RInv, Scheduled, RunsOnCleanLevels, OnlyBlessedPlansRun
<1>3. CursorMatches' /\ LevelRuns'
  BY <1>1 DEF RInv, CursorMatches, LevelRuns, Upto
<1>4. Settled' /\ Used' /\ Blessed' /\ Working' /\ EndStatus'
  BY <1>1, BoundsAssumption DEF Settled, Used, Blessed, Working, Active, EndStatus
<1>5. DeniedNeverRuns' /\ NoApprovalMidFanOut'
  BY <1>1 DEF RInv, DeniedNeverRuns, NoApprovalMidFanOut
<1>. QED
  BY <1>2, <1>3, <1>4, <1>5 DEF RInv

(* The cursor moves on.                                                    *)
LEMMA AdvanceKeepsRun ==
  ASSUME IInv, RInv, UNCHANGED flags, Advance \/ ReviewYes \/ ReviewNo
  PROVE  RInv'
<1>. USE DEF flags
<1>1. /\ pc = "advance" /\ cur' = cur + 1
      /\ UNCHANGED <<approve_plans, plan, levels, iteration, results, preapproved,
                     status, error, flight, granted, refused, ran, blessed>>
  BY DEF Advance, ReviewYes, ReviewNo, ghosts
<1>2. /\ DOMAIN results = Upto(cur + 1) /\ ~ error /\ ~ rejected /\ status = "none"
      /\ granted \subseteq ran /\ DOMAIN flight = {} /\ iteration <= MaxIterations
      /\ cur \in Nat /\ (approve_plans => blessed = plan)
  BY <1>1 DEF RInv, CursorMatches, Working, Active, Used, Blessed, EndStatus, IInv, InPlan,
              TypeOK
<1>3. \/ pc' = "level_gate" /\ ~ rejected'
      \/ pc' = "plan" /\ iteration < MaxIterations
      \/ pc' = "join" /\ rejected'
  BY <1>2 DEF Advance, ReviewYes, ReviewNo, RouteApprove
<1>4. Upto(cur)' = Upto(cur + 1) /\ Upto(cur + 1)' = Upto((cur + 1) + 1)
  BY <1>1 DEF Upto
<1>5. Upto(cur + 1) \subseteq Upto((cur + 1) + 1)
  BY <1>2, LevelFacts DEF RInv
<1>6. CursorMatches' /\ LevelRuns'
  BY <1>1, <1>2, <1>3, <1>4, <1>5 DEF CursorMatches, LevelRuns
<1>7. Settled' /\ Used' /\ Blessed' /\ Working' /\ EndStatus'
  <2>1. Settled'
    BY <1>1, <1>2 DEF RInv, Settled, Active
  <2>. QED
    BY <1>1, <1>2, <1>3, <2>1 DEF Used, Blessed, Working, Active, EndStatus
<1>8. Scheduled' /\ RunsOnCleanLevels' /\ OnlyBlessedPlansRun' /\ NoApprovalMidFanOut'
  BY <1>1, <1>2 DEF RInv, Scheduled, RunsOnCleanLevels, OnlyBlessedPlansRun,
                    NoApprovalMidFanOut
<1>9. DeniedNeverRuns'
  <2>1. \A c \in ran', d \in refused' : c.id # d.id
    BY <1>1 DEF RInv, DeniedNeverRuns
  <2>2. \A i \in GateItems' : i \notin DOMAIN results' /\ i \notin preapproved'
    BY DEF GateItems
  <2>3. \A c \in granted' \cup refused' : c.id \in DOMAIN results' \cup preapproved'
    BY <1>1 DEF RInv, Settled, Active
  <2>. QED
    BY <2>1, <2>2, <2>3 DEF DeniedNeverRuns
<1>. QED
  BY <1>6, <1>7, <1>8, <1>9 DEF RInv

(* What dispatch does at the gate, once the human has denied some of the   *)
(* gate's tasks (or none, when the gate has nothing to ask).               *)
LEMMA DispatchKeepsRun ==
  ASSUME IInv, RInv, UNCHANGED <<flags, plan, levels, cur, iteration, rejected, status,
                                 error, ran, blessed>>,
         pc = "level_gate", Dispatch(results', preapproved'),
         NEW ok, NEW no, ok \subseteq GateItems, no = GateItems \ ok,
         preapproved' = preapproved \cup ok,
         DOMAIN results' = DOMAIN results \cup no,
         \A i \in DOMAIN results : results'[i] = results[i],
         \A i \in no : results'[i] = "denied",
         granted' = granted \cup {GateCall(i) : i \in ok},
         refused' = refused \cup {GateCall(i) : i \in no}
  PROVE  RInv'
<1>. DEFINE level == LevelAt(cur)
<1>. USE DEF flags
<1>1. /\ DOMAIN results = Upto(cur) /\ cur \in Nat /\ ~ error /\ ~ rejected
      /\ granted \subseteq ran /\ DOMAIN flight = {}
      /\ (approve_plans => blessed = plan)
      /\ \A c \in refused : c.id \in DOMAIN results
      /\ \A c \in granted : c.id \in preapproved
      /\ \A c \in ran : c.id \in DOMAIN results
  BY DEF RInv, CursorMatches, Working, Active, Used, Blessed, Settled, IInv, InPlan, TypeOK
<1>2. /\ Upto(cur + 1) = Upto(cur) \cup level /\ Upto(cur) \cap level = {}
      /\ level = {} => Upto(cur) = Ids(plan)
      /\ \A i \in level : RefsIn(TaskById(i)) \subseteq Upto(cur)
  BY <1>1, LevelFacts DEF RInv
<1>3. /\ LevelAt(cur)' = level /\ Upto(cur)' = Upto(cur) /\ Upto(cur + 1)' = Upto(cur + 1)
      /\ \A i : TaskById(i)' = TaskById(i)
  BY DEF LevelAt, Upto, TaskById
<1>4. /\ GateItems \subseteq level \ DOMAIN results
      /\ HasError(results) => GateItems = {}
      /\ no \subseteq level \ DOMAIN results
  BY DEF GateItems
<1>5. HasError(Restrict(results', DOMAIN results' \ level)) <=> HasError(results)
  <2>1. DOMAIN results' \ level = DOMAIN results
    BY <1>1, <1>2, <1>4
  <2>. QED
    BY <2>1 DEF HasError, Restrict
<1>6. ToSend(results') = IF HasError(results) THEN {} ELSE level \ no
  BY <1>1, <1>2, <1>4, <1>5 DEF ToSend
<1>7. /\ DOMAIN flight' = ToSend(results')
      /\ \A i \in DOMAIN flight' : flight'[i] = Send(i, results', preapproved')
      /\ pc' = IF ToSend(results') = {} THEN "join" ELSE "run_task"
  BY DEF Dispatch
<1>8. /\ DOMAIN flight' \subseteq level
      /\ pc' = "run_task" => ~ HasError(results) /\ DOMAIN flight' = level \ no
      /\ pc' = "join" => ok = {} /\ DOMAIN flight' = {}
      /\ pc' = "join" => HasError(results) \/ level = no
      /\ pc' \in {"join", "run_task"}
  BY <1>4, <1>6, <1>7
<1>9. \A i \in no : i \in DOMAIN results' /\ results'[i] \in Failures
  BY DEF Failures
<1>10. pc' = "join" /\ ~ HasError(results') => DOMAIN results' = Ids(plan)
  <2>. SUFFICES ASSUME pc' = "join", ~ HasError(results') PROVE DOMAIN results' = Ids(plan)
    OBVIOUS
  <2>1. ~ HasError(results) /\ no = {}
    BY <1>9 DEF HasError
  <2>. QED
    BY <1>1, <1>2, <1>8, <2>1
<1>. HIDE DEF level
<1>11. CursorMatches'
  BY <1>1, <1>2, <1>3, <1>4, <1>8, <1>10 DEF CursorMatches
<1>12. LevelRuns'
  <2>1. \A i \in DOMAIN flight' : flight'[i].st = "ready"
    BY <1>7 DEF Send
  <2>2. pc' = "run_task" => \A i \in Upto(cur) : results'[i] \notin Failures
    BY <1>1, <1>8 DEF HasError
  <2>. QED
    BY <1>3, <1>8, <2>1, <2>2 DEF LevelRuns
<1>13. \A i : GateCall(i).id = i
  BY DEF GateCall
<1>14. Settled' /\ Blessed' /\ Working' /\ EndStatus'
  <2>1. Settled'
    BY <1>1, <1>8, <1>13 DEF Settled
  <2>2. Blessed' /\ Working' /\ EndStatus'
    BY <1>1, <1>8 DEF RInv, Blessed, Working, Active, EndStatus
  <2>. QED
    BY <2>1, <2>2
<1>15. ASSUME NEW i \in level, Resolvable(TaskById(i), results')
       PROVE  /\ Resolvable(TaskById(i), results)
              /\ SubstituteArgs(TaskById(i), results') = SubstituteArgs(TaskById(i), results)
  <2>1. RefsIn(TaskById(i)) \subseteq DOMAIN results
    BY <1>1, <1>2
  <2>. QED
    BY <1>15, <2>1 DEF Resolvable, SubstituteArgs, Restrict, RefsIn
<1>16. ASSUME NEW i \in ok
       PROVE  Resolvable(TaskById(i), results') /\ i \in level
  <2>1. Resolvable(TaskById(i), results) /\ i \in level
    BY <1>4 DEF GateItems
  <2>. QED
    BY <2>1 DEF Resolvable, RefsIn
<1>17. Used'
  <2>1. CASE pc' = "join"
    BY <1>1, <1>8, <2>1 DEF Used
  <2>2. CASE pc' = "run_task"
    <3>. SUFFICES ASSUME NEW c \in granted' \ ran'
         PROVE  /\ c.id \in DOMAIN flight' /\ c = TaskCall(c.id)'
                /\ ~ flight'[c.id].arg_error /\ flight'[c.id].st # "done"
      BY <2>2 DEF Used
    <3>1. PICK i \in ok : c = GateCall(i)
      BY <1>1
    <3>2. c.id = i /\ i \in DOMAIN flight'
      BY <1>8, <1>13, <1>16, <2>2, <3>1
    <3>3. /\ flight'[i].args = SubstituteArgs(TaskById(i), results)
          /\ ~ flight'[i].arg_error /\ flight'[i].st = "ready"
      <4>1. flight'[i] = Send(i, results', preapproved')
        BY <1>7, <3>2
      <4>2. /\ flight'[i].args = SubstituteArgs(TaskById(i), results')
            /\ ~ flight'[i].arg_error /\ flight'[i].st = "ready"
        BY <1>16, <4>1 DEF Send
      <4>. QED
        BY <1>15, <1>16, <4>2
    <3>. QED
      BY <1>3, <3>1, <3>2, <3>3 DEF GateCall, TaskCall
  <2>. QED
    BY <1>8, <2>1, <2>2
<1>18. NoApprovalMidFanOut'
  <2>. SUFFICES ASSUME NEW i \in DOMAIN flight', AsksInline(i)', ~ flight'[i].arg_error
       PROVE  FALSE
    BY DEF NoApprovalMidFanOut
  <2>1. flight'[i] = Send(i, results', preapproved') /\ i \in level /\ i \notin no
    BY <1>6, <1>7, <1>8
  <2>2. Resolvable(TaskById(i), results')
    BY <2>1 DEF Send
  <2>3. flight'[i].preapproved = (i \in preapproved')
    BY <2>1, <2>2 DEF Send
  <2>4. i \notin preapproved' /\ NeedsApproval(TaskById(i).tool)
    BY <1>3, <2>3 DEF AsksInline
  <2>5. i \in GateItems
    <3>1. ~ HasError(results)
      BY <1>6, <1>7
    <3>2. Resolvable(TaskById(i), results) /\ i \notin DOMAIN results
      BY <1>1, <1>2, <1>15, <2>1, <2>2
    <3>. QED
      BY <2>1, <2>4, <3>1, <3>2 DEF GateItems, level
  <2>. QED
    BY <2>1, <2>4, <2>5
<1>19. DeniedNeverRuns'
  <2>1. \A c \in ran, d \in refused : c.id # d.id
    BY DEF RInv, DeniedNeverRuns
  <2>2. \A c \in ran', d \in refused' : c.id # d.id
    BY <1>1, <1>4, <1>13, <2>1
  <2>. QED
    BY <1>8, <2>2 DEF DeniedNeverRuns
<1>20. Scheduled' /\ RunsOnCleanLevels' /\ OnlyBlessedPlansRun'
  BY DEF RInv, Scheduled, RunsOnCleanLevels, OnlyBlessedPlansRun
<1>. QED
  BY <1>11, <1>12, <1>14, <1>17, <1>18, <1>19, <1>20 DEF RInv

LEMMA GateKeepsRun ==
  ASSUME IInv, RInv, UNCHANGED flags,
         LevelGatePass \/ \E v \in Verdicts(GateItems) : LevelGateVerdict(v)
  PROVE  RInv'
<1>1. CASE LevelGatePass
  <2>1. /\ pc = "level_gate" /\ GateItems = {} /\ Dispatch(results', preapproved')
        /\ UNCHANGED <<plan, levels, cur, iteration, rejected, status, error, ran, blessed,
                       results, preapproved, granted, refused>>
    BY <1>1 DEF LevelGatePass, agentState, ghosts
  <2>2. /\ preapproved' = preapproved \cup {} /\ DOMAIN results' = DOMAIN results \cup {}
        /\ granted' = granted \cup {GateCall(i) : i \in {}}
        /\ refused' = refused \cup {GateCall(i) : i \in {}}
        /\ {} = GateItems \ {}
    BY <2>1
  <2>. QED
    BY <2>1, <2>2, DispatchKeepsRun
<1>2. ASSUME NEW v \in Verdicts(GateItems), LevelGateVerdict(v)
      PROVE  RInv'
  <2>. DEFINE ok == {i \in GateItems : VerdictFor(v, i)}
              no == GateItems \ ok
  <2>1. /\ pc = "level_gate" /\ Dispatch(results', preapproved')
        /\ preapproved' = preapproved \cup ok
        /\ results' = MergeResults(results, [i \in no |-> "denied"])
        /\ UNCHANGED <<plan, levels, cur, iteration, rejected, status, error, ran, blessed>>
    BY <1>2 DEF LevelGateVerdict
  <2>2. \A i \in GateItems : SaidYes(v, i) <=> VerdictFor(v, i)
    BY DEF SaidYes, VerdictFor, Verdicts
  <2>3. /\ {j \in GateItems : SaidYes(v, j)} = ok
        /\ {j \in GateItems : ~ SaidYes(v, j)} = no
    BY <2>2
  <2>4. /\ granted' = granted \cup {GateCall(i) : i \in ok}
        /\ refused' = refused \cup {GateCall(i) : i \in no}
    BY <1>2, <2>3 DEF LevelGateVerdict
  <2>5. GateItems \cap DOMAIN results = {} /\ ok \subseteq GateItems
    BY DEF GateItems
  <2>. HIDE DEF ok
  <2>6. /\ DOMAIN results' = DOMAIN results \cup no
        /\ \A i \in DOMAIN results : results'[i] = results[i]
        /\ \A i \in no : results'[i] = "denied"
    BY <2>1, <2>5 DEF MergeResults
  <2>. QED
    BY <2>1, <2>4, <2>5, <2>6, DispatchKeepsRun
<1>. QED
  BY <1>1, <1>2

(* A branch runs its tool, fails or asks: its task belongs to the current  *)
(* level, which all of the earlier ones let through.                       *)
LEMMA BranchKeepsRun ==
  ASSUME IInv, RInv, UNCHANGED flags, NEW i \in Id,
         Unresolved(i) \/ RunTool(i) \/ TaskAsks(i)
  PROVE  RInv'
<1>. USE DEF flags
<1>1. /\ pc = "run_task" /\ i \in DOMAIN flight /\ flight[i].st \in {"ready", "answered"}
      /\ UNCHANGED <<pc, agentState, granted, refused, blessed>>
      /\ UNCHANGED <<plan, levels, cur, iteration, results, rejected, preapproved,
                     decision, final, status, error>>
  BY DEF Unresolved, RunTool, TaskAsks, ghosts, agentState
<1>2. /\ \A c \in refused : c.id \in DOMAIN results
      /\ DOMAIN flight \cap DOMAIN results = {}
      /\ DOMAIN flight \subseteq LevelAt(cur) /\ cur \in Nat /\ ~ error
      /\ Upto(cur) \subseteq DOMAIN results /\ (approve_plans => blessed = plan)
      /\ \A j \in Upto(cur) : results[j] \notin Failures
      /\ ~ (AsksInline(i) /\ ~ flight[i].arg_error)
  BY <1>1 DEF RInv, Settled, Active, IInv, FlightIsNew, LevelRuns, TypeOK, CursorMatches,
              Working, Blessed, NoApprovalMidFanOut
<1>3. /\ DOMAIN flight' = DOMAIN flight
      /\ \A j \in DOMAIN flight :
           /\ flight'[j].args = flight[j].args
           /\ flight'[j].preapproved = flight[j].preapproved
           /\ flight'[j].arg_error = flight[j].arg_error
           /\ j # i => flight'[j] = flight[j]
      /\ flight'[i].st \in {"done", "asked"}
      /\ flight'[i].st = "asked" => ~ flight[i].arg_error
  <2>1. \/ \E v \in Value : Settle(i, v)
        \/ flight' = [flight EXCEPT ![i].st = "asked"] /\ ~ flight[i].arg_error
    BY DEF Unresolved, RunTool, TaskAsks, Outcomes, Value, Failures
  <2>2. flight \in [DOMAIN flight -> Branch] /\ i \in DOMAIN flight
    BY <1>1 DEF IInv, TypeOK
  <2>3. CASE \E v \in Value : Settle(i, v)
    BY <2>2, <2>3 DEF Settle, Branch
  <2>4. CASE flight' = [flight EXCEPT ![i].st = "asked"] /\ ~ flight[i].arg_error
    BY <2>2, <2>4 DEF Branch
  <2>. QED
    BY <2>1, <2>3, <2>4
<1>4. \/ ran' = ran /\ flight[i].arg_error
      \/ ran' = ran \cup {TaskCall(i)}
  BY <1>2 DEF Unresolved, RunTool, TaskAsks, ghosts
<1>5. \A j \in DOMAIN flight :
        /\ TaskCall(j)' = TaskCall(j) /\ TaskCall(j).id = j
        /\ AsksInline(j)' => AsksInline(j)
  BY <1>1, <1>3 DEF TaskCall, AsksInline, TaskById
<1>6. Scheduled' /\ CursorMatches' /\ Blessed' /\ Working' /\ EndStatus'
  BY <1>1, <1>3 DEF RInv, Scheduled, CursorMatches, Upto, HasError, Blessed, Working, EndStatus
<1>7. LevelRuns'
  <2>1. LevelAt(cur)' = LevelAt(cur) /\ Upto(cur)' = Upto(cur)
    BY <1>1 DEF LevelAt, Upto
  <2>. QED
    BY <1>1, <1>2, <1>3, <2>1 DEF RInv, LevelRuns
<1>8. Settled'
  BY <1>1, <1>3, <1>4, <1>5 DEF RInv, Settled
<1>9. Used'
  <2>. SUFFICES ASSUME NEW c \in granted \ ran'
       PROVE  /\ c.id \in DOMAIN flight' /\ c = TaskCall(c.id)'
              /\ ~ flight'[c.id].arg_error /\ flight'[c.id].st # "done"
    BY <1>1 DEF Used
  <2>1. /\ c.id \in DOMAIN flight /\ c = TaskCall(c.id)
        /\ ~ flight[c.id].arg_error /\ flight[c.id].st # "done"
    BY <1>1, <1>4 DEF RInv, Used
  <2>2. c.id # i
    BY <1>4, <2>1
  <2>. QED
    BY <1>3, <1>5, <2>1, <2>2
<1>10. DeniedNeverRuns'
  <2>1. \A c \in ran', d \in refused' : c.id # d.id
    BY <1>1, <1>2, <1>4, <1>5 DEF RInv, DeniedNeverRuns
  <2>. QED
    BY <1>1, <2>1 DEF DeniedNeverRuns
<1>11. NoApprovalMidFanOut'
  BY <1>3, <1>5 DEF RInv, NoApprovalMidFanOut
<1>12. RunsOnCleanLevels'
  <2>1. ASSUME NEW k \in DOMAIN levels, i \in levels[k], NEW l \in 1 .. k - 1,
               NEW j \in levels[l]
        PROVE  j \in DOMAIN results /\ results[j] \notin Failures
    <3>1. levels[l] \subseteq Upto(cur)
      BY <1>1, <1>2, <2>1, LevelOfTask DEF RInv
    <3>. QED
      BY <1>2, <3>1
  <2>. QED
    BY <1>1, <1>4, <1>5, <2>1 DEF RInv, RunsOnCleanLevels
<1>13. OnlyBlessedPlansRun'
  BY <1>1, <1>2 DEF OnlyBlessedPlansRun
<1>. QED
  BY <1>6, <1>7, <1>8, <1>9, <1>10, <1>11, <1>12, <1>13 DEF RInv

(* The human answers the branches that asked. None of them asked for an    *)
(* approval, so nothing is granted or denied here.                         *)
LEMMA AnswerKeepsRun ==
  ASSUME IInv, RInv, UNCHANGED flags, NEW says \in [Asked -> BOOLEAN], AnswerTasks(says)
  PROVE  RInv'
<1>. USE DEF flags
<1>1. /\ pc = "run_task"
      /\ UNCHANGED <<pc, agentState, ran, blessed>>
      /\ UNCHANGED <<plan, levels, cur, iteration, results, rejected, preapproved,
                     decision, final, status, error>>
  BY DEF AnswerTasks, WaitsForAnswers, agentState
<1>2. \A i \in Asked : ~ flight[i].arg_error /\ ~ AsksInline(i)
  BY DEF RInv, LevelRuns, NoApprovalMidFanOut, Asked
<1>3. /\ {i \in Asked : AsksInline(i) /\ ~ says[i]} = {}
      /\ {i \in Asked : AsksInline(i) /\ says[i]} = {}
  BY <1>2
<1>4. /\ flight' = [i \in DOMAIN flight |->
                     IF i \in Asked THEN [flight[i] EXCEPT !.st = "answered"] ELSE flight[i]]
      /\ granted' = granted /\ refused' = refused
  BY <1>3 DEF AnswerTasks
<1>5. /\ DOMAIN flight' = DOMAIN flight
      /\ \A j \in DOMAIN flight :
           /\ flight'[j].args = flight[j].args
           /\ flight'[j].preapproved = flight[j].preapproved
           /\ flight'[j].arg_error = flight[j].arg_error
           /\ flight'[j].st # flight[j].st => flight'[j].st = "answered" /\ j \in Asked
  BY <1>4 DEF IInv, TypeOK, Branch
<1>6. \A j \in DOMAIN flight :
        /\ TaskCall(j)' = TaskCall(j)
        /\ AsksInline(j)' => AsksInline(j)
  BY <1>1, <1>5 DEF TaskCall, AsksInline, TaskById
<1>7. Scheduled' /\ CursorMatches' /\ Blessed' /\ Working' /\ EndStatus'
  BY <1>1, <1>5 DEF RInv, Scheduled, CursorMatches, Upto, HasError, Blessed, Working, EndStatus
<1>8. LevelRuns'
  <2>1. LevelAt(cur)' = LevelAt(cur) /\ Upto(cur)' = Upto(cur)
    BY <1>1 DEF LevelAt, Upto
  <2>. QED
    BY <1>1, <1>2, <1>5, <2>1 DEF RInv, LevelRuns
<1>9. Settled'
  BY <1>1, <1>4, <1>5 DEF RInv, Settled
<1>10. Used'
  <2>. SUFFICES ASSUME NEW c \in granted \ ran
       PROVE  /\ c.id \in DOMAIN flight' /\ c = TaskCall(c.id)'
              /\ ~ flight'[c.id].arg_error /\ flight'[c.id].st # "done"
    BY <1>1, <1>4 DEF Used
  <2>1. /\ c.id \in DOMAIN flight /\ c = TaskCall(c.id)
        /\ ~ flight[c.id].arg_error /\ flight[c.id].st # "done"
    BY <1>1 DEF RInv, Used
  <2>. QED
    BY <1>5, <1>6, <2>1
<1>11. DeniedNeverRuns' /\ NoApprovalMidFanOut'
  BY <1>1, <1>4, <1>5, <1>6 DEF RInv, DeniedNeverRuns, NoApprovalMidFanOut
<1>12. RunsOnCleanLevels' /\ OnlyBlessedPlansRun'
  BY <1>1 DEF RInv, RunsOnCleanLevels, OnlyBlessedPlansRun
<1>. QED
  BY <1>7, <1>8, <1>9, <1>10, <1>11, <1>12 DEF RInv

(* The results of a level reach the state together.                        *)
LEMMA BarrierKeepsRun ==
  ASSUME IInv, RInv, UNCHANGED flags, Barrier
  PROVE  RInv'
<1>. USE DEF flags
<1>1. /\ pc = "run_task" /\ pc' = "advance" /\ DOMAIN flight' = {}
      /\ \A i \in DOMAIN flight : flight[i].st = "done"
      /\ UNCHANGED <<plan, levels, cur, iteration, rejected, preapproved, decision, final,
                     status, error, granted, refused, ran, blessed>>
  BY DEF Barrier, ghosts, Nothing
<1>2. /\ DOMAIN results' = DOMAIN results \cup DOMAIN flight
      /\ \A i \in DOMAIN results : results'[i] = results[i]
  BY DEF Barrier, MergeResults, IInv, FlightIsNew
<1>3. Scheduled' /\ Blessed' /\ Working' /\ EndStatus' /\ OnlyBlessedPlansRun'
  BY <1>1 DEF RInv, Scheduled, Blessed, Working, Active, EndStatus, OnlyBlessedPlansRun
<1>4. CursorMatches' /\ LevelRuns'
  <2>1. Upto(cur)' = Upto(cur) /\ Upto(cur + 1)' = Upto(cur + 1)
    BY <1>1 DEF Upto
  <2>. QED
    BY <1>1, <1>2, <2>1 DEF RInv, CursorMatches, LevelRuns
<1>5. Settled'
  BY <1>1, <1>2 DEF RInv, Settled, Active
<1>6. Used'
  BY <1>1 DEF RInv, Used
<1>7. DeniedNeverRuns' /\ NoApprovalMidFanOut' /\ RunsOnCleanLevels'
  BY <1>1, <1>2 DEF RInv, DeniedNeverRuns, NoApprovalMidFanOut, RunsOnCleanLevels
<1>. QED
  BY <1>3, <1>4, <1>5, <1>6, <1>7 DEF RInv

(* Every step of the graph, of the human and of the caller preserves it.   *)
LEMMA NextRInv == IInv /\ RInv /\ [Next]_vars => RInv'
<1>. SUFFICES ASSUME IInv, RInv, [Next]_vars PROVE RInv'
  OBVIOUS
<1>1. CASE UNCHANGED vars
  BY <1>1, PauseKeepsRun DEF vars
<1>2. ASSUME NEW p \in Plans, PlanNode(p), UNCHANGED flags
      PROVE  RInv'
  <2>1. p \in Seq(Task(Id, Registry))
    BY PlansAssumption
  <2>2. /\ ValidPlan(p, Registry) /\ Schedule(p) /\ FreshNamespace /\ error' = FALSE
        /\ status' = "none" /\ iteration' = iteration + 1 /\ pc = "plan"
        /\ flight' = flight /\ pc' = IF approve_plans THEN "approve" ELSE "level_gate"
    BY <1>2 DEF PlanNode, PlannerReturns, RoutePlan
  <2>3. DOMAIN flight' = {}
    BY <2>2 DEF IInv, InPlan
  <2>4. iteration' <= MaxIterations
    BY <2>2, BoundsAssumption DEF RInv, Working, IInv, TypeOK
  <2>5. pc' = "approve" \/ (pc' = "level_gate" /\ (approve_plans => blessed' = plan'))
    BY <2>2
  <2>. QED
    BY <1>2, <2>1, <2>2, <2>3, <2>4, <2>5, PlanTakesEffect
<1>3. ASSUME NEW p \in Edits, ApproveEdit(p), UNCHANGED flags
      PROVE  RInv'
  <2>1. p \in Seq(Task(Id, Registry))
    BY PlansAssumption
  <2>2. /\ ValidPlan(p, Registry) /\ Schedule(p) /\ FreshNamespace /\ error' = error
        /\ status' = status /\ iteration' = iteration /\ pc = "approve"
        /\ flight' = flight /\ pc' = "level_gate" /\ blessed' = p /\ plan' = p
    BY <1>3 DEF ApproveEdit, RouteApprove, FreshNamespace, Schedule
  <2>3. DOMAIN flight' = {}
    BY <2>2 DEF IInv, InPlan
  <2>4. /\ error' = FALSE /\ status' = "none" /\ iteration' <= MaxIterations
    BY <2>2 DEF RInv, Working, Active, EndStatus, IInv, TypeOK
  <2>. QED
    BY <1>3, <2>1, <2>2, <2>3, <2>4, PlanTakesEffect
<1>4. CASE Machine
  <2>1. ASSUME ApprovePause \/ LevelGatePause \/ ReviewPause, UNCHANGED flags
        PROVE  RInv'
    BY <2>1, PauseKeepsRun DEF ApprovePause, LevelGatePause, ReviewPause
  <2>. QED
    BY <1>2, <1>4, <2>1, PlanFailsKeepsRun, GateKeepsRun, BranchKeepsRun, BarrierKeepsRun,
       AdvanceKeepsRun, JoinKeepsRun, RaiseKeepsRun DEF Machine, MachineStep
<1>5. CASE Human
  BY <1>3, <1>5, ApproveKeepsRun, GateKeepsRun, AnswerKeepsRun, AdvanceKeepsRun
     DEF Human, HumanStep
<1>6. CASE NewRun /\ UNCHANGED flags
  BY <1>6, NewRunKeepsRun
<1>. QED
  BY <1>1, <1>4, <1>5, <1>6 DEF Next

(* Both invariants, over every run.                                        *)
LEMMA RunInvariant == Spec => [](IInv /\ RInv)
<1>1. Init => IInv /\ RInv
  BY InitIInv, InitRInv
<1>2. IInv /\ RInv /\ [Next]_vars => (IInv /\ RInv)'
  BY NextIInv, NextRInv
<1>. QED
  BY <1>1, <1>2, PTL DEF Spec
-----------------------------------------------------------------------------
(* Theorems                                                                *)

(* A denial stands: the task is not started under that plan, by whatever   *)
(* way the run goes on, and the gate does not ask about it again.          *)
THEOREM DenialStands == Spec => []DeniedNeverRuns
<1>1. RInv => DeniedNeverRuns
  BY DEF RInv
<1>. QED
  BY RunInvariant, <1>1, PTL

(* An approval is used: every call approved at a gate has been made by the *)
(* time the level, or the plan, is over.                                   *)
THEOREM ApprovalsAreUsed == Spec => []ApprovalIsUsed
<1>1. RInv => ApprovalIsUsed
  BY DEF RInv, Used, ApprovalIsUsed
<1>. QED
  BY RunInvariant, <1>1, PTL

(* The gate asks for everything before it fans a level out: no branch      *)
(* stops for an approval once its siblings have started.                   *)
THEOREM GateAsksForAll == Spec => []NoApprovalMidFanOut
<1>1. RInv => NoApprovalMidFanOut
  BY DEF RInv
<1>. QED
  BY RunInvariant, <1>1, PTL

(* A tool runs only when every task of the levels before it succeeded.     *)
THEOREM LevelsInOrder == Spec => []RunsOnCleanLevels
<1>1. RInv => RunsOnCleanLevels
  BY DEF RInv
<1>. QED
  BY RunInvariant, <1>1, PTL

(* The results are the plan's own, as far as the cursor says and, when the *)
(* joiner is asked about a plan that went through, all of them.            *)
THEOREM ResultsAreThePlans == Spec => []ResultsMatchCursor
<1>1. RInv => ResultsMatchCursor
  BY DEF RInv, CursorMatches, ResultsMatchCursor, Upto
<1>. QED
  BY RunInvariant, <1>1, PTL

(* With approve_plans, nothing runs but the plan the human let through.    *)
THEOREM BlessedPlansOnly == Spec => []OnlyBlessedPlansRun
<1>1. RInv => OnlyBlessedPlansRun
  BY DEF RInv
<1>. QED
  BY RunInvariant, <1>1, PTL

(* The status of a run that ended says how it ended, and no run goes       *)
(* beyond its planning rounds, for any thread and any number of queries.   *)
THEOREM EndsAsItSays == Spec => []EndStatus
<1>1. RInv => EndStatus
  BY DEF RInv
<1>. QED
  BY RunInvariant, <1>1, PTL

(* A result never changes under its plan: the channel only grows, except   *)
(* that a new plan clears it together with its cursor and approvals.       *)
THEOREM ResultsOnlyGrow ==
  Spec => [][\/ IsRestriction(results, results')
             \/ results' = Nothing /\ cur' = 0 /\ preapproved' = {} /\ ran' = {}]_vars
<1>. DEFINE A == \/ IsRestriction(results, results')
                 \/ results' = Nothing /\ cur' = 0 /\ preapproved' = {} /\ ran' = {}
<1>1. IInv /\ [Next]_vars => [A]_vars
  <2>. SUFFICES ASSUME IInv, Next PROVE A
    BY DEF vars
  <2>1. results' = results => A
    BY DEF IsRestriction
  <2>2. ASSUME NEW p, PlanNode(p) \/ ApproveEdit(p)
        PROVE  A
    BY <2>2 DEF PlanNode, PlannerReturns, ApproveEdit, FreshNamespace, Schedule
  <2>3. ASSUME NEW v, LevelGateVerdict(v)
        PROVE  A
    <3>1. GateItems \cap DOMAIN results = {}
      BY DEF GateItems
    <3>2. PICK no \in SUBSET GateItems : results' = MergeResults(results, [i \in no |-> "denied"])
      BY <2>3 DEF LevelGateVerdict
    <3>. QED
      BY <3>1, <3>2 DEF MergeResults, IsRestriction
  <2>4. CASE Barrier
    BY <2>4 DEF Barrier, MergeResults, IsRestriction, IInv, FlightIsNew
  <2>. HIDE DEF A
  <2>. QED
    BY <2>1, <2>2, <2>3, <2>4
       DEF Next, Machine, MachineStep, Human, HumanStep, NewRun, PlanNodeFails,
           ApprovePause, ApproveYes, ApproveNo, LevelGatePass, LevelGatePause, Unresolved,
           RunTool, TaskAsks, AnswerTasks, Advance, ReviewPause, ReviewYes, ReviewNo,
           JoinFinish, JoinReplan, JoinFails, NodeRaises, agentState
<1>. HIDE DEF A
<1>2. Spec => [][A]_vars
  BY RunInvariant, <1>1, PTL DEF Spec
<1>. QED
  BY <1>2 DEF A

(* After the human rejects a plan or stops it at a review, none of its     *)
(* tasks starts any more.                                                  *)
THEOREM RejectedMeansStopped == Spec => [][rejected /\ rejected' => ran' \subseteq ran]_vars
<1>1. RInv /\ [Next]_vars => [rejected /\ rejected' => ran' \subseteq ran]_vars
  <2>. SUFFICES ASSUME RInv, Next, rejected PROVE ran' \subseteq ran
    BY DEF vars
  <2>1. pc # "run_task"
    BY DEF RInv, Working, Active
  <2>. QED
    BY <2>1
       DEF Next, Machine, MachineStep, Human, HumanStep, NewRun, PlanNode, PlanNodeFails,
           ApproveEdit, FreshNamespace, ApprovePause, ApproveYes, ApproveNo, LevelGatePass,
           LevelGatePause, LevelGateVerdict, Unresolved, RunTool, TaskAsks, AnswerTasks,
           WaitsForAnswers, Barrier, Advance, ReviewPause, ReviewYes, ReviewNo, JoinFinish,
           JoinReplan, JoinFails, NodeRaises, ghosts
<1>. QED
  BY RunInvariant, <1>1, PTL DEF Spec
-----------------------------------------------------------------------------
(* The agent implements the contract                                       *)

(* Only the nodes that ask the human pause, and a review only if there are *)
(* reviews.                                                                *)
PausesWhereAsked ==
  paused => \/ pc \in {"approve", "level_gate"}
            \/ pc = "advance" /\ approve_levels

LEMMA PausesInvariant == Spec => []PausesWhereAsked
<1>1. Init => PausesWhereAsked
  BY DEF Init, PausesWhereAsked
<1>2. TypeOK /\ PausesWhereAsked /\ [Next]_vars => PausesWhereAsked'
  <2>. SUFFICES ASSUME TypeOK, PausesWhereAsked, [Next]_vars PROVE PausesWhereAsked'
    OBVIOUS
  <2>1. CASE UNCHANGED vars
    BY <2>1 DEF vars, flags, PausesWhereAsked
  <2>2. CASE Machine
    <3>1. UNCHANGED flags /\ MachineStep
      BY <2>2 DEF Machine
    <3>2. ASSUME ApprovePause \/ LevelGatePause \/ ReviewPause
          PROVE  PausesWhereAsked'
      BY <3>1, <3>2 DEF ApprovePause, LevelGatePause, ReviewPause, flags, PausesWhereAsked
    <3>3. ASSUME \/ \E p \in Plans : PlanNode(p)
                 \/ PlanNodeFails \/ LevelGatePass \/ Barrier \/ Advance
                 \/ \E i \in Id : Unresolved(i) \/ RunTool(i) \/ TaskAsks(i)
                 \/ JoinFinish \/ JoinReplan \/ JoinFails \/ NodeRaises
          PROVE  ~ paused /\ paused' = paused
      BY <3>3 DEF PlanNode, PlanNodeFails, LevelGatePass, Barrier, Advance, Unresolved,
                  RunTool, TaskAsks, JoinFinish, JoinReplan, JoinFails, NodeRaises,
                  PausesWhereAsked
    <3>. QED
      BY <3>1, <3>2, <3>3 DEF MachineStep, PausesWhereAsked
  <2>3. CASE Human
    BY <2>3 DEF Human, HumanStep, ApproveYes, ApproveNo, ApproveEdit, LevelGateVerdict,
                AnswerTasks, WaitsForAnswers, ReviewYes, ReviewNo, PausesWhereAsked
  <2>4. CASE NewRun /\ UNCHANGED flags
    BY <2>4 DEF NewRun, PausesWhereAsked
  <2>. QED
    BY <2>1, <2>2, <2>3, <2>4 DEF Next
<1>. QED
  BY <1>1, <1>2, TypeCorrect, PTL DEF Spec

(* What each step of the graph is to the caller.                           *)
LEMMA StepOfContract ==
  ASSUME IInv, RInv, PausesWhereAsked, Next
  PROVE  [Contract!Next]_(Contract!vars)
<1>. USE DEF Contract!Next, Contract!vars, Contract!Start, Contract!Pause, Contract!Resume,
             Contract!End, Contract!Raise, Contract!Leave
<1>1. CASE NewRun
  <2>1. Phase # "running"
    BY <1>1 DEF NewRun, Idle, Phase, PausesWhereAsked
  <2>2. Phase' = "running" /\ status' = "none"
    BY <1>1 DEF NewRun, Phase, WaitsForAnswers
  <2>. QED
    BY <2>1, <2>2
<1>2. pc # "end" => status = "none"
  BY DEF RInv, Working
<1>3. CASE \E p : PlanNode(p)
  <2>1. Phase = "running" /\ Phase' = "running"
    BY <1>3 DEF PlanNode, RoutePlan, Phase, WaitsForAnswers, PausesWhereAsked
  <2>2. status' = status
    BY <1>2, <1>3 DEF PlanNode
  <2>. QED
    BY <2>1, <2>2
<1>4. CASE PlanNodeFails \/ JoinFinish \/ JoinReplan \/ JoinFails
  <2>1. /\ pc \in {"plan", "join"} /\ pc' \in {"plan", "end"} /\ paused' = paused
        /\ status' \in {"none", "ok", "error"}
        /\ pc' = "plan" => status' = status
    <3>1. CASE PlanNodeFails
      BY <3>1 DEF PlanNodeFails, RoutePlan
    <3>2. CASE JoinFinish
      BY <3>2 DEF JoinFinish, JoinerReturns, RouteJoin
    <3>3. CASE JoinReplan
      BY <1>2, <3>3 DEF JoinReplan, RouteJoin
    <3>4. CASE JoinFails
      BY <3>4 DEF JoinFails, RouteJoin
    <3>. QED
      BY <1>4, <3>1, <3>2, <3>3, <3>4
  <2>2. Phase = "running" /\ Phase' = IF pc' = "end" THEN "ended" ELSE "running"
    BY <2>1 DEF Phase, WaitsForAnswers, PausesWhereAsked
  <2>. QED
    BY <2>1, <2>2
<1>5. CASE ApprovePause \/ LevelGatePause \/ ReviewPause
  <2>1. /\ pc \in {"approve", "level_gate", "advance"} /\ ~ paused /\ paused'
        /\ pc' = pc /\ status' = status
    BY <1>5 DEF ApprovePause, LevelGatePause, ReviewPause, agentState
  <2>2. Phase = "running" /\ Phase' = "waiting"
    BY <2>1 DEF Phase, WaitsForAnswers
  <2>. QED
    BY <2>1, <2>2
<1>6. CASE ApproveYes \/ ApproveNo \/ (\E p : ApproveEdit(p)) \/ ReviewYes \/ ReviewNo
  <2>1. /\ pc \in {"approve", "advance"} /\ paused /\ ~ paused' /\ status' = status
        /\ pc' \in {"plan", "join", "level_gate"}
    BY <1>6 DEF ApproveYes, ApproveNo, ApproveEdit, ReviewYes, ReviewNo, RouteApprove
  <2>2. Phase = "waiting" /\ Phase' = "running"
    BY <2>1 DEF Phase, WaitsForAnswers
  <2>. QED
    BY <2>1, <2>2
<1>7. CASE LevelGatePass \/ \E v : LevelGateVerdict(v)
  <2>1. /\ pc = "level_gate" /\ ~ paused' /\ status' = status
        /\ Dispatch(results', preapproved')
    <3>1. CASE LevelGatePass
      BY <3>1 DEF LevelGatePass, agentState
    <3>2. CASE \E v : LevelGateVerdict(v)
      BY <3>2 DEF LevelGateVerdict
    <3>. QED
      BY <1>7, <3>1, <3>2
  <2>2. pc' \in {"join", "run_task"} /\ \A i \in DOMAIN flight' : flight'[i].st = "ready"
    BY <2>1 DEF Dispatch, Send
  <2>3. ~ WaitsForAnswers'
    BY <2>2 DEF WaitsForAnswers, Asked
  <2>4. Phase = (IF paused THEN "waiting" ELSE "running") /\ Phase' = "running"
    BY <2>1, <2>2, <2>3 DEF Phase, WaitsForAnswers
  <2>. QED
    BY <2>1, <2>4
<1>8. CASE \E i \in Id : Unresolved(i) \/ RunTool(i) \/ TaskAsks(i)
  <2>1. PICK i \in DOMAIN flight : flight[i].st \in {"ready", "answered"}
    BY <1>8 DEF Unresolved, RunTool, TaskAsks
  <2>2. pc = "run_task" /\ pc' = pc /\ paused' = paused /\ status' = status
    BY <1>8 DEF Unresolved, RunTool, TaskAsks, agentState
  <2>3. ~ WaitsForAnswers
    BY <2>1 DEF WaitsForAnswers
  <2>4. Phase = "running" /\ Phase' \in {"running", "waiting"}
    BY <2>2, <2>3 DEF Phase, PausesWhereAsked
  <2>. QED
    BY <2>2, <2>4
<1>9. CASE \E says \in [Asked -> BOOLEAN] : AnswerTasks(says)
  <2>1. PICK says \in [Asked -> BOOLEAN] : AnswerTasks(says)
    BY <1>9
  <2>2. /\ pc = "run_task" /\ pc' = pc /\ paused' = paused /\ status' = status
        /\ WaitsForAnswers
    BY <2>1 DEF AnswerTasks, WaitsForAnswers, agentState
  <2>3. ~ WaitsForAnswers'
    <3>1. \A i \in DOMAIN flight' : flight'[i].st # "asked"
      BY <2>1 DEF AnswerTasks, Asked, IInv, TypeOK, Branch
    <3>. QED
      BY <3>1 DEF WaitsForAnswers, Asked
  <2>4. Phase = "waiting" /\ Phase' = "running"
    BY <2>2, <2>3 DEF Phase, PausesWhereAsked
  <2>. QED
    BY <2>2, <2>4
<1>10. CASE Barrier \/ Advance
  <2>1. /\ pc \in {"run_task", "advance"} /\ pc' \in {"advance", "level_gate"}
        /\ ~ paused /\ ~ paused' /\ status' = status
    BY <1>10 DEF Barrier, Advance, PausesWhereAsked
  <2>2. ~ WaitsForAnswers
    BY <1>10 DEF Barrier, Advance, WaitsForAnswers, Asked
  <2>3. Phase = "running" /\ Phase' = "running"
    BY <2>1, <2>2 DEF Phase, WaitsForAnswers
  <2>. QED
    BY <2>1, <2>3
<1>11. CASE NodeRaises
  <2>1. /\ pc \in {"plan", "join"} /\ pc' = "raised" /\ paused' = paused /\ status' = status
    BY <1>11 DEF NodeRaises, agentState
  <2>2. Phase = "running" /\ Phase' = "raised"
    BY <2>1 DEF Phase, WaitsForAnswers, PausesWhereAsked
  <2>. QED
    BY <2>1, <2>2
<1>. QED
  BY <1>1, <1>3, <1>4, <1>5, <1>6, <1>7, <1>8, <1>9, <1>10, <1>11
     DEF Next, Machine, MachineStep, Human, HumanStep

(* Whatever the plans, the tools and the human do: to its caller every run *)
(* of the graph is a run of the contract.                                  *)
THEOREM PlanExecuteImplementsContract == Spec => ImplementsContract
<1>1. Init => Contract!Init
  BY DEF Init, Contract!Init, Phase, WaitsForAnswers
<1>2. IInv /\ RInv /\ PausesWhereAsked /\ [Next]_vars => [Contract!Next]_(Contract!vars)
  <2>1. UNCHANGED vars => UNCHANGED Contract!vars
    BY DEF vars, agentState, Contract!vars, Phase, WaitsForAnswers, Asked
  <2>. QED
    BY <2>1, StepOfContract
<1>. QED
  BY <1>1, <1>2, RunInvariant, PausesInvariant, PTL DEF Spec, ImplementsContract, Contract!Spec
=============================================================================
