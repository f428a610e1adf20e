----------------------------- MODULE PlanExecute -----------------------------
(***************************************************************************)
(* The plan-and-execute agent (plan_execute/graph.py) as LangGraph runs    *)
(* it: plan -> [approve] -> level_gate -> run_task* -> advance -> ... ->   *)
(* join, on one conversation thread.                                       *)
(*                                                                         *)
(* A node and the routing function on its outgoing edge are one step of    *)
(* the graph, so they are one action here. A node that interrupts takes    *)
(* two: one that pauses it, and one -- the human's verdict, on which the   *)
(* node is executed again from its start -- that finishes it. The tasks of *)
(* a level are independent branches of one step: each runs, fails, or      *)
(* pauses on its own, and their results reach the state together, at the   *)
(* barrier, when the last one is done.                                     *)
(*                                                                         *)
(* Every variable above the ghosts is a channel of the checkpointed state  *)
(* (AgentState) or LangGraph's own bookkeeping of the step it is in, so a  *)
(* process that stops while the thread is paused loses nothing.            *)
(***************************************************************************)
EXTENDS PlanDag

CONSTANTS
  Id,             \* task ids
  Registry,       \* registered tools
  Gated,          \* tools with requires_approval
  Asking,         \* tools that may interrupt inside: ask_human, sub-agents
  Plans,          \* plans the planner may emit
  Edits,          \* plans a human may put in the planner's place
  MaxIterations,  \* build_graph(max_iterations=...)
  MaxRuns         \* bound: queries sent to the thread

ASSUME PlansAssumption ==
  /\ Plans \subseteq Seq(Task(Id, Registry))
  /\ Edits \subseteq Seq(Task(Id, Registry))
ASSUME ToolsAssumption == Gated \subseteq Registry /\ Asking \subseteq Registry
ASSUME BoundsAssumption ==
  MaxIterations \in Nat \ {0} /\ MaxRuns \in Nat \ {0}

VARIABLES
  approve_plans, approve_levels, \* arguments of build_graph
  pc,           \* the node to execute next, or how the run was left
  paused,       \* that node is waiting for the human (single-task nodes)
  plan, levels, \* the current plan and its execution schedule
  cur,          \* current_level: how many levels are finished
  iteration,    \* planning rounds of this run
  results,      \* task id -> value, through the merge reducer
  rejected,     \* plan_rejected
  preapproved,  \* ids the level gate got approval for
  decision,     \* the joiner's last decision
  reason,       \* decision_reason, by who wrote it
  final,        \* the answer text, by whether there is one
  status, error,
  flight,       \* the branches of the run_task step: id -> payload and fate
  runs,         \* ghost: queries sent so far
  granted,      \* ghost: calls of the current plan the human approved
  refused,      \* ghost: calls of the current plan the human denied
  ran,          \* ghost: tool calls started under the current plan
  blessed       \* ghost: the last plan the human approved or wrote

agentState == <<plan, levels, cur, iteration, results, rejected, preapproved,
                decision, reason, final, status, error>>
ghosts == <<granted, refused, ran, blessed>>
flags == <<approve_plans, approve_levels>>
vars == <<flags, pc, paused, agentState, flight, runs, ghosts>>

Node == {"plan", "approve", "level_gate", "run_task", "advance", "join",
         "end", "raised"}

(* A result is text, an object, or a value that carries the failure        *)
(* marker: a tool error or a denial.                                       *)
Failures == {"fail", "denied"}
Outcomes == {"text", "obj", "fail"}
Value == {"text", "obj"} \cup Failures

Partial(S, T) == UNION {[D -> T] : D \in SUBSET S}

Args == Partial(Id, Value)
Call == [id : Id, tool : Registry, args : Args]
Branch == [args : Args, preapproved : BOOLEAN, arg_error : BOOLEAN,
           st : {"ready", "asked", "answered", "done"},
           out : Value \cup {"none"}]

TypeOK ==
  /\ approve_plans \in BOOLEAN /\ approve_levels \in BOOLEAN
  /\ pc \in Node
  /\ paused \in BOOLEAN
  /\ plan \in Seq(Task(Id, Registry))
  /\ levels \in Seq(SUBSET Id)
  /\ cur \in Nat
  /\ iteration \in Nat
  /\ DOMAIN results \subseteq Id /\ results \in [DOMAIN results -> Value]
  /\ rejected \in BOOLEAN
  /\ preapproved \subseteq Id
  /\ decision \in {"none", "finish", "replan", "error"}
  /\ reason \in {"none", "replan", "rejected", "stopped"}
  /\ final \in {"none", "answer"}
  /\ status \in {"none", "ok", "error"}
  /\ error \in BOOLEAN
  /\ DOMAIN flight \subseteq Id /\ flight \in [DOMAIN flight -> Branch]
  /\ runs \in Nat
  /\ granted \subseteq Call
  /\ refused \subseteq Call
  /\ ran \subseteq Call
  /\ blessed \in Seq(Task(Id, Registry))

Nothing == [i \in {} |-> "none"]

Init ==
  /\ approve_plans \in BOOLEAN /\ approve_levels \in BOOLEAN
  /\ pc = "plan"
  /\ paused = FALSE
  /\ plan = <<>>
  /\ levels = <<>>
  /\ cur = 0
  /\ iteration = 0
  /\ results = Nothing
  /\ rejected = FALSE
  /\ preapproved = {}
  /\ decision = "none"
  /\ reason = "none"
  /\ final = "none"
  /\ status = "none"
  /\ error = FALSE
  /\ flight = Nothing
  /\ runs = 1
  /\ granted = {}
  /\ refused = {}
  /\ ran = {}
  /\ blessed = <<>>

-----------------------------------------------------------------------------
(* Helpers of the nodes                                                    *)

HasError(res) == \E i \in DOMAIN res : res[i] \in Failures

TaskById(i) == ById(plan, i)

LevelAt(k) == IF k < Len(levels) THEN levels[k + 1] ELSE {}

NeedsApproval(tool) == tool \in Gated

(* The tasks of the current level the gate must ask about: not settled,    *)
(* and with arguments that resolve (the others fail when dispatched).      *)
GateItems ==
  IF HasError(results) THEN {}
  ELSE {i \in LevelAt(cur) :
          /\ i \notin preapproved
          /\ i \notin DOMAIN results
          /\ NeedsApproval(TaskById(i).tool)
          /\ Resolvable(TaskById(i), results)}

GateCall(i) == [id   |-> i,
                tool |-> TaskById(i).tool,
                args |-> SubstituteArgs(TaskById(i), results)]

(* A verdict on the gate's batch: one for every task, or one per task.     *)
Verdicts(items) ==
  [kind : {"all"}, ok : BOOLEAN] \cup [kind : {"decisions"}, ok : Partial(items, BOOLEAN)]

(* Mutant: a task left out of the decisions counts as approved.            *)
VerdictForMissing(v, i) ==
  IF v.kind = "decisions" THEN i \in DOMAIN v.ok => v.ok[i] ELSE v.ok

VerdictFor(v, i) ==
  IF v.kind = "decisions" THEN i \in DOMAIN v.ok /\ v.ok[i] ELSE v.ok

(* What the human said in so many words, whatever the code makes of it.    *)
SaidYes(v, i) ==
  \/ v.kind = "all" /\ v.ok
  \/ v.kind = "decisions" /\ i \in DOMAIN v.ok /\ v.ok[i]

Send(i, res, ok) ==
  LET t == TaskById(i) IN
  IF Resolvable(t, res)
  THEN [args |-> SubstituteArgs(t, res), preapproved |-> i \in ok,
        arg_error |-> FALSE, st |-> "ready", out |-> "none"]
  ELSE [args |-> Nothing, preapproved |-> FALSE,
        arg_error |-> TRUE, st |-> "ready", out |-> "none"]

(* Mutants: settled tasks are sent again; any failure stops the level; no  *)
(* failure stops it.                                                       *)
ToSendSettled(res) ==
  LET level == LevelAt(cur) IN
  IF HasError(Restrict(res, DOMAIN res \ level)) THEN {} ELSE level

ToSendNoSiblings(res) ==
  IF HasError(res) THEN {} ELSE LevelAt(cur) \ DOMAIN res

ToSendNoAbort(res) == LevelAt(cur) \ DOMAIN res

(* dispatch: the tasks of the current level that still have to run, or     *)
(* none when the levels are exhausted or an earlier level failed.          *)
ToSend(res) ==
  LET level == LevelAt(cur) IN
  IF HasError(Restrict(res, DOMAIN res \ level)) THEN {}
  ELSE level \ DOMAIN res

Dispatch(res, ok) ==
  /\ pc' = IF ToSend(res) = {} THEN "join" ELSE "run_task"
  /\ flight' = [i \in ToSend(res) |-> Send(i, res, ok)]

(* Mutant: only the first plan of a run is shown to the human.             *)
RoutePlanOnce(err) ==
  IF err THEN "end"
  ELSE IF approve_plans /\ iteration = 0 THEN "approve" ELSE "level_gate"

RoutePlan(err) ==
  IF err THEN "end" ELSE IF approve_plans THEN "approve" ELSE "level_gate"

RouteApprove(rej) ==
  IF rej THEN IF iteration < MaxIterations THEN "plan" ELSE "join"
  ELSE "level_gate"

RouteJoin(err, dec) ==
  IF err \/ dec = "finish" \/ iteration >= MaxIterations THEN "end" ELSE "plan"

-----------------------------------------------------------------------------
(* A plan takes effect: its levels, from the first.                        *)
Schedule(p) ==
  /\ plan' = p
  /\ levels' = TopologicalLevels(p)
  /\ cur' = 0

(* Mutant: the results of the previous plan stay.                          *)
KeepResults ==
  /\ results' = results
  /\ rejected' = FALSE
  /\ preapproved' = {}
  /\ granted' = {} /\ refused' = {} /\ ran' = {}

(* ... and nothing that belonged to the previous plan applies to it.       *)
FreshNamespace ==
  /\ results' = Nothing
  /\ rejected' = FALSE
  /\ preapproved' = {}
  /\ granted' = {} /\ refused' = {} /\ ran' = {}

(* planner.plan, when some attempt is a valid plan. It may use everything  *)
(* in the prompt: the query, the last results and the reason to replan.    *)
PlannerReturns(p) ==
  /\ ValidPlan(p, Registry)
  /\ Schedule(p)
  /\ iteration' = iteration + 1

(* Mutant: an earlier run's error is not cleared.                          *)
PlanNodeKeepsError(p) ==
  /\ pc = "plan"
  /\ PlannerReturns(p)
  /\ FreshNamespace
  /\ status' = "none"
  /\ error' = error
  /\ pc' = RoutePlan(error')
  /\ UNCHANGED <<paused, decision, reason, final, flight, runs, blessed>>

(* plan_node, when the planner returns.                                    *)
PlanNode(p) ==
  /\ pc = "plan"
  /\ PlannerReturns(p)
  /\ FreshNamespace
  /\ status' = "none"
  /\ error' = FALSE
  /\ pc' = RoutePlan(error')
  /\ UNCHANGED <<paused, decision, reason, final, flight, runs, blessed>>

(* plan_node, when no attempt gives one (or the prompt overflows): the run *)
(* ends, and only the plan itself is cleared.                              *)
PlanNodeFails ==
  /\ pc = "plan"
  /\ error' = TRUE
  /\ status' = "error"
  /\ final' = "none"
  /\ plan' = <<>>
  /\ levels' = <<>>
  /\ iteration' = iteration + 1
  /\ pc' = RoutePlan(error')
  /\ granted' = {} /\ refused' = {} /\ ran' = {}
  /\ UNCHANGED <<paused, cur, results, rejected, preapproved, decision, reason,
                 flight, runs, blessed>>

-----------------------------------------------------------------------------
(* approve_node. An edit is taken only when the verdict is not also an     *)
(* approval; an empty one counts as a rejection. An invalid edit raises    *)
(* out of the run and leaves the thread paused where it was: no step.      *)
ApprovePause ==
  /\ pc = "approve" /\ ~ paused
  /\ paused' = TRUE
  /\ UNCHANGED <<pc, agentState, flight, runs, ghosts>>

ApproveYes ==
  /\ pc = "approve" /\ paused
  /\ paused' = FALSE
  /\ rejected' = FALSE
  /\ pc' = RouteApprove(rejected')
  /\ blessed' = plan
  /\ UNCHANGED <<plan, levels, cur, iteration, results, preapproved, decision,
                 reason, final, status, error, flight, runs,
                 granted, refused, ran>>

ApproveEdit(p) ==
  /\ pc = "approve" /\ paused
  /\ p # <<>>
  /\ ValidPlan(p, Registry)
  /\ paused' = FALSE
  /\ Schedule(p)
  /\ FreshNamespace
  /\ pc' = RouteApprove(rejected')
  /\ blessed' = p
  /\ UNCHANGED <<iteration, decision, reason, final, status, error, flight, runs>>

ApproveNo ==
  /\ pc = "approve" /\ paused
  /\ paused' = FALSE
  /\ rejected' = TRUE
  /\ reason' = "rejected"
  /\ pc' = RouteApprove(rejected')
  /\ UNCHANGED <<plan, levels, cur, iteration, results, preapproved, decision,
                 final, status, error, flight, runs, ghosts>>

-----------------------------------------------------------------------------
(* level_gate_node and dispatch: pause once for the whole level, or go     *)
(* straight on.                                                            *)
LevelGatePass ==
  /\ pc = "level_gate" /\ ~ paused
  /\ GateItems = {}
  /\ Dispatch(results, preapproved)
  /\ UNCHANGED <<paused, agentState, runs, ghosts>>

LevelGatePause ==
  /\ pc = "level_gate" /\ ~ paused
  /\ GateItems # {}
  /\ paused' = TRUE
  /\ UNCHANGED <<pc, agentState, flight, runs, ghosts>>

LevelGateVerdict(v) ==
  LET ok == {i \in GateItems : VerdictFor(v, i)}
      denied == [i \in GateItems \ ok |-> "denied"]
  IN
  /\ pc = "level_gate" /\ paused
  /\ paused' = FALSE
  /\ preapproved' = preapproved \cup ok
  /\ results' = MergeResults(results, denied)
  /\ Dispatch(results', preapproved')
  /\ granted' = granted \cup {GateCall(i) : i \in {j \in GateItems : SaidYes(v, j)}}
  /\ refused' = refused \cup {GateCall(i) : i \in {j \in GateItems : ~ SaidYes(v, j)}}
  /\ UNCHANGED <<plan, levels, cur, iteration, rejected, decision, reason, final,
                 status, error, runs, ran, blessed>>

-----------------------------------------------------------------------------
(* run_task: one branch per task of the level.                             *)
TaskCall(i) == [id |-> i, tool |-> TaskById(i).tool, args |-> flight[i].args]

(* execute_tool asks at the call itself unless the gate already did.       *)
AsksInline(i) == NeedsApproval(TaskById(i).tool) /\ ~ flight[i].preapproved

Settle(i, v) == flight' = [flight EXCEPT ![i].st = "done", ![i].out = v]

Unresolved(i) ==
  /\ pc = "run_task" /\ i \in DOMAIN flight
  /\ flight[i].st = "ready" /\ flight[i].arg_error
  /\ Settle(i, "fail")
  /\ UNCHANGED <<pc, paused, agentState, runs, ghosts>>

(* The tool is called and returns, or raises: both are a result.           *)
RunTool(i) ==
  /\ pc = "run_task" /\ i \in DOMAIN flight
  /\ ~ flight[i].arg_error
  /\ \/ flight[i].st = "ready" /\ ~ AsksInline(i)
     \/ flight[i].st = "answered"
  /\ ran' = ran \cup {TaskCall(i)}
  /\ \E v \in Outcomes : Settle(i, v)
  /\ UNCHANGED <<pc, paused, agentState, runs, granted, refused, blessed>>

(* An interrupt in the branch pauses that branch only. A tool asks at most *)
(* once per call here.                                                     *)
TaskAsks(i) ==
  /\ pc = "run_task" /\ i \in DOMAIN flight
  /\ ~ flight[i].arg_error
  /\ flight[i].st = "ready"
  /\ AsksInline(i) \/ TaskById(i).tool \in Asking
  /\ flight' = [flight EXCEPT ![i].st = "asked"]
  /\ ran' = IF AsksInline(i) THEN ran ELSE ran \cup {TaskCall(i)}
  /\ UNCHANGED <<pc, paused, agentState, runs, granted, refused, blessed>>

Asked == {i \in DOMAIN flight : flight[i].st = "asked"}

(* Mutant: the run is resumed only if every branch paused.                 *)
WaitsForAll ==
  /\ pc = "run_task"
  /\ Asked # {}
  /\ \A i \in DOMAIN flight : flight[i].st = "asked"

(* Control is back with the caller once every branch is done or paused.    *)
WaitsForAnswers ==
  /\ pc = "run_task"
  /\ Asked # {}
  /\ \A i \in DOMAIN flight : flight[i].st \in {"asked", "done"}

(* aresume_graph: every pending interrupt is answered at once; answering   *)
(* only some of them is an error that changes nothing.                     *)
AnswerTasks(says) ==
  LET denies == {i \in Asked : AsksInline(i) /\ ~ says[i]}
      grants == {i \in Asked : AsksInline(i) /\ says[i]}
  IN
  /\ WaitsForAnswers
  /\ flight' = [i \in DOMAIN flight |->
                  IF i \in denies
                  THEN [flight[i] EXCEPT !.st = "done", !.out = "denied"]
                  ELSE IF i \in Asked THEN [flight[i] EXCEPT !.st = "answered"]
                  ELSE flight[i]]
  /\ granted' = granted \cup {TaskCall(i) : i \in grants}
  /\ refused' = refused \cup {TaskCall(i) : i \in denies}
  /\ UNCHANGED <<pc, paused, agentState, runs, ran, blessed>>

(* The step ends when every branch has returned: their partial results are *)
(* merged into the channel, and advance runs once.                         *)
Barrier ==
  /\ pc = "run_task"
  /\ \A i \in DOMAIN flight : flight[i].st = "done"
  /\ results' = MergeResults(results, [i \in DOMAIN flight |-> flight[i].out])
  /\ flight' = Nothing
  /\ pc' = "advance"
  /\ UNCHANGED <<paused, plan, levels, cur, iteration, rejected, preapproved,
                 decision, reason, final, status, error, runs, ghosts>>

-----------------------------------------------------------------------------
(* advance_node: the cursor moves on, after a review if levels are         *)
(* reviewed. A rejected review goes back to the planner.                   *)
Advance ==
  /\ pc = "advance" /\ ~ approve_levels
  /\ cur' = cur + 1
  /\ pc' = "level_gate"
  /\ UNCHANGED <<paused, plan, levels, iteration, results, rejected, preapproved,
                 decision, reason, final, status, error, flight, runs, ghosts>>

ReviewPause ==
  /\ pc = "advance" /\ approve_levels /\ ~ paused
  /\ paused' = TRUE
  /\ UNCHANGED <<pc, agentState, flight, runs, ghosts>>

ReviewYes ==
  /\ pc = "advance" /\ paused
  /\ paused' = FALSE
  /\ cur' = cur + 1
  /\ pc' = RouteApprove(rejected)
  /\ UNCHANGED <<plan, levels, iteration, results, rejected, preapproved,
                 decision, reason, final, status, error, flight, runs, ghosts>>

ReviewNo ==
  /\ pc = "advance" /\ paused
  /\ paused' = FALSE
  /\ cur' = cur + 1
  /\ rejected' = TRUE
  /\ reason' = "stopped"
  /\ pc' = RouteApprove(rejected')
  /\ UNCHANGED <<plan, levels, iteration, results, preapproved, decision, final,
                 status, error, flight, runs, ghosts>>

-----------------------------------------------------------------------------
(* joiner.join, when some attempt is a decision: parse_decision checks     *)
(* nothing but its kind. A finish may come without an answer, a replan     *)
(* without a reason or with an answer, and "replan" passes also in the     *)
(* last round, where only the schema sent to the model rules it out.       *)
JoinerReturns(dec) ==
  /\ decision' = dec
  /\ final' \in {"none", "answer"}
  /\ reason' \in {"none", "replan"}

(* join_node.                                                              *)
JoinFinish ==
  /\ pc = "join"
  /\ JoinerReturns("finish")
  /\ status' = "ok"
  /\ pc' = RouteJoin(error, decision')
  /\ UNCHANGED <<paused, plan, levels, cur, iteration, results, rejected,
                 preapproved, error, flight, runs, ghosts>>

JoinReplan ==
  /\ pc = "join"
  /\ JoinerReturns("replan")
  /\ pc' = RouteJoin(error, decision')
  /\ UNCHANGED <<paused, plan, levels, cur, iteration, results, rejected,
                 preapproved, status, error, flight, runs, ghosts>>

JoinFails ==
  /\ pc = "join"
  /\ error' = TRUE
  /\ status' = "error"
  /\ final' = "none"
  /\ decision' = "error"
  /\ pc' = RouteJoin(error', decision')
  /\ UNCHANGED <<paused, plan, levels, cur, iteration, results, rejected,
                 preapproved, reason, flight, runs, ghosts>>

-----------------------------------------------------------------------------
(* Only a PlanError ends the run gracefully -- bad output, a prompt that   *)
(* overflows. Any other error of the client leaves plan_node or join_node: *)
(* the caller gets it, and the thread stays as it was before the node.     *)
NodeRaises ==
  /\ pc \in {"plan", "join"}
  /\ pc' = "raised"
  /\ UNCHANGED <<paused, agentState, flight, runs, ghosts>>

-----------------------------------------------------------------------------
(* Control is with the caller.                                             *)
Idle == pc \in {"end", "raised"} \/ paused \/ WaitsForAnswers

(* Mutant: the input does not reset the status.                            *)
NewRunKeepsStatus ==
  /\ Idle
  /\ runs < MaxRuns
  /\ runs' = runs + 1
  /\ iteration' = 0
  /\ pc' = "plan"
  /\ paused' = FALSE
  /\ flight' = Nothing
  /\ UNCHANGED <<plan, levels, cur, results, rejected, preapproved, decision,
                 reason, final, status, error, ghosts>>

(* arun_graph: another query on the thread, after a run ended or raised,   *)
(* or in place of answering one that is paused. Only the input channels    *)
(* are reset.                                                              *)
NewRun ==
  /\ Idle
  /\ runs < MaxRuns
  /\ runs' = runs + 1
  /\ iteration' = 0
  /\ status' = "none"
  /\ pc' = "plan"
  /\ paused' = FALSE
  /\ flight' = Nothing
  /\ UNCHANGED <<plan, levels, cur, results, rejected, preapproved, decision,
                 reason, final, error, ghosts>>

MachineStep ==
  \/ \E p \in Plans : PlanNode(p)
  \/ PlanNodeFails
  \/ ApprovePause
  \/ LevelGatePass \/ LevelGatePause
  \/ \E i \in Id : Unresolved(i) \/ RunTool(i) \/ TaskAsks(i)
  \/ Barrier
  \/ Advance \/ ReviewPause
  \/ JoinFinish \/ JoinReplan \/ JoinFails \/ NodeRaises

HumanStep ==
  \/ ApproveYes \/ ApproveNo
  \/ \E p \in Edits : ApproveEdit(p)
  \/ \E v \in Verdicts(GateItems) : LevelGateVerdict(v)
  \/ \E says \in [Asked -> BOOLEAN] : AnswerTasks(says)
  \/ ReviewYes \/ ReviewNo

Machine == MachineStep /\ UNCHANGED flags
Human == HumanStep /\ UNCHANGED flags

Next == Machine \/ Human \/ (NewRun /\ UNCHANGED flags)

Spec == Init /\ [][Next]_vars

(* The event loop runs a node that is due, and a human who is asked gives  *)
(* some verdict in the end; nobody has to send another query.              *)
FairSpec == Spec /\ WF_vars(Machine) /\ WF_vars(Human)

-----------------------------------------------------------------------------
(* Safety                                                                  *)

(* No tool that requires approval is started unless the human approved     *)
(* that very call -- task, tool and arguments -- under the plan in effect  *)
(* (level_gate_node, execute_tool).                                        *)
ApprovedBeforeRun == {c \in ran : NeedsApproval(c.tool)} \subseteq granted

(* A task the human denied -- or left out of the decisions -- is never     *)
(* started under that plan, and is never asked about again.                *)
DeniedNeverRuns ==
  /\ \A c \in ran, d \in refused : c.id # d.id
  /\ pc = "level_gate" /\ paused =>
       \A i \in GateItems, c \in granted \cup refused : c.id # i

(* An approval is not lost either: by the time its level is over, every    *)
(* call the human approved has been made -- a denied sibling does not take *)
(* it along (dispatch).                                                    *)
ApprovalIsUsed ==
  pc \in {"advance", "join", "end"} => granted \subseteq ran

(* Once a level is fanned out no branch stops for an approval: the gate    *)
(* asked for all of them before (graph.py, "never mid-fan-out").           *)
NoApprovalMidFanOut ==
  \A i \in DOMAIN flight : AsksInline(i) => flight[i].arg_error

(* A task starts only when every task of every earlier level has a result  *)
(* and none of them failed: early abort, and the barrier between levels.   *)
RunsOnCleanLevels ==
  \A c \in ran : \A k \in DOMAIN levels : c.id \in levels[k] =>
    \A l \in 1 .. k - 1 : \A i \in levels[l] :
      i \in DOMAIN results /\ results[i] \notin Failures

(* The results are those of the plan in effect, exactly as far as the      *)
(* cursor says: nothing left over from an earlier plan, nothing lost by a  *)
(* branch that paused while its siblings finished -- and all there are     *)
(* when the joiner is asked, unless a failure or the human cut the plan    *)
(* short (dispatch).                                                       *)
ResultsMatchCursor ==
  ~ error =>
    /\ DOMAIN results \subseteq UNION {levels[k] : k \in 1 .. cur + 1 \cap DOMAIN levels}
    /\ UNION {levels[k] : k \in 1 .. cur \cap DOMAIN levels} \subseteq DOMAIN results
    /\ pc = "join" /\ ~ rejected /\ ~ HasError(results) => DOMAIN results = Ids(plan)

(* With approve_plans, every tool call belongs to the plan the human       *)
(* approved or wrote -- never to one replaced or rejected.                 *)
OnlyBlessedPlansRun == approve_plans /\ ran # {} => blessed = plan

(* How the run ended is what the contract says: "ok" only when the joiner  *)
(* finished, "error" exactly with a reason and no answer, and no status    *)
(* only at the replan cap, which no round goes beyond, whoever asks for it *)
(* -- also on a thread whose earlier run ended otherwise.                  *)
EndStatus ==
  /\ iteration <= MaxIterations
  /\ pc = "end" =>
    /\ status = "ok" => decision = "finish"
    /\ (status = "error") <=> error
    /\ status = "error" => final = "none"
    /\ status = "none" => decision = "replan" /\ iteration >= MaxIterations

(* To whoever runs it, the agent is an agent of the contract.              *)
Phase ==
  IF pc = "end" THEN "ended"
  ELSE IF pc = "raised" THEN "raised"
  ELSE IF paused \/ WaitsForAnswers THEN "waiting" ELSE "running"

Contract == INSTANCE AgentContract WITH phase <- Phase

(* Every run of the graph is a run of the contract: its status is written  *)
(* as it ends, a new query clears it, and it waits for the human exactly   *)
(* when a node is paused or every branch that is left has asked.           *)
ImplementsContract == Contract!Spec

(* Liveness *)

(* Every run ends or raises, provided the human answers when asked.        *)
RunsEnd == pc \notin {"end", "raised"} ~> pc \in {"end", "raised"}
=============================================================================
