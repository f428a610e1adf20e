-------------------------------- MODULE React --------------------------------
(***************************************************************************)
(* The ReAct agent (react/graph.py, react/policy.py) on one conversation   *)
(* thread: reason decides one action, act carries it out and appends the   *)
(* observation to the scratchpad, until the model finishes or max_steps.   *)
(*                                                                         *)
(* A node that interrupts is executed again from its start each time the   *)
(* run is resumed: interrupt() returns the answers given so far, in order, *)
(* and pauses at the first one that is missing. So act is one action, Act, *)
(* of a node that has the answers in resumed, taken again after each       *)
(* answer.                                                                 *)
(***************************************************************************)
EXTENDS Integers, Sequences, FiniteSets

CONSTANTS
  Tools,        \* registered tools
  Gated,        \* tools with requires_approval
  Questions,    \* tool -> how often a call of it interrupts inside
  Harness,      \* harness tools the context policy enables
  Unknown,      \* a tool name that is neither
  MaxSteps,     \* build_react_agent(max_steps=...)
  CompactKeep,  \* compact_keep_recent
  Compacts,     \* whether the policy sets compact_at_chars
  MaxRuns       \* bound: queries sent to the thread

(* ContextPolicy.check refuses a registry that clashes with harness tools. *)
ASSUME ToolsAssumption ==
  /\ Gated \subseteq Tools
  /\ Questions \in [Tools -> Nat]
  /\ Harness \cap Tools = {}
  /\ Unknown \notin Tools \cup Harness
ASSUME BoundsAssumption ==
  /\ MaxSteps \in Nat \ {0}
  /\ CompactKeep \in Nat
  /\ Compacts \in BOOLEAN
  /\ MaxRuns \in Nat \ {0}

VARIABLES
  pc,          \* "reason", "act", "end", or "raised": the caller got an exception
  paused,      \* act is waiting for the human
  resumed,     \* answers to the interrupts of the act in hand, in order
  action,      \* the last action: its kind, tool, and whether args is an object
  iteration,   \* reasoning steps of this run
  scratchpad,  \* one step per act: how its tool came out
  notes,       \* how many notes were written
  summary,     \* compaction: the steps the running summary tells of
  upto,        \* summarized_upto
  final, result, error,  \* by the run that wrote them; 0: empty
  status,
  run,         \* ghost: queries sent so far
  acts,        \* ghost: steps appended in this run
  entered,     \* ghost: how often the tool of the act in hand was entered
  folded       \* ghost: step -> how often it was given to the compactor

memory == <<notes, summary, upto, folded>>
vars == <<pc, paused, resumed, action, iteration, scratchpad, memory,
          final, result, error, status, run, acts, entered>>

Names == Tools \cup Harness \cup {Unknown}

(* What parse_action lets through: a finish, or a tool name with args of   *)
(* any shape.                                                              *)
NoAction == [kind |-> "none", tool |-> Unknown, object |-> TRUE]
Finish == [kind |-> "finish", tool |-> Unknown, object |-> TRUE]
ToolCalls == [kind : {"tool"}, tool : Names, object : BOOLEAN]

Observation == {"ok", "failure", "denied"}

TypeOK ==
  /\ pc \in {"reason", "act", "end", "raised"}
  /\ paused \in BOOLEAN
  /\ resumed \in Seq({"yes", "no"})
  /\ action \in {NoAction, Finish} \cup ToolCalls
  /\ iteration \in Nat
  /\ scratchpad \in Seq(Observation)
  /\ notes \in Nat
  /\ upto \in Nat
  /\ summary \subseteq 1 .. Len(scratchpad)
  /\ folded \in [1 .. Len(scratchpad) -> Nat]
  /\ {final, result, error} \subseteq 0 .. run
  /\ status \in {"none", "ok", "error"}
  /\ run \in Nat
  /\ acts \in Nat
  /\ entered \in Nat

Init ==
  /\ pc = "reason"
  /\ paused = FALSE
  /\ resumed = <<>>
  /\ action = NoAction
  /\ iteration = 0
  /\ scratchpad = <<>>
  /\ notes = 0
  /\ summary = {}
  /\ upto = 0
  /\ final = 0 /\ result = 0 /\ error = 0
  /\ status = "none"
  /\ run = 1
  /\ acts = 0
  /\ entered = 0
  /\ folded = <<>>

-----------------------------------------------------------------------------
(* compact: the older steps may be folded into the summary when the prompt *)
(* has grown too long -- here, whenever there is one to fold. The model's  *)
(* reply is trusted as it is: an empty one loses the summary.              *)
NewUpto == IF Len(scratchpad) > CompactKeep THEN Len(scratchpad) - CompactKeep ELSE 0

CompactDue == Compacts /\ NewUpto > upto

NoCompaction == UNCHANGED <<summary, upto, folded>>

(* Mutant: the fold starts at the last step that was already folded.       *)
FoldAgain ==
  LET chunk == (IF upto = 0 THEN 1 ELSE upto) .. NewUpto IN
  /\ CompactDue
  /\ summary' \in {summary \cup chunk, {}}
  /\ upto' = NewUpto
  /\ folded' = [i \in DOMAIN folded |-> IF i \in chunk THEN folded[i] + 1 ELSE folded[i]]

Fold ==
  LET chunk == upto + 1 .. NewUpto IN
  /\ CompactDue
  /\ summary' \in {summary \cup chunk, {}}
  /\ upto' = NewUpto
  /\ folded' = [i \in DOMAIN folded |-> IF i \in chunk THEN folded[i] + 1 ELSE folded[i]]

(* An overflow is caught around the policy's own call only, and any other  *)
(* error of a client nowhere: reason raises, and has changed nothing.      *)
ReasonRaises ==
  /\ pc = "reason"
  /\ pc' = "raised"
  /\ UNCHANGED <<paused, resumed, action, iteration, scratchpad, memory,
                 final, result, error, status, run, acts, entered>>

-----------------------------------------------------------------------------
(* reason, and route on its outgoing edge                                  *)

Route(a, it) ==
  IF a.kind = "finish" \/ it >= MaxSteps THEN "end" ELSE "act"

Decide(a) ==
  /\ pc = "reason"
  /\ Fold \/ NoCompaction
  /\ action' = a
  /\ iteration' = iteration + 1
  /\ pc' = Route(a, iteration')
  /\ resumed' = <<>>
  /\ entered' = 0
  /\ UNCHANGED <<paused, scratchpad, notes, run, acts>>

(* The model finishes, with a structured result or without; the answer is  *)
(* final, or what the result says when final is empty, or empty.           *)
ReasonFinish ==
  /\ Decide(Finish)
  /\ status' = "ok"
  /\ result' \in {result, run}
  /\ final' \in {0, run}
  /\ UNCHANGED error

ReasonTool ==
  /\ \E a \in ToolCalls : Decide(a)
  /\ status' = "none"
  /\ UNCHANGED <<final, result, error>>

(* Mutant: the answer of an earlier run stays.                             *)
ReasonGivesUpKeepsFinal ==
  /\ Decide(Finish)
  /\ status' = "error"
  /\ error' = run
  /\ UNCHANGED <<final, result>>

(* No attempt gave a valid action, or the prompt overflowed: a finish with *)
(* an error in place of an answer.                                         *)
ReasonGivesUp ==
  /\ Decide(Finish)
  /\ status' = "error"
  /\ error' = run
  /\ final' = 0
  /\ UNCHANGED result

-----------------------------------------------------------------------------
(* act                                                                     *)
Observe(out) ==
  /\ scratchpad' = Append(scratchpad, out)
  /\ folded' = Append(folded, 0)
  /\ acts' = acts + 1
  /\ pc' = "reason"
  /\ UNCHANGED <<paused, resumed, action, iteration, summary, upto,
                 final, result, error, status, run>>

(* A harness tool reads or writes the run's own state: it answers, or says *)
(* what is wrong with the call (a step that does not exist, an empty note, *)
(* no such skill). Only notes_write changes anything here; the names       *)
(* tool_search finds only change the prompt.                               *)
HarnessTool ==
  /\ pc = "act"
  /\ action.tool \in Harness
  /\ action.object
  /\ \/ /\ Observe("ok")
        /\ notes' = IF action.tool = "notes_write" THEN notes + 1 ELSE notes
     \/ /\ Observe("failure")
        /\ UNCHANGED notes
  /\ UNCHANGED entered

(* ... but it takes args for an object, outside any try.                   *)
HarnessRaises ==
  /\ pc = "act"
  /\ action.tool \in Harness
  /\ ~ action.object
  /\ pc' = "raised"
  /\ UNCHANGED <<paused, resumed, action, iteration, scratchpad, memory,
                 final, result, error, status, run, acts, entered>>

(* Mutant: any answer to the gate counts as a yes.                         *)
GateSaysAnything ==
  IF action.tool \notin Gated \/ resumed # <<>> THEN "yes" ELSE "ask"

(* execute_tool: the gate's verdict is the first answer of the act.        *)
GateSays ==
  IF action.tool \notin Gated THEN "yes"
  ELSE IF resumed = <<>> THEN "ask" ELSE resumed[1]

(* Answers left for the tool itself.                                       *)
Told == Len(resumed) - (IF action.tool \in Gated THEN 1 ELSE 0)

Calls == pc = "act" /\ ~ paused /\ action.tool \notin Harness

(* Mutant: the interrupt is swallowed and the node tried again.            *)
ActAsksNobody == Calls /\ GateSays = "ask" /\ UNCHANGED vars

(* The gate is still to be asked.                                          *)
ActAsks ==
  /\ Calls
  /\ GateSays = "ask"
  /\ paused' = TRUE
  /\ UNCHANGED <<pc, resumed, action, iteration, scratchpad, memory,
                 final, result, error, status, run, acts, entered>>

ActDenied ==
  /\ Calls
  /\ GateSays = "no"
  /\ Observe("denied")
  /\ UNCHANGED <<notes, entered>>

(* An unknown tool, or args that are no object: an error the model sees.   *)
ActUncallable ==
  /\ Calls
  /\ GateSays = "yes"
  /\ action.tool = Unknown \/ ~ action.object
  /\ Observe("failure")
  /\ UNCHANGED <<notes, entered>>

Callable == action.tool \in Tools /\ action.object

(* The tool runs up to a question that has no answer yet...                *)
ActQuestion ==
  /\ Calls
  /\ GateSays = "yes"
  /\ Callable
  /\ Told < Questions[action.tool]
  /\ entered' = entered + 1
  /\ paused' = TRUE
  /\ UNCHANGED <<pc, resumed, action, iteration, scratchpad, memory,
                 final, result, error, status, run, acts>>

(* ... or to its end: a result, or an exception recorded as one.           *)
ActReturns ==
  /\ Calls
  /\ GateSays = "yes"
  /\ Callable
  /\ Told = Questions[action.tool]
  /\ entered' = entered + 1
  /\ \E out \in {"ok", "failure"} : Observe(out)
  /\ UNCHANGED notes

-----------------------------------------------------------------------------

(* aresume_graph: the human answers the one pending interrupt.             *)
Answer(a) ==
  /\ paused
  /\ paused' = FALSE
  /\ resumed' = Append(resumed, a)
  /\ UNCHANGED <<pc, action, iteration, scratchpad, memory,
                 final, result, error, status, run, acts, entered>>

(* Mutants: the input does not reset the status, or the step counter.      *)
NewRunKeepsStatus ==
  /\ pc \in {"end", "raised"} \/ paused
  /\ run < MaxRuns
  /\ run' = run + 1
  /\ iteration' = 0
  /\ pc' = "reason"
  /\ paused' = FALSE
  /\ resumed' = <<>>
  /\ acts' = 0
  /\ entered' = 0
  /\ UNCHANGED <<action, scratchpad, memory, final, result, error, status>>

NewRunKeepsIteration ==
  /\ pc \in {"end", "raised"} \/ paused
  /\ run < MaxRuns
  /\ run' = run + 1
  /\ pc' = "reason"
  /\ paused' = FALSE
  /\ resumed' = <<>>
  /\ status' = "none"
  /\ acts' = 0
  /\ entered' = 0
  /\ UNCHANGED <<iteration, action, scratchpad, memory, final, result, error>>

(* arun_graph: another query, also in place of an answer or after an       *)
(* exception. The scratchpad and what was summarised of it stay.           *)
NewRun ==
  /\ pc \in {"end", "raised"} \/ paused
  /\ run < MaxRuns
  /\ run' = run + 1
  /\ iteration' = 0
  /\ pc' = "reason"
  /\ paused' = FALSE
  /\ resumed' = <<>>
  /\ status' = "none"
  /\ acts' = 0
  /\ entered' = 0
  /\ UNCHANGED <<action, scratchpad, memory, final, result, error>>

Machine ==
  \/ ReasonRaises \/ ReasonFinish \/ ReasonTool \/ ReasonGivesUp
  \/ HarnessTool \/ HarnessRaises
  \/ ActAsks \/ ActDenied \/ ActUncallable \/ ActQuestion \/ ActReturns

Human == \E a \in {"yes", "no"} : Answer(a)

Next == Machine \/ Human \/ NewRun

Spec == Init /\ [][Next]_vars

(* The event loop runs the node that is due; the human answers in the end. *)
FairSpec == Spec /\ WF_vars(Machine) /\ WF_vars(Human)

-----------------------------------------------------------------------------
(* Every decision to use a tool leaves exactly one observation, however    *)
(* often its node was executed again for a pause, and a run never calls    *)
(* more tools than max_steps - 1 (act_node, route).                        *)
StepPerAct ==
  /\ pc = "reason" => acts = iteration
  /\ pc \in {"act", "end"} => acts = iteration - 1
  /\ acts < MaxSteps

(* No call of a gated tool is entered before the human said yes to the     *)
(* gate's question -- not to a question the tool asks later -- and a call  *)
(* the human denied is never entered (execute_tool).                       *)
GateBeforeEntry ==
  action.tool \in Gated /\ entered > 0 => resumed # <<>> /\ resumed[1] = "yes"

(* A tool that asks nothing itself is entered once for its action, gate or *)
(* not; one that asks is entered again for each answer, never more.        *)
EnteredOnce ==
  action.tool \in Tools => entered <= Questions[action.tool] + 1

(* The two together: however often act is executed again, calls are made   *)
(* as they were approved, and as often as they ask.                        *)
EntersAsAllowed == GateBeforeEntry /\ EnteredOnce

(* The compactor is given every step once, in time: what it was not given  *)
(* is shown as it is, and the newest steps always are (compact).           *)
FoldedOnce ==
  /\ \A i \in DOMAIN folded : folded[i] = IF i <= upto THEN 1 ELSE 0
  /\ summary \subseteq 1 .. upto
  /\ upto > 0 => upto + CompactKeep <= Len(scratchpad)

(* How a run ended is told by its status alone, on a thread of any age:    *)
(* capped exactly when the last action is a tool call that was not made.   *)
EndStatus ==
  pc = "end" =>
    /\ (status = "none") <=> (action.kind = "tool")
    /\ status = "none" => iteration = MaxSteps
    /\ status = "error" => error = run /\ final = 0
    /\ status = "ok" => final \in {0, run}

(* To whoever runs it, the agent is an agent of the contract.              *)
Phase ==
  IF pc = "end" THEN "ended"
  ELSE IF pc = "raised" THEN "raised"
  ELSE IF paused THEN "waiting" ELSE "running"

Contract == INSTANCE AgentContract WITH phase <- Phase

(* Every run of the loop is a run of the contract: its status is written   *)
(* as it ends, a new query clears it, and only a pause waits for a human.  *)
ImplementsContract == Contract!Spec

(* Every run ends or raises, provided the human answers when asked: the    *)
(* loop is bounded by max_steps, and no answer makes a tool ask for ever.  *)
RunsEnd == pc \in {"reason", "act"} ~> pc \in {"end", "raised"}
=============================================================================
