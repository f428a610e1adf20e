------------------------------- MODULE Workflow -------------------------------
(***************************************************************************)
(* What the five workflow patterns (patterns/workflows.py) share: the      *)
(* channels of the contract, and steps whose branches each make one tool   *)
(* call through execute_tool (core/execution.py).                          *)
(*                                                                         *)
(* A branch that interrupts pauses alone and is executed again from its    *)
(* start with the answers it was given; one that is done is not. A step    *)
(* with one branch is a plain node.                                        *)
(***************************************************************************)
EXTENDS Naturals, Sequences

CONSTANTS
  Tools,      \* registered tools
  Gated,      \* tools with requires_approval
  Questions,  \* tool -> how often a call of it interrupts inside
  Writing,    \* tools with writes=True
  Overflows,  \* whether a prompt may exceed the model's context
  MaxRuns     \* bound: queries sent to the thread

ASSUME ToolsAssumption ==
  /\ Gated \subseteq Tools
  /\ Writing \subseteq Tools
  /\ Questions \in [Tools -> Nat]
ASSUME RunsAssumption == MaxRuns \in Nat \ {0} /\ Overflows \in BOOLEAN

VARIABLES
  pc,                    \* the node to execute next, "end", or "raised"
  calls,                 \* the branches of the step: index -> the call made
  iteration,
  final, result, error,  \* by the run that wrote them; 0: empty
  status,
  run                    \* ghost: queries sent so far

answer == <<final, result, error>>
base == <<pc, calls, iteration, answer, status, run>>

Outcome == {"value", "failure", "denied"}

Failed(out) == out \in {"failure", "denied"}

Calls == [tool : Tools, readonly : BOOLEAN, told : Seq({"yes", "no"}),
          st : {"ready", "asked", "done"}, out : Outcome \cup {"none"}, entered : Nat]

NoCalls == [b \in {} |-> "none"]

Call(tool, readonly) ==
  [tool |-> tool, readonly |-> readonly, told |-> <<>>, st |-> "ready",
   out |-> "none", entered |-> 0]

BaseTypeOK(nodes) ==
  /\ pc \in nodes \cup {"end", "raised"}
  /\ calls \in [DOMAIN calls -> Calls]
  /\ iteration \in Nat
  /\ {final, result, error} \subseteq 0 .. run
  /\ status \in {"none", "ok", "error"}
  /\ run \in 1 .. MaxRuns

BaseInit(first) ==
  /\ pc = first
  /\ calls = NoCalls
  /\ iteration = 0
  /\ final = 0 /\ result = 0 /\ error = 0
  /\ status = "none"
  /\ run = 1

-----------------------------------------------------------------------------
(* One call: execute_tool, up to where it has to wait.                     *)
Ready(b) == b \in DOMAIN calls /\ calls[b].st = "ready"

Becomes(b, call) ==
  /\ calls' = [calls EXCEPT ![b] = call]
  /\ UNCHANGED <<pc, iteration, answer, status, run>>

(* A call is over, with this outcome.                                      *)
Returns(c, out) == [c EXCEPT !.st = "done", !.out = out]

(* A tool with side effects inside a read-only sub-agent.                  *)
Refuses(c) == c.readonly /\ c.tool \in Writing

(* The gate's verdict is the first answer of the call.                     *)
GateSays(c) ==
  IF c.tool \notin Gated THEN "yes" ELSE IF c.told = <<>> THEN "ask" ELSE c.told[1]

(* Questions of the tool that are still without an answer.                 *)
Asks(c) == Len(c.told) - (IF c.tool \in Gated THEN 1 ELSE 0) < Questions[c.tool]

CallRefused(b) ==
  /\ Ready(b)
  /\ Refuses(calls[b])
  /\ Becomes(b, Returns(calls[b], "failure"))

CallAsks(b) ==
  /\ Ready(b)
  /\ ~ Refuses(calls[b])
  /\ GateSays(calls[b]) = "ask"
  /\ Becomes(b, [calls[b] EXCEPT !.st = "asked"])

CallDenied(b) ==
  /\ Ready(b)
  /\ ~ Refuses(calls[b])
  /\ GateSays(calls[b]) = "no"
  /\ Becomes(b, Returns(calls[b], "denied"))

(* The tool runs up to a question, or to its end: a value, or an exception *)
(* recorded as a failure.                                                  *)
CallEnters(b) ==
  LET c == [calls[b] EXCEPT !.entered = @ + 1] IN
  /\ Ready(b)
  /\ ~ Refuses(calls[b])
  /\ GateSays(calls[b]) = "yes"
  /\ IF Asks(c) THEN Becomes(b, [c EXCEPT !.st = "asked"])
     ELSE \E out \in {"value", "failure"} : Becomes(b, Returns(c, out))

BranchStep(b) == CallRefused(b) \/ CallAsks(b) \/ CallDenied(b) \/ CallEnters(b)

CallStep == \E b \in DOMAIN calls : BranchStep(b)

(* The step is over when every branch has returned.                        *)
AllReturned == DOMAIN calls # {} /\ \A b \in DOMAIN calls : calls[b].st = "done"

-----------------------------------------------------------------------------
(* The human                                                               *)
Asked == {b \in DOMAIN calls : calls[b].st = "asked"}

Waiting == Asked # {} /\ \A b \in DOMAIN calls : ~ Ready(b)

(* Mutant: the answers given before are forgotten.                         *)
AnswerForgets(says) ==
  /\ Waiting
  /\ calls' = [b \in DOMAIN calls |->
                 IF b \in Asked
                 THEN [calls[b] EXCEPT !.st = "ready", !.told = <<says[b]>>]
                 ELSE calls[b]]
  /\ UNCHANGED <<pc, iteration, answer, status, run>>

(* Mutant: a verdict can only answer a single pending interrupt.           *)
AnswerOne(says) ==
  /\ Waiting
  /\ \A b, c \in Asked : b = c
  /\ calls' = [b \in DOMAIN calls |->
                 IF b \in Asked
                 THEN [calls[b] EXCEPT !.st = "ready", !.told = Append(@, says[b])]
                 ELSE calls[b]]
  /\ UNCHANGED <<pc, iteration, answer, status, run>>

(* aresume_graph: every pending interrupt is answered at once.             *)
Answer(says) ==
  /\ Waiting
  /\ calls' = [b \in DOMAIN calls |->
                 IF b \in Asked
                 THEN [calls[b] EXCEPT !.st = "ready", !.told = Append(@, says[b])]
                 ELSE calls[b]]
  /\ UNCHANGED <<pc, iteration, answer, status, run>>

Human == \E says \in [Asked -> {"yes", "no"}] : Answer(says)

-----------------------------------------------------------------------------
(* A run                                                                   *)

(* Mutant: the input does not reset the status.                            *)
StartRunKeepsStatus(first) ==
  /\ pc \in {"end", "raised"} \/ Waiting
  /\ run < MaxRuns
  /\ run' = run + 1
  /\ pc' = first
  /\ calls' = NoCalls
  /\ iteration' = 0
  /\ UNCHANGED <<answer, status>>

(* arun_graph: a query to a thread that is not being worked on. Only the   *)
(* input channels are reset.                                               *)
StartRun(first) ==
  /\ pc \in {"end", "raised"} \/ Waiting
  /\ run < MaxRuns
  /\ run' = run + 1
  /\ pc' = first
  /\ calls' = NoCalls
  /\ iteration' = 0
  /\ status' = "none"
  /\ UNCHANGED answer

(* Mutant: the answer of an earlier run is not overwritten.                *)
EndedWithKeepsFinal ==
  /\ status' = "error"
  /\ error' = run
  /\ UNCHANGED <<final, result>>

(* _ended_with: the run ends with a reason in place of an answer.          *)
EndedWith ==
  /\ status' = "error"
  /\ error' = run
  /\ final' = 0
  /\ UNCHANGED result

(* The run ends with an answer.                                            *)
EndsOk ==
  /\ status' = "ok"
  /\ final' = run
  /\ UNCHANGED error

(* An exception leaves the thread as it was before the step.               *)
Raises ==
  /\ pc' = "raised"
  /\ UNCHANGED <<calls, iteration, answer, status, run>>

-----------------------------------------------------------------------------
(* Properties every pattern has                                            *)

(* No gated tool is entered before the human said yes to that call, and a  *)
(* denied call is never entered, however many branches ask at the same     *)
(* time and whatever the tool asks later (execute_tool).                   *)
GateBeforeEntry ==
  \A b \in DOMAIN calls : calls[b].tool \in Gated /\ calls[b].entered > 0 =>
    calls[b].told # <<>> /\ calls[b].told[1] = "yes"

(* A call is entered once, and once more for each answer to a question of  *)
(* its own: not again because a sibling had to wait (aresume_graph).       *)
EnteredOnce ==
  \A b \in DOMAIN calls : calls[b].entered <= Questions[calls[b].tool] + 1

(* A run that ends "ok" has an answer of its own, and one that ends with   *)
(* an error has a reason of its own and no answer, whatever earlier runs   *)
(* left in these channels (_ended_with and the updates that end a run).    *)
EndHasAnswer ==
  pc = "end" =>
    /\ status = "ok" => final = run
    /\ status = "error" => error = run /\ final = 0

Phase ==
  IF pc = "end" THEN "ended" ELSE IF pc = "raised" THEN "raised"
  ELSE IF Waiting THEN "waiting" ELSE "running"

Contract == INSTANCE AgentContract WITH phase <- Phase

(* Every run of a pattern is a run of the contract: the status is written  *)
(* as it ends, a new query clears it, and it waits for a human exactly     *)
(* when every branch that is left has asked (core/contract.py).            *)
ImplementsContract == Contract!Spec

(* Every run ends or raises, provided the human answers when asked.        *)
RunsEnd == pc \notin {"end", "raised"} ~> pc \in {"end", "raised"}
=============================================================================
