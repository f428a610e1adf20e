------------------------------ MODULE Workflows ------------------------------
(***************************************************************************)
(* The workflow patterns on one thread: a graph of one of the five         *)
(* patterns, whose queries run over the channels and calls of Workflow.    *)
(***************************************************************************)
EXTENDS Workflow

CONSTANTS
  Patterns,   \* the patterns looked at
  Steps,
  Routes, Agents, Fallbacks,
  Sections, Aggregate,
  Generators, MaxDrafts,
  Workers, MaxWorkers, MaxRounds, ReadOnlyWorkers

VARIABLES
  pattern,  \* the pattern of the graph
  step, outputs, order, did, previous,
  fallback, route, route_args, chose, called,
  branches,
  generator, draft, feedback, rounds, shown, verdict,
  subtasks, flawed, work, seen

C == INSTANCE Chain
R == INSTANCE Router
P == INSTANCE Parallel
E == INSTANCE EvalOpt WITH MaxRounds <- MaxDrafts
O == INSTANCE Orchestrator

ASSUME ConfigAssumption ==
  /\ Patterns \subseteq {"chain", "router", "parallel", "evalopt", "orchestrator"}
  /\ C!StepsAssumption /\ R!RoutesAssumption /\ P!SectionsAssumption
  /\ E!GeneratorsAssumption /\ E!RoundsAssumption
  /\ O!WorkersAssumption /\ O!LimitsAssumption

chain == <<step, outputs, order, did, previous>>
router == <<fallback, route, route_args, chose, called>>
parallel == <<branches>>
evalopt == <<generator, draft, feedback, rounds, shown, verdict>>
orchestrator == <<subtasks, flawed, work, seen>>
vars == <<base, pattern, chain, router, parallel, evalopt, orchestrator>>

First ==
  [chain |-> "step", router |-> "classify", parallel |-> "fan_out",
   evalopt |-> "generate", orchestrator |-> "orchestrate"]

Init ==
  /\ pattern \in Patterns
  /\ BaseInit(First[pattern])
  /\ C!OwnInit /\ R!OwnInit /\ P!OwnInit /\ E!OwnInit /\ O!OwnInit
  /\ pattern = "router" \/ fallback = "none"
  /\ pattern = "evalopt" \/ generator = "llm"

Chain == pattern = "chain" /\ UNCHANGED <<pattern, router, parallel, evalopt, orchestrator>>
Router == pattern = "router" /\ UNCHANGED <<pattern, chain, parallel, evalopt, orchestrator>>
Parallel == pattern = "parallel" /\ UNCHANGED <<pattern, chain, router, evalopt, orchestrator>>
EvalOpt == pattern = "evalopt" /\ UNCHANGED <<pattern, chain, router, parallel, orchestrator>>
Orchestrator == pattern = "orchestrator" /\ UNCHANGED <<pattern, chain, router, parallel, evalopt>>

Machine ==
  \/ Chain /\ C!Machine
  \/ Router /\ R!Machine
  \/ Parallel /\ P!Machine
  \/ EvalOpt /\ E!Machine
  \/ Orchestrator /\ O!Machine

Replies == Human /\ UNCHANGED <<pattern, chain, router, parallel, evalopt, orchestrator>>

NewRun ==
  \/ Chain /\ C!NewRun
  \/ Router /\ R!NewRun
  \/ Parallel /\ P!NewRun
  \/ EvalOpt /\ E!NewRun
  \/ Orchestrator /\ O!NewRun

Next == Machine \/ Replies \/ NewRun

(* The event loop runs what is due; the human answers in the end.          *)
Spec == Init /\ [][Next]_vars /\ WF_vars(Machine) /\ WF_vars(Replies)

-----------------------------------------------------------------------------
(* Every channel, of the thread and of its pattern, keeps its type         *)
(* (_Base and the state classes).                                          *)
TypeOK ==
  CASE pattern = "chain" -> C!TypeOK
    [] pattern = "router" -> R!TypeOK
    [] pattern = "parallel" -> P!TypeOK
    [] pattern = "evalopt" -> E!TypeOK
    [] pattern = "orchestrator" -> O!TypeOK

(* The properties of Chain, Router, Parallel, EvalOpt and Orchestrator     *)
(* stated there, on the graphs of that pattern (patterns/workflows.py).    *)
StepsInOrder == pattern = "chain" => C!StepsInOrder

(* Every query on the thread starts with the first step (Chain).           *)
StartsAtFirst == pattern = "chain" => C!StartsAtFirst

(* One call, of the route this run chose (Router).                         *)
OneRoute == pattern = "router" => R!OneRoute

(* The results combined are those of this run, all of them, and the run    *)
(* ends with an error exactly when every branch failed (Parallel).         *)
BranchesCombine == pattern = "parallel" => P!CombineIsFresh /\ P!ErrorMeansAllFailed

(* A revision is made from the draft just rejected, and the answer is the  *)
(* draft that was evaluated last (EvalOpt).                                *)
DraftsAreJudged == pattern = "evalopt" => E!RevisesTheRejected /\ E!AnswerIsJudged

(* The synthesis is shown the results of its round (Orchestrator).         *)
SynthesisIsFresh == pattern = "orchestrator" => O!SynthesisIsFresh

(* A tool is entered after its own gate's yes and no oftener than it asks, *)
(* in every pattern and whatever its siblings do; and one with side        *)
(* effects never by a read-only worker (execute_tool, aresume_graph).      *)
EntersAsAllowed ==
  /\ GateBeforeEntry /\ EnteredOnce
  /\ pattern = "orchestrator" => O!SingleWriter

(* How a run ended is what its status says, whatever earlier runs left on  *)
(* the thread: "ok" with an answer of its own, and in a chain an output of *)
(* every step; an error with a reason and no answer; and no status, in the *)
(* evaluator-optimizer alone, at a cap that no run goes beyond.            *)
EndStatus ==
  /\ EndHasAnswer
  /\ pattern = "chain" => C!OkMeansAllSteps
  /\ pattern = "evalopt" => E!CapRespected
  /\ pattern = "orchestrator" => O!CapRespected
  /\ pattern # "evalopt" /\ pc = "end" => status # "none"
=============================================================================
