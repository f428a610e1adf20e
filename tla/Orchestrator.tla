----------------------------- MODULE Orchestrator -----------------------------
(***************************************************************************)
(* Orchestrator-workers (build_orchestrator_workers,                       *)
(* patterns/workflows.py): the model breaks the request into subtasks,     *)
(* workers take one each in parallel, and the model answers or asks for    *)
(* another round.                                                          *)
(***************************************************************************)
EXTENDS Workflow

CONSTANTS
  Workers,          \* the tools it may delegate to
  MaxWorkers,       \* build_orchestrator_workers(max_workers=...)
  MaxRounds,        \* build_orchestrator_workers(max_rounds=...)
  ReadOnlyWorkers   \* build_orchestrator_workers(read_only_workers=...)

WorkersAssumption == Workers # {} /\ Workers \subseteq Tools
LimitsAssumption ==
  /\ MaxWorkers \in Nat \ {0}
  /\ MaxRounds \in Nat \ {0}
  /\ ReadOnlyWorkers \in BOOLEAN

VARIABLES
  subtasks,   \* the workers of the round, in order
  flawed,     \* the subtask that has no objective; 0: none
  work,       \* subtask index -> the run and round of the result it holds
  seen        \* ghost: the results the last synthesis was shown, by index

own == <<subtasks, flawed, work, seen>>
vars == <<base, own>>

Round == [run : 1 .. MaxRuns, round : 1 .. MaxRounds]

NoWork == [i \in {} |-> "none"]

TypeOK ==
  /\ BaseTypeOK({"orchestrate", "work", "synthesize"})
  /\ subtasks \in Seq(Workers) /\ Len(subtasks) <= MaxWorkers
  /\ flawed \in 0 .. Len(subtasks)
  /\ DOMAIN work \subseteq 1 .. MaxWorkers /\ work \in [DOMAIN work -> Round]
  /\ DOMAIN seen \subseteq 1 .. MaxWorkers /\ seen \in [DOMAIN seen -> Round]

OwnInit ==
  /\ subtasks = <<>>
  /\ flawed = 0
  /\ work = NoWork
  /\ seen = NoWork

Init == BaseInit("orchestrate") /\ OwnInit

Now == [run |-> run, round |-> iteration]

(* The plan, cut to max_workers, and the fan-out. The empty dict written   *)
(* to work is merged into it: it clears nothing.                           *)
Orchestrate(plan) ==
  LET subs == SubSeq(plan, 1, IF Len(plan) > MaxWorkers THEN MaxWorkers ELSE Len(plan)) IN
  /\ pc = "orchestrate"
  /\ subtasks' = subs
  /\ flawed' \in {0} \cup DOMAIN subs
  /\ iteration' = iteration + 1
  /\ status' = "none"
  /\ pc' = "work"
  /\ calls' = [i \in DOMAIN subs |-> Call(subs[i], ReadOnlyWorkers)]
  /\ UNCHANGED <<answer, run, work, seen>>

OrchestrateFails ==
  /\ pc = "orchestrate"
  /\ EndedWith
  /\ subtasks' = <<>>
  /\ flawed' = 0
  /\ pc' = "end"
  /\ UNCHANGED <<calls, iteration, run, work, seen>>

(* The branch without an objective makes no call: it raises.               *)
InWorker == (\E b \in DOMAIN calls \ {flawed} : BranchStep(b)) /\ UNCHANGED own

(* The results of the branches are merged into work.                       *)
Barrier ==
  /\ pc = "work"
  /\ AllReturned
  /\ work' = [i \in DOMAIN work \cup DOMAIN calls |->
                IF i \in DOMAIN calls THEN Now ELSE work[i]]
  /\ calls' = NoCalls
  /\ pc' = "synthesize"
  /\ UNCHANGED <<iteration, answer, status, run, subtasks, flawed, seen>>

(* The exception of one branch ends the step, whatever its siblings do.    *)
WorkRaises == pc = "work" /\ flawed # 0 /\ Raises /\ UNCHANGED own

(* Mutant: the synthesis is shown whatever is in work.                     *)
ShowsEverything == seen' = work

(* The synthesis is shown the result of each subtask, by its index.        *)
Shows == seen' = [i \in DOMAIN subtasks \cap DOMAIN work |-> work[i]]

LastRound == iteration >= MaxRounds

Finish ==
  /\ pc = "synthesize"
  /\ Shows
  /\ EndsOk
  /\ result' = run
  /\ pc' = "end"
  /\ UNCHANGED <<calls, iteration, run, subtasks, flawed, work>>

(* "more" is no valid decision in the last round.                          *)
More ==
  /\ pc = "synthesize"
  /\ ~ LastRound
  /\ Shows
  /\ pc' = "orchestrate"
  /\ UNCHANGED <<calls, iteration, answer, status, run, subtasks, flawed, work>>

SynthesizeFails ==
  /\ pc = "synthesize"
  /\ Shows
  /\ EndedWith
  /\ pc' = "end"
  /\ UNCHANGED <<calls, iteration, run, subtasks, flawed, work>>

(* Prompts that do not fit.                                                *)
PromptRaises ==
  pc \in {"orchestrate", "synthesize"} /\ Overflows /\ Raises /\ UNCHANGED own

NewRun == StartRun("orchestrate") /\ UNCHANGED own

(* One subtask more than may run: the schema is not enforced by the code.  *)
Machine ==
  \/ \E n \in 1 .. MaxWorkers + 1 : \E plan \in [1 .. n -> Workers] : Orchestrate(plan)
  \/ OrchestrateFails
  \/ InWorker \/ Barrier \/ WorkRaises
  \/ Finish \/ More \/ SynthesizeFails \/ PromptRaises

Next == Machine \/ (Human /\ UNCHANGED own) \/ NewRun

Spec == Init /\ [][Next]_vars

-----------------------------------------------------------------------------
(* The synthesis is shown a result of this very round for every subtask,   *)
(* and nothing else, though work still holds those of earlier rounds and   *)
(* queries under the same indices (work, _merge, synthesize).              *)
SynthesisIsFresh ==
  pc \in {"synthesize", "end"} /\ status # "error" =>
    /\ \A i \in DOMAIN subtasks : i \in DOMAIN work /\ work[i] = Now
    /\ pc = "end" => seen = [i \in DOMAIN subtasks |-> Now]

(* Single writer: no tool with side effects is entered by a worker, paused *)
(* or not (read_only_scope).                                               *)
SingleWriter ==
  ReadOnlyWorkers =>
    \A i \in DOMAIN calls : calls[i].tool \in Writing => calls[i].entered = 0

(* No run has more than max_rounds rounds (synthesize).                    *)
CapRespected == iteration <= MaxRounds
=============================================================================
