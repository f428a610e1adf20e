------------------------------- MODULE EvalOpt -------------------------------
(***************************************************************************)
(* The evaluator-optimizer (build_evaluator_optimizer,                     *)
(* patterns/workflows.py): generate a draft -- by a prompt, or by a tool   *)
(* -- and evaluate it, until it passes or max_rounds is reached.           *)
(***************************************************************************)
EXTENDS Workflow

CONSTANTS
  Generators,  \* what may be configured as generator=: "llm" or a tool
  MaxRounds    \* build_evaluator_optimizer(max_rounds=...)

GeneratorsAssumption == Generators \subseteq Tools \cup {"llm"}
RoundsAssumption == MaxRounds \in Nat \ {0}

VARIABLES
  generator,  \* the configured generator
  draft,      \* the draft, by the run and round that wrote it
  feedback,   \* the draft the feedback in the channel is about
  rounds,     \* evaluations recorded on the thread
  shown,      \* ghost: the draft and feedback shown to the last generation
  verdict     \* ghost: the last draft evaluated, and whether it passed

own == <<generator, draft, feedback, rounds, shown, verdict>>
vars == <<base, own>>

NoDraft == [run |-> 0, round |-> 0]

Drafts == {NoDraft} \cup [run : 1 .. MaxRuns, round : 1 .. MaxRounds]

TypeOK ==
  /\ BaseTypeOK({"generate", "evaluate"})
  /\ generator \in Generators
  /\ {draft, feedback} \subseteq Drafts
  /\ rounds \in Nat
  /\ shown \in [draft : Drafts, feedback : Drafts]
  /\ verdict \in [of : Drafts, pass : BOOLEAN]

OwnInit ==
  /\ generator \in Generators
  /\ draft = NoDraft /\ feedback = NoDraft
  /\ rounds = 0
  /\ shown = [draft |-> NoDraft, feedback |-> NoDraft]
  /\ verdict = [of |-> NoDraft, pass |-> FALSE]

Init == BaseInit("generate") /\ OwnInit

(* A draft is there; it was made from the one before and what was said of  *)
(* it.                                                                     *)
Generated ==
  /\ draft' = [run |-> run, round |-> iteration + 1]
  /\ shown' = [draft |-> draft, feedback |-> feedback]
  /\ iteration' = iteration + 1
  /\ status' = "none"
  /\ calls' = NoCalls
  /\ pc' = "evaluate"
  /\ UNCHANGED <<answer, run, generator, feedback, rounds, verdict>>

Generate == pc = "generate" /\ generator = "llm" /\ Generated

CallGenerator ==
  /\ pc = "generate"
  /\ generator # "llm"
  /\ DOMAIN calls = {}
  /\ calls' = [b \in {0} |-> Call(generator, FALSE)]
  /\ UNCHANGED <<pc, iteration, answer, status, run, own>>

InGenerator == CallStep /\ UNCHANGED own

GeneratorReturns ==
  /\ AllReturned
  /\ \/ ~ Failed(calls[0].out) /\ Generated
     \/ /\ Failed(calls[0].out)
        /\ EndedWith
        /\ pc' = "end"
        /\ calls' = NoCalls
        /\ UNCHANGED <<iteration, run, own>>

LastRound == iteration >= MaxRounds

(* Mutant: the feedback is kept from the first evaluation.                 *)
EvaluateKeepsFeedback(pass) ==
  /\ pc = "evaluate"
  /\ feedback' = IF feedback = NoDraft THEN draft ELSE feedback
  /\ rounds' = rounds + 1
  /\ verdict' = [of |-> draft, pass |-> pass]
  /\ IF pass \/ LastRound
     THEN final' = run /\ result' = run /\ pc' = "end"
     ELSE UNCHANGED <<final, result>> /\ pc' = "generate"
  /\ status' = IF pass THEN "ok" ELSE status
  /\ UNCHANGED <<calls, iteration, error, run, generator, draft, shown>>

(* evaluate sees the draft alone. The last one is the answer, passed or    *)
(* not; only a pass is "ok".                                               *)
Evaluate(pass) ==
  /\ pc = "evaluate"
  /\ feedback' = draft
  /\ rounds' = rounds + 1
  /\ verdict' = [of |-> draft, pass |-> pass]
  /\ IF pass \/ LastRound
     THEN final' = run /\ result' = run /\ pc' = "end"
     ELSE UNCHANGED <<final, result>> /\ pc' = "generate"
  /\ status' = IF pass THEN "ok" ELSE status
  /\ UNCHANGED <<calls, iteration, error, run, generator, draft, shown>>

EvaluateFails ==
  /\ pc = "evaluate"
  /\ EndedWith
  /\ pc' = "end"
  /\ UNCHANGED <<calls, iteration, run, own>>

(* A prompt that does not fit; and an evaluation that is an object without *)
(* "pass", which is read after the attempts are over.                      *)
GenerateRaises ==
  pc = "generate" /\ generator = "llm" /\ Overflows /\ Raises /\ UNCHANGED own

EvaluateRaises == pc = "evaluate" /\ Raises /\ UNCHANGED own

(* The draft, the feedback and the rounds of earlier queries stay.         *)
NewRun == StartRun("generate") /\ UNCHANGED own

Machine ==
  \/ Generate \/ CallGenerator \/ InGenerator \/ GeneratorReturns
  \/ (\E pass \in BOOLEAN : Evaluate(pass)) \/ EvaluateFails
  \/ GenerateRaises \/ EvaluateRaises

Next == Machine \/ (Human /\ UNCHANGED own) \/ NewRun

Spec == Init /\ [][Next]_vars

-----------------------------------------------------------------------------
(* The answer of a run is the draft of its last round, and that very draft *)
(* was evaluated: "ok" says it passed, no status that it failed in the     *)
(* last round, and an error comes without an answer (evaluate).            *)
AnswerIsJudged ==
  pc = "end" =>
    /\ status # "error" =>
         /\ final = run
         /\ draft = [run |-> run, round |-> iteration]
         /\ verdict = [of |-> draft, pass |-> status = "ok"]
    /\ status = "none" => iteration = MaxRounds
    /\ status = "error" => error = run /\ final = 0

(* A revision is made from the draft of the round before and from what was *)
(* said of that draft, which had failed -- across pauses, and on a thread  *)
(* that holds drafts of earlier queries (generate, evaluate).              *)
RevisesTheRejected ==
  pc = "evaluate" /\ iteration > 1 =>
    LET before == [run |-> run, round |-> iteration - 1] IN
    /\ shown = [draft |-> before, feedback |-> before]
    /\ verdict = [of |-> before, pass |-> FALSE]

(* No run generates more than max_rounds drafts (after_evaluate).          *)
CapRespected == iteration <= MaxRounds
=============================================================================
