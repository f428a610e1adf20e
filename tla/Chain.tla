-------------------------------- MODULE Chain --------------------------------
(***************************************************************************)
(* The prompt chain (build_prompt_chain, patterns/workflows.py): fixed     *)
(* steps in order, each an LLM call or a tool call, each with an optional  *)
(* programmatic gate on its output.                                        *)
(***************************************************************************)
EXTENDS Workflow

CONSTANT Steps  \* the configured steps: name, tool ("llm": none), gate or not

StepsAssumption ==
  /\ Steps \in Seq([name : STRING, tool : Tools \cup {"llm"}, gate : BOOLEAN])
  /\ Steps # <<>>

VARIABLES
  step,      \* steps finished, whichever run finished them
  outputs,   \* name -> the run and step that wrote it, and how it came out
  order,     \* names in the order in which the dict first got them
  did,       \* ghost: the steps started in this run
  previous   \* ghost: what {previous} stood for in the last step started

own == <<step, outputs, order, did, previous>>
vars == <<base, own>>

Name(i) == Steps[i].name

NoOutput == [run |-> 0, step |-> 0, out |-> "value"]

TypeOK ==
  /\ BaseTypeOK({"step"})
  /\ step \in 0 .. Len(Steps)
  /\ order \in Seq({Name(i) : i \in DOMAIN Steps})
  /\ outputs \in [DOMAIN outputs ->
                    [run : 1 .. run, step : DOMAIN Steps, out : Outcome]]
  /\ DOMAIN outputs = {order[k] : k \in DOMAIN order}
  /\ did \in Seq(DOMAIN Steps)
  /\ previous.step < Len(Steps) + 1

OwnInit ==
  /\ step = 0
  /\ outputs = [n \in {} |-> NoOutput]
  /\ order = <<>>
  /\ did = <<>>
  /\ previous = NoOutput

Init == BaseInit("step") /\ OwnInit

(* {previous}: the value the dict got last -- that is, under the key it    *)
(* got last: a value that replaces another keeps the old one's place.      *)
Previous == IF order = <<>> THEN NoOutput ELSE outputs[order[Len(order)]]

(* The _merge reducer on one output.                                       *)
Record(i, out) ==
  LET n == Name(i) IN
  /\ outputs' = [m \in DOMAIN outputs \cup {n} |->
                   IF m = n THEN [run |-> run, step |-> i, out |-> out] ELSE outputs[m]]
  /\ order' = IF n \in DOMAIN outputs THEN order ELSE Append(order, n)

Due(i) == pc = "step" /\ DOMAIN calls = {} /\ i = step + 1 /\ i \in DOMAIN Steps

Begin(i) ==
  /\ did' = Append(did, i)
  /\ previous' = Previous

(* A step has its output: the gate looks at it, and the chain stops, goes  *)
(* on, or is done.                                                         *)
Pass(i, out) ==
  /\ Record(i, out)
  /\ step' = i
  /\ iteration' = i
  /\ calls' = NoCalls
  /\ \/ Steps[i].gate /\ pc' = "end" /\ EndedWith
     \/ IF i = Len(Steps)
        THEN pc' = "end" /\ EndsOk /\ result' = run
        ELSE pc' = "step" /\ UNCHANGED <<answer, status>>
  /\ UNCHANGED run

LlmStep(i) ==
  /\ Due(i)
  /\ Steps[i].tool = "llm"
  /\ Begin(i)
  /\ Pass(i, "value")

ToolStep(i) ==
  /\ Due(i)
  /\ Steps[i].tool # "llm"
  /\ Begin(i)
  /\ calls' = [b \in {i} |-> Call(Steps[i].tool, FALSE)]
  /\ UNCHANGED <<pc, iteration, answer, status, run, step, outputs, order>>

InTool == CallStep /\ UNCHANGED own

(* Mutant: a failed step counts as finished.                               *)
ToolReturnsAnyway ==
  /\ AllReturned
  /\ \E i \in DOMAIN calls : Pass(i, calls[i].out)
  /\ UNCHANGED <<did, previous>>

(* A failed tool ends the chain where it is: the step does not count, but  *)
(* its output is there.                                                    *)
ToolReturns ==
  /\ AllReturned
  /\ \E i \in DOMAIN calls :
       IF Failed(calls[i].out)
       THEN /\ Record(i, calls[i].out)
            /\ EndedWith
            /\ pc' = "end"
            /\ calls' = NoCalls
            /\ UNCHANGED <<iteration, run, step>>
       ELSE Pass(i, calls[i].out)
  /\ UNCHANGED <<did, previous>>

(* Past the last step there is none to take (IndexError), and a prompt     *)
(* that does not fit is caught nowhere.                                    *)
StepRaises ==
  /\ pc = "step"
  /\ DOMAIN calls = {}
  /\ \/ step = Len(Steps)
     \/ step < Len(Steps) /\ Overflows /\ Steps[step + 1].tool = "llm"
  /\ Raises
  /\ UNCHANGED own

(* The step index and the outputs are no input: they stay.                 *)
NewRun ==
  /\ StartRun("step")
  /\ did' = <<>>
  /\ previous' = NoOutput
  /\ UNCHANGED <<step, outputs, order>>

Machine ==
  \/ \E i \in DOMAIN Steps : LlmStep(i) \/ ToolStep(i)
  \/ InTool \/ ToolReturns \/ StepRaises

Next == Machine \/ (Human /\ UNCHANGED own) \/ NewRun

Spec == Init /\ [][Next]_vars

-----------------------------------------------------------------------------
(* On a fresh thread every step is taken once and in order, each after its *)
(* predecessor succeeded and passed its gate, pauses or not, and           *)
(* {previous} is the predecessor's output (step_node). The last holds for  *)
(* chains whose steps have names of their own.                             *)
StepsInOrder ==
  run = 1 =>
    /\ did = [k \in 1 .. Len(did) |-> k]
    /\ \A k \in 1 .. step : Name(k) \in DOMAIN outputs /\ ~ Failed(outputs[Name(k)].out)
    /\ pc = "step" => status = "none" /\ Len(did) <= step + 1
    /\ did # <<>> => previous.step = did[Len(did)] - 1

(* A chain that ends with "ok" has an output of every step, none of them   *)
(* failed -- whatever state earlier runs left the thread in (step_node).   *)
OkMeansAllSteps ==
  pc = "end" /\ status = "ok" =>
    /\ step = Len(Steps)
    /\ \A i \in DOMAIN Steps :
         Name(i) \in DOMAIN outputs /\ ~ Failed(outputs[Name(i)].out)

(* "run steps in order": also for a second query on the thread, the chain  *)
(* starts with the first step (build_prompt_chain).                        *)
StartsAtFirst == did # <<>> => did[1] = 1
=============================================================================
