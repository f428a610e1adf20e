--------------------------- MODULE WorkflowsProofs ---------------------------
(***************************************************************************)
(* Proofs about Workflows: the calls of a step, and one invariant for each *)
(* pattern, for any tools, steps, routes, sections, workers and limits and *)
(* any number of queries on the thread.                                    *)
(***************************************************************************)
EXTENDS Workflows, SequenceTheorems, TLAPS

(* The answers a call has had to questions of its tool, -1 when its gate   *)
(* is still without a verdict.                                             *)
Count(c) == Len(c.told) - (IF c.tool \in Gated THEN 1 ELSE 0)

(* A tool is entered once for each of those answers, once more when it     *)
(* waits for the next or is done; and never past a gate, or by a read-only *)
(* worker that may not use it.                                             *)
CallOK(c) ==
  /\ c.tool \in Gated /\ c.entered > 0 => c.told # <<>> /\ c.told[1] = "yes"
  /\ c.readonly /\ c.tool \in Writing => c.entered = 0
  /\ c.st = "ready" =>
       /\ Count(c) <= Questions[c.tool]
       /\ c.entered = (IF Count(c) < 0 THEN 0 ELSE Count(c))
  /\ c.st = "asked" => Count(c) < Questions[c.tool] /\ c.entered = Count(c) + 1
  /\ c.entered <= Questions[c.tool] + 1

CallsOK ==
  /\ calls \in [DOMAIN calls -> Calls]
  /\ \A b \in DOMAIN calls : CallOK(calls[b])

(* A step of the calls changes nothing that says which calls they are.     *)
SameCalls ==
  /\ DOMAIN calls' = DOMAIN calls
  /\ \A b \in DOMAIN calls :
       calls'[b].tool = calls[b].tool /\ calls'[b].readonly = calls[b].readonly
  /\ UNCHANGED <<pc, iteration, answer, status, run>>

LEMMA CountType ==
  ASSUME NEW c \in Calls
  PROVE  /\ Len(c.told) \in Nat /\ Questions[c.tool] \in Nat /\ c.entered \in Nat
         /\ Count(c) \in Int /\ Count(c) >= -1
         /\ c.told = <<>> <=> Len(c.told) = 0
<1>1. c.told \in Seq({"yes", "no"}) /\ c.tool \in Tools /\ c.entered \in Nat
  BY DEF Calls
<1>2. Len(c.told) \in Nat /\ (c.told = <<>> <=> Len(c.told) = 0)
  BY <1>1, EmptySeq, LenProperties
<1>3. Questions[c.tool] \in Nat
  BY <1>1, ToolsAssumption
<1>. QED
  BY <1>1, <1>2, <1>3 DEF Count

(* A call that has not begun.                                              *)
LEMMA FreshCall ==
  ASSUME NEW tool \in Tools, NEW readonly \in BOOLEAN
  PROVE  Call(tool, readonly) \in Calls /\ CallOK(Call(tool, readonly))
<1>. DEFINE c == Call(tool, readonly)
<1>1. c \in Calls
  BY DEF Call, Calls
<1>2. c.told = <<>> /\ c.entered = 0 /\ c.st = "ready" /\ c.tool = tool
  BY DEF Call
<1>3. Count(c) = (IF tool \in Gated THEN -1 ELSE 0)
  <2>1. Len(c.told) = 0
    BY <1>2
  <2>. QED
    BY <1>2, <2>1 DEF Count
<1>4. Questions[tool] \in Nat
  BY ToolsAssumption
<1>. QED
  BY <1>1, <1>2, <1>3, <1>4 DEF CallOK

(* One branch goes on: refused, asking, denied, or inside its tool.        *)
LEMMA BranchStepOK ==
  ASSUME CallsOK, NEW b \in DOMAIN calls, BranchStep(b)
  PROVE  CallsOK' /\ SameCalls /\ calls[b].st = "ready"
         /\ \A d \in DOMAIN calls : d # b => calls'[d] = calls[d]
<1>. DEFINE c == calls[b]
<1>1. c \in Calls /\ CallOK(c)
  BY DEF CallsOK
<1>2. Ready(b)
  BY DEF BranchStep, CallRefused, CallAsks, CallDenied, CallEnters
<1>3. SUFFICES ASSUME NEW n, Becomes(b, n), n \in Calls, CallOK(n),
                      n.tool = c.tool, n.readonly = c.readonly
               PROVE  CallsOK' /\ SameCalls
                      /\ \A d \in DOMAIN calls : d # b => calls'[d] = calls[d]
  <2>1. \E n \in Calls : Becomes(b, n) /\ CallOK(n) /\ n.tool = c.tool /\ n.readonly = c.readonly
    <3>1. CASE CallRefused(b)
      <4>. DEFINE n == Returns(c, "failure")
      <4>1. n \in Calls /\ n.st = "done" /\ Count(n) = Count(c) /\ n.tool = c.tool
            /\ n.entered = c.entered /\ n.told = c.told /\ n.readonly = c.readonly
        BY <1>1 DEF Returns, Calls, Outcome, Count
      <4>2. CallOK(n)
        BY <1>1, <4>1 DEF CallOK
      <4>. QED
        BY <3>1, <4>1, <4>2 DEF CallRefused
    <3>2. CASE CallAsks(b)
      <4>. DEFINE n == [c EXCEPT !.st = "asked"]
      <4>1. n \in Calls /\ n.st = "asked" /\ Count(n) = Count(c) /\ n.tool = c.tool
            /\ n.entered = c.entered /\ n.told = c.told /\ n.readonly = c.readonly
        BY <1>1 DEF Calls, Count
      <4>2. c.tool \in Gated /\ c.told = <<>>
        BY <1>1, <3>2 DEF CallAsks, GateSays, Calls
      <4>3. Count(c) = -1 /\ Questions[c.tool] \in Nat
        BY <1>1, <4>2, CountType DEF Count
      <4>4. CallOK(n)
        BY <1>1, <1>2, <4>1, <4>3 DEF CallOK, Ready
      <4>. QED
        BY <3>2, <4>1, <4>4 DEF CallAsks
    <3>3. CASE CallDenied(b)
      <4>. DEFINE n == Returns(c, "denied")
      <4>1. n \in Calls /\ n.st = "done" /\ Count(n) = Count(c) /\ n.tool = c.tool
            /\ n.entered = c.entered /\ n.told = c.told /\ n.readonly = c.readonly
        BY <1>1 DEF Returns, Calls, Outcome, Count
      <4>2. CallOK(n)
        BY <1>1, <4>1 DEF CallOK
      <4>. QED
        BY <3>3, <4>1, <4>2 DEF CallDenied
    <3>4. CASE CallEnters(b)
      <4>. DEFINE e == [c EXCEPT !.entered = @ + 1]
      <4>1. e \in Calls /\ Count(e) = Count(c) /\ e.tool = c.tool /\ e.st = c.st
            /\ e.entered = c.entered + 1 /\ e.told = c.told /\ e.readonly = c.readonly
        BY <1>1 DEF Calls, Count
      <4>2. c.tool \in Gated => c.told # <<>> /\ c.told[1] = "yes"
        BY <3>4 DEF CallEnters, GateSays
      <4>3. ~ (c.readonly /\ c.tool \in Writing)
        BY <3>4 DEF CallEnters, Refuses
      <4>4. Count(c) >= 0 /\ Count(c) \in Int /\ c.entered = Count(c) /\ Count(c) <= Questions[c.tool]
            /\ Questions[c.tool] \in Nat
        <5>1. Count(c) \in Int /\ Questions[c.tool] \in Nat /\ Len(c.told) \in Nat
              /\ (c.told = <<>> <=> Len(c.told) = 0)
          BY <1>1, CountType
        <5>2. Count(c) >= 0
          BY <4>2, <5>1 DEF Count
        <5>. QED
          BY <1>1, <1>2, <5>1, <5>2 DEF CallOK, Ready
      <4>5. CASE Asks(e)
        <5>. DEFINE n == [e EXCEPT !.st = "asked"]
        <5>1. n \in Calls /\ n.st = "asked" /\ Count(n) = Count(c) /\ n.tool = c.tool
              /\ n.entered = c.entered + 1 /\ n.told = c.told /\ n.readonly = c.readonly
          BY <4>1 DEF Calls, Count
        <5>2. Count(c) < Questions[c.tool]
          BY <4>1, <4>5 DEF Asks, Count
        <5>3. CallOK(n)
          BY <4>2, <4>3, <4>4, <5>1, <5>2 DEF CallOK
        <5>. QED
          BY <3>4, <4>5, <5>1, <5>3 DEF CallEnters
      <4>6. CASE ~ Asks(e)
        <5>1. PICK out \in {"value", "failure"} : Becomes(b, Returns(e, out))
          BY <3>4, <4>6 DEF CallEnters
        <5>. DEFINE n == Returns(e, out)
        <5>2. n \in Calls /\ n.st = "done" /\ n.tool = c.tool
              /\ n.entered = c.entered + 1 /\ n.told = c.told /\ n.readonly = c.readonly
          BY <4>1 DEF Returns, Calls, Outcome
        <5>3. CallOK(n)
          BY <4>2, <4>3, <4>4, <5>2 DEF CallOK
        <5>. QED
          BY <5>1, <5>2, <5>3
      <4>. QED
        BY <4>5, <4>6
    <3>. QED
      BY <3>1, <3>2, <3>3, <3>4 DEF BranchStep
  <2>. QED
    BY <1>2, <2>1 DEF Ready
<1>4. calls' = [calls EXCEPT ![b] = n] /\ UNCHANGED <<pc, iteration, answer, status, run>>
  BY <1>3 DEF Becomes
<1>5. /\ DOMAIN calls' = DOMAIN calls
      /\ calls'[b] = n /\ \A d \in DOMAIN calls : d # b => calls'[d] = calls[d]
  BY <1>4 DEF CallsOK
<1>6. calls' \in [DOMAIN calls' -> Calls]
  BY <1>3, <1>4, <1>5 DEF CallsOK
<1>7. \A d \in DOMAIN calls' : CallOK(calls'[d])
  BY <1>3, <1>5 DEF CallsOK
<1>8. \A d \in DOMAIN calls : calls'[d].tool = calls[d].tool /\ calls'[d].readonly = calls[d].readonly
  BY <1>3, <1>5
<1>. QED
  BY <1>4, <1>5, <1>6, <1>7, <1>8 DEF CallsOK, SameCalls, CallOK, Count

(* All the branches that asked get their answers.                          *)
LEMMA AnswerOK ==
  ASSUME CallsOK, NEW says \in [Asked -> {"yes", "no"}], Answer(says)
  PROVE  CallsOK' /\ SameCalls
<1>1. /\ calls' = [d \in DOMAIN calls |->
                     IF d \in Asked
                     THEN [calls[d] EXCEPT !.st = "ready", !.told = Append(@, says[d])]
                     ELSE calls[d]]
      /\ UNCHANGED <<pc, iteration, answer, status, run>>
  BY DEF Answer
<1>2. ASSUME NEW d \in DOMAIN calls, d \in Asked
      PROVE  /\ calls'[d] \in Calls /\ CallOK(calls'[d])
             /\ calls'[d].tool = calls[d].tool /\ calls'[d].readonly = calls[d].readonly
  <2>. DEFINE c == calls[d]  n == calls'[d]
  <2>1. c \in Calls /\ CallOK(c) /\ c.st = "asked"
    BY <1>2 DEF CallsOK, Asked
  <2>2. n = [c EXCEPT !.st = "ready", !.told = Append(@, says[d])]
    BY <1>1, <1>2
  <2>3. c.told \in Seq({"yes", "no"}) /\ says[d] \in {"yes", "no"}
    BY <1>2, <2>1 DEF Calls
  <2>. DEFINE t == Append(c.told, says[d])
  <2>4. /\ t \in Seq({"yes", "no"}) /\ Len(t) = Len(c.told) + 1 /\ t # <<>>
        /\ Len(c.told) > 0 => t[1] = c.told[1]
    BY <2>3, AppendProperties, EmptySeq, LenProperties
  <2>5. n \in Calls /\ n.told = t /\ n.st = "ready" /\ n.tool = c.tool
        /\ n.entered = c.entered /\ n.readonly = c.readonly
    BY <2>1, <2>2, <2>4 DEF Calls
  <2>6. Count(n) = Count(c) + 1
    BY <2>1, <2>4, <2>5, CountType DEF Count
  <2>7. c.tool \in Gated /\ c.entered > 0 => t[1] = "yes"
    BY <2>1, <2>4, CountType DEF CallOK
  <2>8. CallOK(n)
    BY <2>1, <2>4, <2>5, <2>6, <2>7, CountType DEF CallOK
  <2>. QED
    BY <2>5, <2>8
<1>3. \A d \in DOMAIN calls : d \notin Asked => calls'[d] = calls[d] /\ calls[d].st # "asked"
  BY <1>1 DEF Asked
<1>4. DOMAIN calls' = DOMAIN calls
  BY <1>1
<1>5. calls' \in [DOMAIN calls' -> Calls] /\ \A d \in DOMAIN calls' : CallOK(calls'[d])
  BY <1>1, <1>2, <1>3, <1>4 DEF CallsOK
<1>6. \A d \in DOMAIN calls : calls'[d].tool = calls[d].tool /\ calls'[d].readonly = calls[d].readonly
  BY <1>2, <1>3
<1>. QED
  BY <1>1, <1>4, <1>5, <1>6 DEF CallsOK, SameCalls, CallOK, Count

LEMMA NoCallsOK == ASSUME calls' = NoCalls PROVE CallsOK' /\ DOMAIN calls' = {}
BY DEF NoCalls, CallsOK
-----------------------------------------------------------------------------
(* The invariant                                                           *)

(* What is so in every pattern: a status there is only at the end, where   *)
(* no call is left; and nobody waits for a human in a run that raised.     *)
Common ==
  /\ pattern \in DOMAIN First
  /\ run \in Nat \ {0} /\ iteration \in Nat
  /\ pc # "end" => status = "none"
  /\ pc = "end" => DOMAIN calls = {} /\ status \in {"none", "ok", "error"}
  /\ EndHasAnswer
  /\ pc = "raised" => ~ Waiting

(* The steps done have outputs that did not fail, though the step that is  *)
(* next may have left one that did, under the name of one of them.         *)
Done(k) ==
  /\ C!Name(k) \in DOMAIN outputs
  /\ Failed(outputs[C!Name(k)].out) => step < Len(Steps) /\ C!Name(k) = C!Name(step + 1)

ChainInv ==
  /\ pc \in {"step", "end", "raised"}
  /\ step \in 0 .. Len(Steps)
  /\ DOMAIN calls # {} => pc = "step" /\ step < Len(Steps) /\ DOMAIN calls = {step + 1}
  /\ \A k \in 1 .. step : Done(k)
  /\ pc = "end" => status # "none"
  /\ pc = "end" /\ status = "ok" => step = Len(Steps)

(* On a fresh thread, with a name for each step, the dict holds the steps  *)
(* done, in their order.                                                   *)
FreshChain ==
  run = 1 =>
    /\ Len(did) \in Nat /\ did = [k \in 1 .. Len(did) |-> k]
    /\ \A k \in 1 .. step :
         /\ C!Name(k) \in DOMAIN outputs
         /\ outputs[C!Name(k)].step = k /\ ~ Failed(outputs[C!Name(k)].out)
    /\ pc = "step" =>
         /\ Len(did) = step + (IF DOMAIN calls = {} THEN 0 ELSE 1)
         /\ order = [k \in 1 .. step |-> C!Name(k)]
         /\ \A n \in DOMAIN outputs : \E k \in 1 .. step : n = C!Name(k)
    /\ did # <<>> => previous.step = did[Len(did)] - 1

StepsNamedApart == \A i, j \in DOMAIN Steps : C!Name(i) = C!Name(j) => i = j

RouterInv ==
  /\ pc \in {"classify", "call_route", "end", "raised"}
  /\ DOMAIN calls # {} => pc = "call_route"
  /\ called \in {<<>>, <<chose>>}
  /\ pc = "classify" => called = <<>>
  /\ pc = "call_route" =>
       chose = route /\ called = (IF DOMAIN calls = {} THEN <<>> ELSE <<chose>>)
  /\ pc = "end" => status # "none"
  /\ pc = "end" /\ status = "ok" => called = <<chose>>

ParallelInv ==
  /\ pc \in {"fan_out", "branch", "combine", "end", "raised"}
  /\ DOMAIN calls # {} => pc = "branch"
  /\ pc = "branch" => DOMAIN calls = DOMAIN Sections
  /\ DOMAIN branches \subseteq DOMAIN Sections
  /\ P!CombineIsFresh
  /\ pc = "end" => status # "none"

SectionsNamedApart ==
  \A b, c \in DOMAIN Sections : Sections[b].name = Sections[c].name => b = c

EvalOptInv ==
  /\ pc \in {"generate", "evaluate", "end", "raised"}
  /\ generator \in Generators
  /\ DOMAIN calls # {} => pc = "generate" /\ generator # "llm"
  /\ iteration <= MaxDrafts
  /\ pc = "generate" => iteration < MaxDrafts
  /\ pc = "generate" /\ iteration > 0 =>
       LET now == [run |-> run, round |-> iteration] IN
       draft = now /\ feedback = now /\ verdict = [of |-> now, pass |-> FALSE]
  /\ pc = "evaluate" => iteration > 0 /\ draft = [run |-> run, round |-> iteration]
  /\ E!RevisesTheRejected
  /\ E!AnswerIsJudged

(* The worker that has no objective makes no call, so the step it is in    *)
(* can only raise.                                                         *)
OrchestratorInv ==
  /\ pc \in {"orchestrate", "work", "synthesize", "end", "raised"}
  /\ iteration <= MaxRounds
  /\ pc = "orchestrate" => iteration < MaxRounds
  /\ DOMAIN calls # {} => pc \in {"work", "raised"}
  /\ \A b \in DOMAIN calls : calls[b].readonly = ReadOnlyWorkers
  /\ pc = "work" => DOMAIN calls = DOMAIN subtasks
  /\ flawed # 0 /\ DOMAIN calls # {} => flawed \in DOMAIN calls /\ calls[flawed].st = "ready"
  /\ pc = "raised" /\ DOMAIN calls # {} => flawed # 0
  /\ pc = "work" => flawed = 0 \/ flawed \in DOMAIN calls
  /\ O!SynthesisIsFresh
  /\ pc = "end" => status # "none"

WInv ==
  /\ CallsOK
  /\ Common
  /\ pattern = "chain" => ChainInv /\ (StepsNamedApart => FreshChain)
  /\ pattern = "router" => RouterInv
  /\ pattern = "parallel" => ParallelInv /\ (SectionsNamedApart => P!ErrorMeansAllFailed)
  /\ pattern = "evalopt" => EvalOptInv
  /\ pattern = "orchestrator" => OrchestratorInv

LEMMA InitWInv == Init => WInv
<1>. SUFFICES ASSUME Init PROVE WInv
  OBVIOUS
<1>. USE DEF Init, BaseInit
<1>1. CallsOK /\ DOMAIN calls = {} /\ Asked = {}
  BY DEF CallsOK, NoCalls, Asked
<1>2. pc = First[pattern] /\ pattern \in DOMAIN First /\ pc \notin {"end", "raised"}
  BY ConfigAssumption DEF First
<1>3. Common
  BY <1>1, <1>2 DEF Common, EndHasAnswer
<1>4. ASSUME pattern = "chain" PROVE ChainInv /\ FreshChain
  <2>1. pc = "step" /\ step = 0 /\ did = <<>> /\ order = <<>> /\ DOMAIN outputs = {} /\ run = 1
    BY <1>2, <1>4 DEF First, C!OwnInit
  <2>2. Len(Steps) \in Nat
    BY ConfigAssumption, LenProperties DEF C!StepsAssumption
  <2>3. 1 .. 0 = {} /\ Len(did) = 0 /\ did = [k \in 1 .. 0 |-> k]
        /\ order = [k \in 1 .. 0 |-> C!Name(k)]
    BY <2>1
  <2>. QED
    BY <1>1, <2>1, <2>2, <2>3 DEF ChainInv, FreshChain
<1>5. ASSUME pattern = "router" PROVE RouterInv
  BY <1>1, <1>2, <1>5 DEF RouterInv, First, R!OwnInit
<1>6. ASSUME pattern = "parallel" PROVE ParallelInv /\ P!ErrorMeansAllFailed
  BY <1>1, <1>2, <1>6 DEF ParallelInv, First, P!OwnInit, P!CombineIsFresh, P!ErrorMeansAllFailed
<1>7. ASSUME pattern = "evalopt" PROVE EvalOptInv
  BY <1>1, <1>2, <1>7, ConfigAssumption
     DEF EvalOptInv, First, E!OwnInit, E!RevisesTheRejected, E!AnswerIsJudged, E!RoundsAssumption
<1>8. ASSUME pattern = "orchestrator" PROVE OrchestratorInv
  BY <1>1, <1>2, <1>8, ConfigAssumption
     DEF OrchestratorInv, First, O!OwnInit, O!SynthesisIsFresh, O!LimitsAssumption
<1>. QED
  BY <1>1, <1>3, <1>4, <1>5, <1>6, <1>7, <1>8 DEF WInv

(* The calls go on, and nothing else changes: none of them vanishes, and a *)
(* worker without an objective stays where it is.                          *)
LEMMA CallsGoOn ==
  ASSUME WInv, CallsOK', SameCalls, pc = "raised" => ~ Waiting',
         UNCHANGED <<pattern, chain, router, parallel, evalopt, orchestrator>>,
         pattern = "orchestrator" /\ flawed \in DOMAIN calls =>
           (calls[flawed].st = "ready" => calls'[flawed].st = "ready")
  PROVE  WInv'
<1>. USE DEF SameCalls, answer
<1>1. Common'
  BY DEF WInv, Common, EndHasAnswer
<1>2. pattern = "chain" => ChainInv' /\ (StepsNamedApart => FreshChain')
  BY DEF WInv, ChainInv, FreshChain, Done, chain, C!Name, Failed
<1>3. pattern = "router" => RouterInv'
  BY DEF WInv, RouterInv, router
<1>4. pattern = "parallel" => ParallelInv' /\ (SectionsNamedApart => P!ErrorMeansAllFailed')
  BY DEF WInv, ParallelInv, P!CombineIsFresh, P!ErrorMeansAllFailed, P!Failed, P!Branch, parallel
<1>5. pattern = "evalopt" => EvalOptInv'
  BY DEF WInv, EvalOptInv, E!RevisesTheRejected, E!AnswerIsJudged, evalopt
<1>6. pattern = "orchestrator" => OrchestratorInv'
  BY DEF WInv, OrchestratorInv, O!SynthesisIsFresh, O!Now, orchestrator
<1>. QED
  BY <1>1, <1>2, <1>3, <1>4, <1>5, <1>6 DEF WInv, StepsNamedApart, SectionsNamedApart, C!Name

(* The patterns have the call steps of Workflow.                           *)
LEMMA SameCallSteps ==
  /\ C!CallStep <=> CallStep
  /\ R!CallStep <=> CallStep
  /\ P!CallStep <=> CallStep
  /\ E!CallStep <=> CallStep
  /\ \A b : O!BranchStep(b) <=> BranchStep(b)
<1>. USE DEF CallStep, BranchStep, CallRefused, CallAsks, CallDenied, CallEnters, Ready,
             Refuses, Becomes, Returns, GateSays, Asks, answer
<1>1. C!CallStep <=> CallStep
  BY DEF C!CallStep, C!BranchStep, C!CallRefused, C!CallAsks, C!CallDenied, C!CallEnters,
         C!Ready, C!Refuses, C!Becomes, C!Returns, C!GateSays, C!Asks, C!answer
<1>2. R!CallStep <=> CallStep
  BY DEF R!CallStep, R!BranchStep, R!CallRefused, R!CallAsks, R!CallDenied, R!CallEnters,
         R!Ready, R!Refuses, R!Becomes, R!Returns, R!GateSays, R!Asks, R!answer
<1>3. P!CallStep <=> CallStep
  BY DEF P!CallStep, P!BranchStep, P!CallRefused, P!CallAsks, P!CallDenied, P!CallEnters,
         P!Ready, P!Refuses, P!Becomes, P!Returns, P!GateSays, P!Asks, P!answer
<1>4. E!CallStep <=> CallStep
  BY DEF E!CallStep, E!BranchStep, E!CallRefused, E!CallAsks, E!CallDenied, E!CallEnters,
         E!Ready, E!Refuses, E!Becomes, E!Returns, E!GateSays, E!Asks, E!answer
<1>5. \A b : O!BranchStep(b) <=> BranchStep(b)
  BY DEF O!BranchStep, O!CallRefused, O!CallAsks, O!CallDenied, O!CallEnters,
         O!Ready, O!Refuses, O!Becomes, O!Returns, O!GateSays, O!Asks, O!answer
<1>. QED
  BY <1>1, <1>2, <1>3, <1>4, <1>5

(* A call step of a pattern in which every branch makes a call.            *)
LEMMA CallStepKeeps ==
  ASSUME WInv, CallStep, pattern # "orchestrator",
         UNCHANGED <<pattern, chain, router, parallel, evalopt, orchestrator>>
  PROVE  WInv'
<1>1. PICK b \in DOMAIN calls : BranchStep(b)
  BY DEF CallStep
<1>2. CallsOK' /\ SameCalls
  BY <1>1, BranchStepOK DEF WInv
<1>3. pc # "raised"
  BY <1>1 DEF WInv, Common, ChainInv, RouterInv, ParallelInv, EvalOptInv, First
<1>. QED
  BY <1>2, <1>3, CallsGoOn

(* A call step of a worker.                                                *)
LEMMA WorkerStepKeeps ==
  ASSUME WInv, pattern = "orchestrator", NEW b \in DOMAIN calls \ {flawed}, BranchStep(b),
         UNCHANGED <<pattern, chain, router, parallel, evalopt, orchestrator>>
  PROVE  WInv'
<1>1. /\ CallsOK' /\ SameCalls
      /\ \A d \in DOMAIN calls : d # b => calls'[d] = calls[d]
  BY BranchStepOK DEF WInv
<1>2. flawed \in DOMAIN calls => calls'[flawed] = calls[flawed]
  BY <1>1
<1>3. pc = "raised" => ~ Waiting'
  BY <1>1, <1>2 DEF WInv, OrchestratorInv, Waiting, Ready, SameCalls
<1>. QED
  BY <1>1, <1>2, <1>3, CallsGoOn

(* The human answers.                                                      *)
LEMMA RepliesKeep ==
  ASSUME WInv, Replies
  PROVE  WInv'
<1>1. PICK says \in [Asked -> {"yes", "no"}] : Answer(says)
  BY DEF Replies, Human
<1>2. CallsOK' /\ SameCalls
  BY <1>1, AnswerOK DEF WInv
<1>3. Waiting /\ \A b \in DOMAIN calls : ~ Ready(b)
  BY <1>1 DEF Answer, Waiting
<1>4. pc # "raised"
  BY <1>3 DEF WInv, Common
<1>5. \A b \in DOMAIN calls : calls[b].st # "ready"
  BY <1>3 DEF Ready
<1>. QED
  BY <1>2, <1>4, <1>5, CallsGoOn DEF Replies

(* A new query, at the end of a run or in place of an answer, and whatever *)
(* the runs before have left in the channels.                              *)
LEMMA NewRunKeeps ==
  ASSUME WInv, NewRun
  PROVE  WInv'
<1>1. /\ run' = run + 1 /\ iteration' = 0 /\ status' = "none" /\ calls' = NoCalls
      /\ pc' = First[pattern] /\ UNCHANGED <<pattern, answer>>
  <2>. USE DEF First, NoCalls, answer, Chain, Router, Parallel, EvalOpt, Orchestrator
  <2>1. CASE Chain /\ C!NewRun
    BY <2>1 DEF C!NewRun, C!StartRun, C!NoCalls, C!answer
  <2>2. CASE Router /\ R!NewRun
    BY <2>2 DEF R!NewRun, R!StartRun, R!NoCalls, R!answer
  <2>3. CASE Parallel /\ P!NewRun
    BY <2>3 DEF P!NewRun, P!StartRun, P!NoCalls, P!answer
  <2>4. CASE EvalOpt /\ E!NewRun
    BY <2>4 DEF E!NewRun, E!StartRun, E!NoCalls, E!answer
  <2>5. CASE Orchestrator /\ O!NewRun
    BY <2>5 DEF O!NewRun, O!StartRun, O!NoCalls, O!answer
  <2>. QED
    BY <2>1, <2>2, <2>3, <2>4, <2>5 DEF NewRun
<1>2. CallsOK' /\ DOMAIN calls' = {} /\ Asked' = {}
  BY <1>1, NoCallsOK DEF Asked
<1>3. pc' \notin {"end", "raised"} /\ run' \in Nat \ {0, 1}
  BY <1>1 DEF WInv, Common, First
<1>4. Common'
  BY <1>1, <1>2, <1>3 DEF WInv, Common, EndHasAnswer
<1>5. ASSUME pattern = "chain" PROVE ChainInv' /\ FreshChain'
  <2>1. UNCHANGED <<step, outputs>>
    BY <1>5 DEF NewRun, Chain, Router, Parallel, EvalOpt, Orchestrator, C!NewRun
  <2>2. ChainInv /\ pc' = "step"
    BY <1>1, <1>5 DEF WInv, First
  <2>. QED
    BY <1>2, <1>3, <2>1, <2>2 DEF ChainInv, FreshChain, Done, C!Name, Failed
<1>6. ASSUME pattern = "router" PROVE RouterInv'
  <2>1. called' = <<>> /\ chose' = "none" /\ pc' = "classify"
    BY <1>1, <1>6 DEF NewRun, Chain, Router, Parallel, EvalOpt, Orchestrator, R!NewRun, First
  <2>. QED
    BY <1>2, <2>1 DEF RouterInv
<1>7. ASSUME pattern = "parallel" PROVE ParallelInv' /\ P!ErrorMeansAllFailed'
  <2>1. pc' = "fan_out" /\ branches' = branches
    BY <1>1, <1>7 DEF NewRun, Chain, Router, Parallel, EvalOpt, Orchestrator, P!NewRun, P!own, First
  <2>2. DOMAIN branches \subseteq DOMAIN Sections
    BY <1>7 DEF WInv, ParallelInv
  <2>. QED
    BY <1>2, <2>1, <2>2 DEF ParallelInv, P!CombineIsFresh, P!ErrorMeansAllFailed
<1>8. ASSUME pattern = "evalopt" PROVE EvalOptInv'
  <2>1. pc' = "generate" /\ generator' = generator
    BY <1>1, <1>8 DEF NewRun, Chain, Router, Parallel, EvalOpt, Orchestrator, E!NewRun, E!own, First
  <2>2. MaxDrafts \in Nat \ {0} /\ generator \in Generators
    BY <1>8, ConfigAssumption DEF E!RoundsAssumption, WInv, EvalOptInv
  <2>. QED
    BY <1>1, <1>2, <2>1, <2>2 DEF EvalOptInv, E!RevisesTheRejected, E!AnswerIsJudged
<1>9. ASSUME pattern = "orchestrator" PROVE OrchestratorInv'
  <2>1. pc' = "orchestrate" /\ MaxRounds \in Nat \ {0}
    BY <1>1, <1>9, ConfigAssumption DEF First, O!LimitsAssumption
  <2>. QED
    BY <1>1, <1>2, <2>1 DEF OrchestratorInv, O!SynthesisIsFresh
<1>. QED
  BY <1>1, <1>2, <1>4, <1>5, <1>6, <1>7, <1>8, <1>9 DEF WInv

-----------------------------------------------------------------------------
(* The steps of the machine that are no call step: nobody waits before or  *)
(* after one.                                                              *)
Onward == pc \notin {"end", "raised"} /\ ~ Waiting /\ ~ Waiting'

LEMMA NobodyWaits ==
  /\ DOMAIN calls = {} => ~ Waiting
  /\ AllReturned => ~ Waiting /\ DOMAIN calls # {}
  /\ (\E b \in DOMAIN calls : calls[b].st = "ready") => ~ Waiting
  /\ (DOMAIN calls = {})' => ~ Waiting'
  /\ (\E b \in DOMAIN calls : calls[b].st = "ready")' => ~ Waiting'
BY DEF Waiting, Asked, AllReturned, Ready

LEMMA SameReturns ==
  /\ C!AllReturned <=> AllReturned
  /\ R!AllReturned <=> AllReturned
  /\ P!AllReturned <=> AllReturned
  /\ E!AllReturned <=> AllReturned
  /\ O!AllReturned <=> AllReturned
BY DEF AllReturned, C!AllReturned, R!AllReturned, P!AllReturned, E!AllReturned, O!AllReturned

(* Calls that have not begun, one for each member of a set that has one.   *)
LEMMA CallsBegin ==
  ASSUME NEW S, NEW tool \in [S -> Tools], NEW readonly \in BOOLEAN,
         calls' = [b \in S |-> Call(tool[b], readonly)], S # {}
  PROVE  CallsOK' /\ ~ Waiting' /\ DOMAIN calls' = S /\ DOMAIN calls' # {}
         /\ \A b \in S : calls'[b].readonly = readonly /\ calls'[b].st = "ready"
<1>1. \A b \in S : /\ calls'[b] \in Calls /\ CallOK(calls'[b])
                   /\ calls'[b].readonly = readonly /\ calls'[b].st = "ready"
  BY FreshCall DEF Call
<1>2. CallsOK'
  BY <1>1 DEF CallsOK, CallOK, Count
<1>. QED
  BY <1>1, <1>2, NobodyWaits

(* Router                                                                  *)
LEMMA RouterKeeps ==
  ASSUME WInv, Router, R!Machine, ~ R!InRoute
  PROVE  WInv' /\ Onward
<1>. USE DEF answer, R!answer, NoCalls, R!NoCalls
<1>1. /\ CallsOK /\ Common /\ RouterInv /\ pattern = "router" /\ pattern' = "router"
  BY DEF WInv, Router
<1>2. SUFFICES CallsOK' /\ Common' /\ RouterInv' /\ Onward
  BY <1>1 DEF WInv
<1>3. CASE R!Classify \/ (R!ClassifyFails /\ fallback # "none")
  <2>1. /\ pc = "classify" /\ pc' = "call_route" /\ chose' = route' /\ status' = "none"
        /\ iteration' = 1 /\ UNCHANGED <<calls, answer, run, called>>
    BY <1>3 DEF R!Classify, R!ClassifyFails, R!Picks
  <2>2. DOMAIN calls = {} /\ called = <<>>
    BY <1>1, <2>1 DEF RouterInv
  <2>. QED
    BY <1>1, <2>1, <2>2, NobodyWaits DEF RouterInv, Common, CallsOK, Onward, EndHasAnswer, CallOK, Count
<1>4. CASE R!ClassifyFails /\ fallback = "none"
  <2>1. /\ pc = "classify" /\ pc' = "end" /\ status' = "error" /\ error' = run /\ final' = 0
        /\ UNCHANGED <<calls, iteration, run, route, chose, called>>
    BY <1>4 DEF R!ClassifyFails, R!EndedWith, R!own
  <2>2. DOMAIN calls = {} /\ called = <<>>
    BY <1>1, <2>1 DEF RouterInv
  <2>. QED
    BY <1>1, <2>1, <2>2, NobodyWaits DEF RouterInv, Common, CallsOK, Onward, EndHasAnswer, CallOK, Count
<1>5. CASE R!CallRoute
  <2>1. /\ pc = "call_route" /\ DOMAIN calls = {} /\ route \in Tools
        /\ calls' = [b \in {0} |-> Call(route, FALSE)] /\ called' = Append(called, route)
        /\ UNCHANGED <<pc, iteration, answer, status, run, route, chose>>
    BY <1>5 DEF R!CallRoute, R!Call, Call
  <2>2. called = <<>> /\ chose = route
    BY <1>1, <2>1 DEF RouterInv
  <2>3. called' = <<chose>>
    BY <2>1, <2>2
  <2>. DEFINE tool == [b \in {0} |-> route]
  <2>4. tool \in [{0} -> Tools] /\ calls' = [b \in {0} |-> Call(tool[b], FALSE)]
    BY <2>1
  <2>. HIDE DEF tool
  <2>5. CallsOK' /\ ~ Waiting' /\ DOMAIN calls' # {}
    BY <2>4, CallsBegin
  <2>. QED
    BY <1>1, <2>1, <2>2, <2>3, <2>5, NobodyWaits DEF RouterInv, Common, Onward, EndHasAnswer
<1>6. CASE R!RouteReturns
  <2>1. /\ AllReturned /\ pc' = "end" /\ calls' = NoCalls
        /\ \/ status' = "error" /\ error' = run /\ final' = 0
           \/ status' = "ok" /\ final' = run
        /\ UNCHANGED <<iteration, run, route, chose, called>>
    BY <1>6, SameReturns DEF R!RouteReturns, R!EndedWith, R!EndsOk, R!own
  <2>2. DOMAIN calls # {} /\ pc = "call_route" /\ called = <<chose>>
    BY <1>1, <2>1, NobodyWaits DEF RouterInv
  <2>. QED
    BY <1>1, <2>1, <2>2, NobodyWaits, NoCallsOK DEF RouterInv, Common, Onward, EndHasAnswer
<1>7. CASE R!ClassifyRaises \/ R!CallRaises
  <2>1. /\ pc \in {"classify", "call_route"} /\ pc' = "raised"
        /\ UNCHANGED <<calls, iteration, answer, status, run, route, chose, called>>
        /\ DOMAIN calls = {}
    BY <1>1, <1>7 DEF R!ClassifyRaises, R!CallRaises, R!Raises, R!own, RouterInv
  <2>. QED
    BY <1>1, <2>1, NobodyWaits DEF RouterInv, Common, CallsOK, Onward, EndHasAnswer, CallOK, Count
<1>. QED
  BY <1>3, <1>4, <1>5, <1>6, <1>7 DEF R!Machine

(* Parallel                                                                *)
LEMMA ParallelKeeps ==
  ASSUME WInv, Parallel, P!Machine, ~ P!InBranch
  PROVE  WInv' /\ Onward
<1>. USE DEF answer, P!answer, NoCalls, P!NoCalls
<1>1. /\ CallsOK /\ Common /\ ParallelInv /\ pattern = "parallel" /\ pattern' = "parallel"
      /\ Sections \in Seq([name : STRING, tool : Tools]) /\ Sections # <<>>
  BY ConfigAssumption DEF WInv, Parallel, P!SectionsAssumption
<1>2. SUFFICES /\ CallsOK' /\ Common' /\ ParallelInv' /\ Onward
               /\ SectionsNamedApart => P!ErrorMeansAllFailed'
  BY <1>1 DEF WInv
<1>3. CASE P!FanOut
  <2>1. /\ pc = "fan_out" /\ pc' = "branch"
        /\ calls' = [b \in DOMAIN Sections |-> Call(Sections[b].tool, FALSE)]
        /\ UNCHANGED <<iteration, answer, status, run, branches>>
    BY <1>3 DEF P!FanOut, P!Branch, P!Call, Call, P!own
  <2>. DEFINE tool == [b \in DOMAIN Sections |-> Sections[b].tool]
  <2>2. /\ tool \in [DOMAIN Sections -> Tools] /\ DOMAIN Sections # {}
        /\ calls' = [b \in DOMAIN Sections |-> Call(tool[b], FALSE)]
    <3>1. \A b \in DOMAIN Sections : Sections[b] \in [name : STRING, tool : Tools]
      BY <1>1, ElementOfSeq, LenProperties
    <3>2. Len(Sections) \in Nat /\ Len(Sections) # 0 /\ DOMAIN Sections = 1 .. Len(Sections)
      BY <1>1, EmptySeq, LenProperties
    <3>. QED
      BY <2>1, <3>1, <3>2
  <2>. HIDE DEF tool
  <2>3. CallsOK' /\ ~ Waiting' /\ DOMAIN calls' = DOMAIN Sections
    BY <2>2, CallsBegin
  <2>4. DOMAIN calls = {}
    BY <1>1, <2>1 DEF ParallelInv
  <2>. QED
    BY <1>1, <2>1, <2>3, <2>4, NobodyWaits
       DEF ParallelInv, Common, Onward, EndHasAnswer, P!CombineIsFresh, P!ErrorMeansAllFailed
<1>4. CASE P!Barrier
  <2>1. /\ pc = "branch" /\ AllReturned /\ pc' = "combine" /\ calls' = NoCalls
        /\ branches' = P!Merge(branches, [b \in DOMAIN Sections |-> [run |-> run, out |-> calls[b].out]])
        /\ UNCHANGED <<iteration, answer, status, run>>
    BY <1>4, SameReturns DEF P!Barrier, P!Branch
  <2>2. DOMAIN branches' = DOMAIN branches \cup DOMAIN Sections
        /\ \A b \in DOMAIN Sections : branches'[b].run = run
    BY <2>1 DEF P!Merge
  <2>3. P!CombineIsFresh' /\ DOMAIN branches' \subseteq DOMAIN Sections
    <3>1. DOMAIN branches \subseteq DOMAIN Sections
      BY <1>1 DEF ParallelInv
    <3>. QED
      BY <2>1, <2>2, <3>1 DEF P!CombineIsFresh, P!Branch
  <2>. QED
    BY <1>1, <2>1, <2>3, NobodyWaits, NoCallsOK
       DEF ParallelInv, Common, Onward, EndHasAnswer, P!ErrorMeansAllFailed
<1>5. ASSUME pc = "combine", pc' = "end", UNCHANGED <<calls, run, branches>>, iteration' \in Nat,
             status' \in {"ok", "error"},
             status' = "ok" => final' = run,
             status' = "error" => error' = run /\ final' = 0,
             status' = "ok" <=> P!Usable # {}
      PROVE  /\ CallsOK' /\ Common' /\ ParallelInv' /\ Onward
             /\ SectionsNamedApart => P!ErrorMeansAllFailed'
  <2>1. DOMAIN calls = {}
    BY <1>1, <1>5 DEF ParallelInv
  <2>2. ASSUME SectionsNamedApart PROVE P!Named = DOMAIN Sections
    <3>1. DOMAIN Sections \subseteq Nat
      BY <1>1, LenProperties
    <3>2. \A b, c \in DOMAIN Sections : Sections[c].name = Sections[b].name => c <= b
      BY <2>2, <3>1 DEF SectionsNamedApart
    <3>. QED
      BY <3>2 DEF P!Named, P!Branch
  <2>3. ASSUME SectionsNamedApart PROVE P!ErrorMeansAllFailed'
    BY <1>5, <2>2, <2>3 DEF P!ErrorMeansAllFailed, P!Usable, P!Branch, P!Failed
  <2>. QED
    BY <1>1, <1>5, <2>1, <2>3, NobodyWaits
       DEF ParallelInv, Common, CallsOK, Onward, EndHasAnswer, P!CombineIsFresh, CallOK, Count
<1>6. CASE P!Combine
  <2>1. /\ pc = "combine" /\ pc' = "end" /\ status' = "ok" /\ final' = run /\ iteration' = 1
        /\ P!Usable # {} /\ UNCHANGED <<calls, run, branches>>
    BY <1>6 DEF P!Combine, P!EndsOk
  <2>. QED
    BY <1>5, <2>1
<1>7. CASE P!CombineFails
  <2>1. /\ pc = "combine" /\ pc' = "end" /\ status' = "error" /\ error' = run /\ final' = 0
        /\ P!Usable = {} /\ UNCHANGED <<calls, iteration, run, branches>>
    BY <1>7 DEF P!CombineFails
  <2>2. iteration' \in Nat
    BY <1>1, <2>1 DEF Common
  <2>. QED
    BY <1>5, <2>1, <2>2
<1>8. CASE P!CombineRaises
  <2>1. /\ pc = "combine" /\ pc' = "raised"
        /\ UNCHANGED <<calls, iteration, answer, status, run, branches>>
    BY <1>8 DEF P!CombineRaises, P!Raises, P!own
  <2>2. DOMAIN calls = {}
    BY <1>1, <2>1 DEF ParallelInv
  <2>. QED
    BY <1>1, <2>1, <2>2, NobodyWaits
       DEF ParallelInv, Common, CallsOK, Onward, EndHasAnswer, P!CombineIsFresh, CallOK, Count,
           P!ErrorMeansAllFailed
<1>. QED
  BY <1>1, <1>3, <1>4, <1>6, <1>7, <1>8 DEF P!Machine, WInv

(* EvalOpt                                                                 *)
LEMMA EvalOptKeeps ==
  ASSUME WInv, EvalOpt, E!Machine, ~ E!InGenerator
  PROVE  WInv' /\ Onward
<1>. USE DEF answer, E!answer, NoCalls, E!NoCalls
<1>1. /\ CallsOK /\ Common /\ EvalOptInv /\ pattern = "evalopt" /\ pattern' = "evalopt"
      /\ MaxDrafts \in Nat \ {0} /\ Generators \subseteq Tools \cup {"llm"}
  BY ConfigAssumption DEF WInv, EvalOpt, E!RoundsAssumption, E!GeneratorsAssumption
<1>2. SUFFICES CallsOK' /\ Common' /\ EvalOptInv' /\ Onward
  BY <1>1 DEF WInv
<1>3. ASSUME E!Generated, pc = "generate", ~ Waiting
      PROVE  CallsOK' /\ Common' /\ EvalOptInv' /\ Onward
  <2>1. /\ draft' = [run |-> run, round |-> iteration + 1]
        /\ shown' = [draft |-> draft, feedback |-> feedback]
        /\ iteration' = iteration + 1 /\ status' = "none" /\ calls' = NoCalls
        /\ pc' = "evaluate" /\ UNCHANGED <<answer, run, generator, feedback, rounds, verdict>>
    BY <1>3 DEF E!Generated
  <2>2. iteration \in Nat /\ iteration < MaxDrafts
    BY <1>1, <1>3 DEF EvalOptInv, Common
  <2>3. CallsOK' /\ DOMAIN calls' = {}
    BY <2>1, NoCallsOK
  <2>4. E!RevisesTheRejected'
    <3>. SUFFICES ASSUME iteration' > 1
                  PROVE LET before == [run |-> run', round |-> iteration' - 1] IN
                        /\ shown' = [draft |-> before, feedback |-> before]
                        /\ verdict' = [of |-> before, pass |-> FALSE]
      BY DEF E!RevisesTheRejected
    <3>1. iteration > 0 /\ iteration' - 1 = iteration
      BY <2>1, <2>2
    <3>. QED
      BY <1>1, <1>3, <2>1, <3>1 DEF EvalOptInv
  <2>5. EvalOptInv'
    BY <1>1, <2>1, <2>2, <2>3, <2>4 DEF EvalOptInv, E!AnswerIsJudged
  <2>. QED
    BY <1>1, <1>3, <2>1, <2>2, <2>3, <2>5, NobodyWaits DEF Common, Onward, EndHasAnswer
<1>4. CASE E!Generate
  <2>1. pc = "generate" /\ generator = "llm" /\ E!Generated
    BY <1>4 DEF E!Generate
  <2>2. DOMAIN calls = {}
    BY <1>1, <2>1 DEF EvalOptInv
  <2>. QED
    BY <1>3, <2>1, <2>2, NobodyWaits
<1>5. CASE E!CallGenerator
  <2>1. /\ pc = "generate" /\ generator # "llm" /\ DOMAIN calls = {}
        /\ calls' = [b \in {0} |-> Call(generator, FALSE)]
        /\ UNCHANGED <<pc, iteration, answer, status, run, generator, draft, feedback, rounds,
                       shown, verdict>>
    BY <1>5 DEF E!CallGenerator, E!Call, Call, E!own
  <2>. DEFINE tool == [b \in {0} |-> generator]
  <2>2. tool \in [{0} -> Tools] /\ calls' = [b \in {0} |-> Call(tool[b], FALSE)]
    BY <1>1, <2>1 DEF EvalOptInv
  <2>. HIDE DEF tool
  <2>3. CallsOK' /\ ~ Waiting' /\ DOMAIN calls' # {}
    BY <2>2, CallsBegin
  <2>4. EvalOptInv'
    BY <1>1, <2>1, <2>3 DEF EvalOptInv, E!AnswerIsJudged, E!RevisesTheRejected
  <2>. QED
    BY <1>1, <2>1, <2>3, <2>4, NobodyWaits DEF Common, Onward, EndHasAnswer
<1>6. ASSUME pc' = "end", ~ Waiting, pc \notin {"end", "raised"},
             status' = "error" /\ error' = run /\ final' = 0, calls' = NoCalls,
             UNCHANGED <<iteration, run, generator, draft, feedback, rounds, shown, verdict>>
      PROVE  CallsOK' /\ Common' /\ EvalOptInv' /\ Onward
  <2>1. CallsOK' /\ DOMAIN calls' = {}
    BY <1>6, NoCallsOK
  <2>2. EvalOptInv'
    BY <1>1, <1>6, <2>1 DEF EvalOptInv, E!AnswerIsJudged, E!RevisesTheRejected
  <2>. QED
    BY <1>1, <1>6, <2>1, <2>2, NobodyWaits DEF Common, Onward, EndHasAnswer
<1>7. CASE E!GeneratorReturns
  <2>1. AllReturned
    BY <1>7, SameReturns DEF E!GeneratorReturns
  <2>2. ~ Waiting /\ pc = "generate"
    BY <1>1, <2>1, NobodyWaits DEF EvalOptInv
  <2>. QED
    BY <1>3, <1>6, <1>7, <2>2 DEF E!GeneratorReturns, E!EndedWith, E!own
<1>8. ASSUME NEW pass \in BOOLEAN, E!Evaluate(pass)
      PROVE  CallsOK' /\ Common' /\ EvalOptInv' /\ Onward
  <2>1. /\ pc = "evaluate" /\ feedback' = draft /\ verdict' = [of |-> draft, pass |-> pass]
        /\ IF pass \/ iteration >= MaxDrafts
           THEN final' = run /\ pc' = "end" ELSE final' = final /\ pc' = "generate"
        /\ status' = IF pass THEN "ok" ELSE status
        /\ UNCHANGED <<calls, iteration, error, run, generator, draft, shown>>
    BY <1>8 DEF E!Evaluate, E!LastRound
  <2>2. /\ DOMAIN calls = {} /\ status = "none" /\ iteration \in Nat /\ iteration > 0
        /\ draft = [run |-> run, round |-> iteration] /\ iteration <= MaxDrafts
    BY <1>1, <2>1 DEF EvalOptInv, Common
  <2>3. CallsOK'
    BY <1>1, <2>1 DEF CallsOK, CallOK, Count
  <2>4. CASE pass \/ iteration >= MaxDrafts
    <3>1. /\ pc' = "end" /\ final' = run /\ status' = (IF pass THEN "ok" ELSE "none")
          /\ pass \/ iteration = MaxDrafts
      BY <1>1, <2>1, <2>2, <2>4
    <3>2. E!AnswerIsJudged'
      BY <2>1, <2>2, <3>1 DEF E!AnswerIsJudged
    <3>3. EvalOptInv'
      BY <1>1, <2>1, <2>2, <3>1, <3>2 DEF EvalOptInv, E!RevisesTheRejected
    <3>. QED
      BY <1>1, <2>1, <2>2, <2>3, <3>1, <3>3, NobodyWaits DEF Common, Onward, EndHasAnswer
  <2>5. CASE ~ (pass \/ iteration >= MaxDrafts)
    <3>1. pc' = "generate" /\ status' = "none" /\ final' = final /\ ~ pass /\ iteration < MaxDrafts
      BY <1>1, <2>1, <2>2, <2>5
    <3>2. EvalOptInv'
      BY <1>1, <2>1, <2>2, <3>1 DEF EvalOptInv, E!RevisesTheRejected, E!AnswerIsJudged
    <3>. QED
      BY <1>1, <2>1, <2>2, <2>3, <3>1, <3>2, NobodyWaits DEF Common, Onward, EndHasAnswer
  <2>. QED
    BY <2>4, <2>5
<1>9. CASE E!EvaluateFails
  <2>1. /\ pc = "evaluate" /\ pc' = "end" /\ status' = "error" /\ error' = run /\ final' = 0
        /\ UNCHANGED <<calls, iteration, run, generator, draft, feedback, rounds, shown, verdict>>
    BY <1>9 DEF E!EvaluateFails, E!EndedWith, E!own
  <2>2. DOMAIN calls = {}
    BY <1>1, <2>1 DEF EvalOptInv
  <2>3. CallsOK'
    BY <1>1, <2>1 DEF CallsOK, CallOK, Count
  <2>4. EvalOptInv'
    BY <1>1, <2>1, <2>2 DEF EvalOptInv, E!AnswerIsJudged, E!RevisesTheRejected
  <2>. QED
    BY <1>1, <2>1, <2>2, <2>3, <2>4, NobodyWaits DEF Common, Onward, EndHasAnswer
<1>10. CASE E!GenerateRaises \/ E!EvaluateRaises
  <2>1. /\ pc \in {"generate", "evaluate"} /\ pc' = "raised"
        /\ pc = "generate" => generator = "llm"
        /\ UNCHANGED <<calls, iteration, answer, status, run, generator, draft, feedback, rounds,
                       shown, verdict>>
    BY <1>10 DEF E!GenerateRaises, E!EvaluateRaises, E!Raises, E!own
  <2>2. DOMAIN calls = {}
    BY <1>1, <2>1 DEF EvalOptInv
  <2>3. CallsOK'
    BY <1>1, <2>1 DEF CallsOK, CallOK, Count
  <2>4. EvalOptInv'
    BY <1>1, <2>1, <2>2 DEF EvalOptInv, E!AnswerIsJudged, E!RevisesTheRejected
  <2>. QED
    BY <1>1, <2>1, <2>2, <2>3, <2>4, NobodyWaits DEF Common, Onward, EndHasAnswer
<1>. QED
  BY <1>4, <1>5, <1>7, <1>8, <1>9, <1>10 DEF E!Machine

(* Orchestrator                                                            *)
LEMMA OrchestratorKeeps ==
  ASSUME WInv, Orchestrator, O!Machine, ~ O!InWorker
  PROVE  WInv' /\ Onward
<1>. USE DEF answer, O!answer, NoCalls, O!NoCalls
<1>1. /\ CallsOK /\ Common /\ OrchestratorInv
      /\ pattern = "orchestrator" /\ pattern' = "orchestrator"
      /\ MaxWorkers \in Nat \ {0} /\ MaxRounds \in Nat \ {0} /\ ReadOnlyWorkers \in BOOLEAN
      /\ Workers \subseteq Tools
  BY ConfigAssumption DEF WInv, Orchestrator, O!LimitsAssumption, O!WorkersAssumption
<1>2. SUFFICES CallsOK' /\ Common' /\ OrchestratorInv' /\ Onward
  BY <1>1 DEF WInv
<1>3. ASSUME NEW n \in 1 .. MaxWorkers + 1, NEW plan \in [1 .. n -> Workers], O!Orchestrate(plan)
      PROVE  CallsOK' /\ Common' /\ OrchestratorInv' /\ Onward
  <2>. DEFINE m == IF n > MaxWorkers THEN MaxWorkers ELSE n
              subs == SubSeq(plan, 1, m)
  <2>1. m \in 1 .. n /\ Len(plan) = n /\ plan \in Seq(Workers)
    BY <1>1
  <2>2. DOMAIN subs = 1 .. m /\ \A i \in 1 .. m : subs[i] \in Tools
    BY <1>1, <2>1, SubSeqProperties
  <2>3. /\ pc = "orchestrate" /\ pc' = "work" /\ subtasks' = subs
        /\ flawed' \in {0} \cup DOMAIN subs /\ iteration' = iteration + 1 /\ status' = "none"
        /\ calls' = [i \in DOMAIN subs |-> Call(subs[i], ReadOnlyWorkers)]
        /\ UNCHANGED <<answer, run, work, seen>>
    BY <1>3, <2>1 DEF O!Orchestrate, O!Call, Call
  <2>. DEFINE tool == [i \in DOMAIN subs |-> subs[i]]
  <2>4. /\ tool \in [DOMAIN subs -> Tools] /\ DOMAIN subs # {}
        /\ calls' = [i \in DOMAIN subs |-> Call(tool[i], ReadOnlyWorkers)]
    BY <2>1, <2>2, <2>3
  <2>. DEFINE S == DOMAIN subs
  <2>5. /\ CallsOK' /\ ~ Waiting' /\ DOMAIN calls' = DOMAIN subs
        /\ \A b \in DOMAIN subs : calls'[b].readonly = ReadOnlyWorkers /\ calls'[b].st = "ready"
    <3>1. /\ tool \in [S -> Tools] /\ S # {} /\ ReadOnlyWorkers \in BOOLEAN
          /\ calls' = [i \in S |-> Call(tool[i], ReadOnlyWorkers)]
      BY <1>1, <2>4
    <3>. HIDE DEF tool, S
    <3>2. /\ CallsOK' /\ ~ Waiting' /\ DOMAIN calls' = S
          /\ \A b \in S : calls'[b].readonly = ReadOnlyWorkers /\ calls'[b].st = "ready"
      BY <3>1, CallsBegin
    <3>. QED
      BY <3>2 DEF S
  <2>. HIDE DEF tool, subs, m, S
  <2>6. iteration \in Nat /\ iteration < MaxRounds /\ DOMAIN calls = {}
    BY <1>1, <2>3 DEF OrchestratorInv, Common
  <2>7. OrchestratorInv'
    BY <1>1, <2>3, <2>5, <2>6 DEF OrchestratorInv, O!SynthesisIsFresh
  <2>. QED
    BY <1>1, <2>3, <2>5, <2>6, <2>7, NobodyWaits DEF Common, Onward, EndHasAnswer
<1>4. CASE O!OrchestrateFails
  <2>1. /\ pc = "orchestrate" /\ pc' = "end" /\ status' = "error" /\ error' = run /\ final' = 0
        /\ flawed' = 0 /\ UNCHANGED <<calls, iteration, run>>
    BY <1>4 DEF O!OrchestrateFails, O!EndedWith
  <2>2. DOMAIN calls = {}
    BY <1>1, <2>1 DEF OrchestratorInv
  <2>3. CallsOK'
    BY <1>1, <2>1 DEF CallsOK, CallOK, Count
  <2>4. OrchestratorInv'
    BY <1>1, <2>1, <2>2 DEF OrchestratorInv, O!SynthesisIsFresh
  <2>. QED
    BY <1>1, <2>1, <2>2, <2>3, <2>4, NobodyWaits DEF Common, Onward, EndHasAnswer
<1>5. CASE O!Barrier
  <2>1. /\ pc = "work" /\ AllReturned /\ pc' = "synthesize" /\ calls' = NoCalls
        /\ work' = [i \in DOMAIN work \cup DOMAIN calls |->
                      IF i \in DOMAIN calls THEN O!Now ELSE work[i]]
        /\ UNCHANGED <<iteration, answer, status, run, subtasks, flawed, seen>>
    BY <1>5, SameReturns DEF O!Barrier
  <2>2. CallsOK' /\ DOMAIN calls' = {}
    BY <2>1, NoCallsOK
  <2>3. DOMAIN calls = DOMAIN subtasks
    BY <1>1, <2>1 DEF OrchestratorInv
  <2>4. O!SynthesisIsFresh'
    BY <2>1, <2>3 DEF O!SynthesisIsFresh, O!Now
  <2>5. OrchestratorInv'
    BY <1>1, <2>1, <2>2, <2>4 DEF OrchestratorInv
  <2>. QED
    BY <1>1, <2>1, <2>2, <2>5, NobodyWaits DEF Common, Onward, EndHasAnswer
<1>6. CASE O!WorkRaises
  <2>1. /\ pc = "work" /\ flawed # 0 /\ pc' = "raised"
        /\ UNCHANGED <<calls, iteration, answer, status, run, subtasks, flawed, work, seen>>
    BY <1>6 DEF O!WorkRaises, O!Raises, O!own
  <2>2. flawed \in DOMAIN calls /\ calls[flawed].st = "ready"
    BY <1>1, <2>1 DEF OrchestratorInv
  <2>3. CallsOK' /\ ~ Waiting /\ ~ Waiting'
    BY <1>1, <2>1, <2>2, NobodyWaits DEF CallsOK, CallOK, Count
  <2>4. OrchestratorInv'
    BY <1>1, <2>1, <2>2 DEF OrchestratorInv, O!SynthesisIsFresh
  <2>. QED
    BY <1>1, <2>1, <2>3, <2>4 DEF Common, Onward, EndHasAnswer
<1>7. ASSUME pc = "synthesize" PROVE DOMAIN calls = {} /\ ~ Waiting /\ status = "none"
                                     /\ O!SynthesisIsFresh
  BY <1>1, <1>7, NobodyWaits DEF OrchestratorInv, Common
<1>8. CASE O!Finish
  <2>1. /\ pc = "synthesize" /\ pc' = "end" /\ status' = "ok" /\ final' = run
        /\ seen' = [i \in DOMAIN subtasks \cap DOMAIN work |-> work[i]]
        /\ UNCHANGED <<calls, iteration, run, subtasks, flawed, work>>
    BY <1>8 DEF O!Finish, O!EndsOk, O!Shows
  <2>2. CallsOK'
    BY <1>1, <2>1 DEF CallsOK, CallOK, Count
  <2>3. O!SynthesisIsFresh'
    BY <1>7, <2>1 DEF O!SynthesisIsFresh, O!Now
  <2>4. OrchestratorInv'
    BY <1>1, <1>7, <2>1, <2>3 DEF OrchestratorInv
  <2>. QED
    BY <1>1, <1>7, <2>1, <2>2, <2>4, NobodyWaits DEF Common, Onward, EndHasAnswer
<1>9. CASE O!More
  <2>1. /\ pc = "synthesize" /\ pc' = "orchestrate" /\ ~ (iteration >= MaxRounds)
        /\ UNCHANGED <<calls, iteration, answer, status, run, subtasks, flawed, work>>
    BY <1>9 DEF O!More, O!LastRound
  <2>2. CallsOK'
    BY <1>1, <2>1 DEF CallsOK, CallOK, Count
  <2>3. iteration < MaxRounds
    BY <1>1, <2>1 DEF Common
  <2>4. OrchestratorInv'
    BY <1>1, <1>7, <2>1, <2>3 DEF OrchestratorInv, O!SynthesisIsFresh
  <2>. QED
    BY <1>1, <1>7, <2>1, <2>2, <2>4, NobodyWaits DEF Common, Onward, EndHasAnswer
<1>10. CASE O!SynthesizeFails
  <2>1. /\ pc = "synthesize" /\ pc' = "end" /\ status' = "error" /\ error' = run /\ final' = 0
        /\ UNCHANGED <<calls, iteration, run, subtasks, flawed, work>>
    BY <1>10 DEF O!SynthesizeFails, O!EndedWith
  <2>2. CallsOK'
    BY <1>1, <2>1 DEF CallsOK, CallOK, Count
  <2>3. OrchestratorInv'
    BY <1>1, <1>7, <2>1 DEF OrchestratorInv, O!SynthesisIsFresh
  <2>. QED
    BY <1>1, <1>7, <2>1, <2>2, <2>3, NobodyWaits DEF Common, Onward, EndHasAnswer
<1>11. CASE O!PromptRaises
  <2>1. /\ pc \in {"orchestrate", "synthesize"} /\ pc' = "raised"
        /\ UNCHANGED <<calls, iteration, answer, status, run, subtasks, flawed, work, seen>>
    BY <1>11 DEF O!PromptRaises, O!Raises, O!own
  <2>2. DOMAIN calls = {}
    BY <1>1, <2>1 DEF OrchestratorInv
  <2>3. CallsOK'
    BY <1>1, <2>1 DEF CallsOK, CallOK, Count
  <2>4. OrchestratorInv'
    BY <1>1, <2>1, <2>2 DEF OrchestratorInv, O!SynthesisIsFresh
  <2>. QED
    BY <1>1, <2>1, <2>2, <2>3, <2>4, NobodyWaits DEF Common, Onward, EndHasAnswer
<1>. QED
  BY <1>3, <1>4, <1>5, <1>6, <1>8, <1>9, <1>10, <1>11 DEF O!Machine

(* Chain                                                                   *)
LEMMA ChainKeeps ==
  ASSUME WInv, Chain, C!Machine, ~ C!InTool
  PROVE  WInv' /\ Onward
<1>. USE DEF answer, C!answer, NoCalls, C!NoCalls
<1>1. /\ CallsOK /\ Common /\ ChainInv /\ (StepsNamedApart => FreshChain)
      /\ pattern = "chain" /\ pattern' = "chain"
      /\ Len(Steps) \in Nat /\ DOMAIN Steps = 1 .. Len(Steps) /\ step \in 0 .. Len(Steps)
      /\ \A i \in DOMAIN Steps : Steps[i].tool \in Tools \cup {"llm"}
  <2>1. Steps \in Seq([name : STRING, tool : Tools \cup {"llm"}, gate : BOOLEAN])
    BY ConfigAssumption DEF C!StepsAssumption
  <2>2. \A i \in DOMAIN Steps : Steps[i] \in [name : STRING, tool : Tools \cup {"llm"}, gate : BOOLEAN]
    BY <2>1, ElementOfSeq, LenProperties
  <2>. QED
    BY <2>1, <2>2, LenProperties DEF WInv, Chain, ChainInv
<1>2. SUFFICES /\ CallsOK' /\ Common' /\ ChainInv' /\ Onward
               /\ StepsNamedApart => FreshChain'
  BY <1>1 DEF WInv, StepsNamedApart, C!Name
(* A step has begun, the one that is due.                                  *)
<1>. DEFINE began == /\ Len(did') = step + 1 /\ did' = [k \in 1 .. step + 1 |-> k]
                     /\ previous'.step = step
<1>3. ASSUME StepsNamedApart, run = 1, pc = "step", DOMAIN calls = {}, C!Begin(step + 1)
      PROVE  began
  <2>1. /\ Len(did) = step /\ did = [k \in 1 .. step |-> k]
        /\ order = [k \in 1 .. step |-> C!Name(k)]
        /\ \A k \in 1 .. step : outputs[C!Name(k)].step = k
    <3>1. Len(did) = step + 0
      BY <1>1, <1>3 DEF FreshChain
    <3>. QED
      BY <1>1, <1>3, <3>1 DEF FreshChain
  <2>2. did \in Seq(Nat) /\ step + 1 \in Nat
    BY <1>1, <2>1
  <2>3. did' = Append(did, step + 1) /\ previous' = C!Previous
    BY <1>3 DEF C!Begin
  <2>4. did' = [k \in 1 .. step + 1 |-> k] /\ Len(did') = step + 1
    BY <1>1, <2>1, <2>2, <2>3
  <2>5. CASE step = 0
    <3>1. order = <<>>
      BY <2>1, <2>5
    <3>. QED
      BY <2>3, <2>4, <2>5, <3>1 DEF C!Previous, C!NoOutput
  <2>6. CASE step # 0
    <3>1. step \in 1 .. step /\ Len(order) = step /\ order[step] = C!Name(step) /\ order # <<>>
      BY <1>1, <2>1, <2>6
    <3>. QED
      BY <2>1, <2>3, <2>4, <3>1 DEF C!Previous
  <2>. QED
    BY <2>5, <2>6
(* Its output is recorded.                                                 *)
<1>4. ASSUME NEW out, C!Record(step + 1, out)
      PROVE  LET n == C!Name(step + 1) IN
             /\ DOMAIN outputs' = DOMAIN outputs \cup {n}
             /\ outputs'[n].step = step + 1 /\ outputs'[n].out = out
             /\ \A m \in DOMAIN outputs : m # n => outputs'[m] = outputs[m]
             /\ order' = IF n \in DOMAIN outputs THEN order ELSE Append(order, n)
  BY <1>4 DEF C!Record
<1>. HIDE DEF began
<1>5. ASSUME NEW out, C!Pass(step + 1, out), ~ Failed(out), step < Len(Steps), pc = "step",
             ~ Waiting, StepsNamedApart /\ run = 1 => began
      PROVE  /\ CallsOK' /\ Common' /\ ChainInv' /\ Onward
             /\ StepsNamedApart => FreshChain'
  <2>1. /\ C!Record(step + 1, out) /\ step' = step + 1 /\ iteration' = step + 1 /\ run' = run
        /\ calls' = NoCalls /\ pc' \in {"step", "end"}
        /\ pc' = "step" => step' < Len(Steps) /\ UNCHANGED <<answer, status>>
        /\ pc' = "end" => \/ status' = "error" /\ error' = run /\ final' = 0
                          \/ step' = Len(Steps) /\ status' = "ok" /\ final' = run
    BY <1>1, <1>5 DEF C!Pass, C!EndedWith, C!EndsOk
  <2>2. CallsOK' /\ DOMAIN calls' = {} /\ ~ Waiting'
    BY <2>1, NoCallsOK, NobodyWaits
  <2>3. Common'
    <3>1. step + 1 \in Nat /\ status = "none" /\ run \in Nat \ {0}
      BY <1>1, <1>5 DEF Common
    <3>2. CASE pc' = "step"
      BY <1>1, <2>1, <2>2, <3>1, <3>2 DEF Common, EndHasAnswer
    <3>3. CASE pc' = "end"
      BY <1>1, <2>1, <2>2, <3>1, <3>3 DEF Common, EndHasAnswer
    <3>. QED
      BY <2>1, <3>2, <3>3
  <2>4. \A k \in 1 .. step' : C!Name(k) \in DOMAIN outputs' /\ ~ Failed(outputs'[C!Name(k)].out)
    <3>. SUFFICES ASSUME NEW k \in 1 .. step + 1
                  PROVE  C!Name(k) \in DOMAIN outputs' /\ ~ Failed(outputs'[C!Name(k)].out)
      BY <2>1
    <3>1. CASE C!Name(k) = C!Name(step + 1)
      BY <1>4, <1>5, <2>1, <3>1
    <3>2. CASE C!Name(k) # C!Name(step + 1)
      <4>1. k \in 1 .. step
        BY <1>1, <3>2
      <4>2. Done(k)
        BY <1>1, <4>1 DEF ChainInv
      <4>3. C!Name(k) \in DOMAIN outputs /\ ~ Failed(outputs[C!Name(k)].out)
        BY <3>2, <4>2 DEF Done
      <4>. QED
        BY <1>4, <2>1, <3>2, <4>3
    <3>. QED
      BY <3>1, <3>2
  <2>5. ChainInv'
    <3>1. \A k \in 1 .. step' : Done(k)'
      BY <2>4 DEF Done, C!Name, Failed
    <3>2. step' \in 0 .. Len(Steps)
      <4>1. step \in 0 .. Len(Steps) /\ Len(Steps) \in Nat /\ step < Len(Steps)
        BY <1>1, <1>5
      <4>2. step' = step + 1
        BY <2>1
      <4>. QED
        BY <4>1, <4>2
    <3>3. pc' = "end" => status' # "none" /\ (status' = "ok" => step' = Len(Steps))
      BY <2>1
    <3>. QED
      BY <2>1, <2>2, <3>1, <3>2, <3>3 DEF ChainInv
  <2>6. ASSUME StepsNamedApart, run = 1 PROVE FreshChain'
    <3>1. /\ Len(did') = step + 1 /\ did' = [k \in 1 .. step + 1 |-> k] /\ previous'.step = step
      BY <1>5, <2>6 DEF began
    <3>2. /\ order = [k \in 1 .. step |-> C!Name(k)]
          /\ \A k \in 1 .. step : C!Name(k) \in DOMAIN outputs /\ outputs[C!Name(k)].step = k
          /\ \A n \in DOMAIN outputs : \E k \in 1 .. step : n = C!Name(k)
      BY <1>1, <1>5, <2>6 DEF FreshChain
    <3>3. \A k \in 1 .. step : C!Name(k) # C!Name(step + 1)
      BY <1>1, <1>5, <2>6 DEF StepsNamedApart
    <3>4. C!Name(step + 1) \notin DOMAIN outputs
      BY <3>2, <3>3
    <3>5. \A k \in 1 .. step' : outputs'[C!Name(k)].step = k
      <4>. SUFFICES ASSUME NEW k \in 1 .. step + 1 PROVE outputs'[C!Name(k)].step = k
        BY <2>1
      <4>1. CASE k = step + 1
        BY <1>4, <2>1, <4>1
      <4>2. CASE k # step + 1
        <5>1. k \in 1 .. step
          BY <1>1, <4>2
        <5>. QED
          BY <1>4, <2>1, <3>2, <3>3, <5>1
      <4>. QED
        BY <4>1, <4>2
    <3>6. order' = [k \in 1 .. step' |-> C!Name(k)]
      <4>1. order' = Append(order, C!Name(step + 1))
        BY <1>4, <2>1, <3>4
      <4>. DEFINE S == {C!Name(k) : k \in 1 .. step + 1}
      <4>2. order \in Seq(S) /\ Len(order) = step
        BY <1>1, <3>2
      <4>3. /\ DOMAIN order' = 1 .. step + 1 /\ order' \in Seq(S)
            /\ \A k \in 1 .. step : order'[k] = order[k]
            /\ order'[step + 1] = C!Name(step + 1)
        <5>1. C!Name(step + 1) \in S
          <6>1. step + 1 \in 1 .. step + 1
            BY <1>1
          <6>. QED
            BY <6>1
        <5>. HIDE DEF S
        <5>. QED
          BY <1>1, <4>1, <4>2, <5>1, AppendProperties, LenProperties
      <4>4. \A k \in 1 .. step + 1 : order'[k] = C!Name(k)
        BY <1>1, <3>2, <4>3
      <4>. HIDE DEF S
      <4>5. order' = [k \in DOMAIN order' |-> order'[k]]
        BY <4>3
      <4>. QED
        BY <2>1, <4>3, <4>4, <4>5
    <3>7. \A n \in DOMAIN outputs' : \E k \in 1 .. step' : n = C!Name(k)
      <4>1. \A n \in DOMAIN outputs' : n \in DOMAIN outputs \/ n = C!Name(step + 1)
        BY <1>4, <2>1
      <4>2. step + 1 \in 1 .. step + 1 /\ \A k \in 1 .. step : k \in 1 .. step + 1
        BY <1>1
      <4>. QED
        BY <2>1, <3>2, <4>1, <4>2
    <3>8. did'[Len(did')] - 1 = step /\ Len(did') = step' /\ Len(did') \in Nat
          /\ did' = [k \in 1 .. Len(did') |-> k]
      BY <1>1, <2>1, <3>1
    <3>10. previous'.step = did'[Len(did')] - 1
      BY <3>1, <3>8
    <3>11. did' = [k \in 1 .. Len(did') |-> k] /\ Len(did') = step' + 0
      <4>1. step + 1 \in Nat
        BY <1>1
      <4>2. step' = step + 1
        BY <2>1
      <4>. QED
        BY <4>1, <4>2, <3>1
    <3>. QED
      BY <2>1, <2>2, <2>4, <3>5, <3>6, <3>7, <3>8, <3>10, <3>11 DEF FreshChain, C!Name, Failed
  <2>. QED
    BY <1>1, <1>5, <2>1, <2>2, <2>3, <2>5, <2>6 DEF Onward, FreshChain
<1>6. ASSUME NEW i \in DOMAIN Steps, C!LlmStep(i)
      PROVE  /\ CallsOK' /\ Common' /\ ChainInv' /\ Onward
             /\ StepsNamedApart => FreshChain'
  <2>1. /\ pc = "step" /\ DOMAIN calls = {} /\ i = step + 1 /\ step < Len(Steps)
        /\ C!Begin(step + 1) /\ C!Pass(step + 1, "value")
    BY <1>1, <1>6 DEF C!LlmStep, C!Due
  <2>2. ~ Waiting /\ ~ Failed("value")
    BY <2>1, NobodyWaits DEF Failed
  <2>. QED
    BY <1>3, <1>5, <2>1, <2>2
<1>7. ASSUME NEW i \in DOMAIN Steps, C!ToolStep(i)
      PROVE  /\ CallsOK' /\ Common' /\ ChainInv' /\ Onward
             /\ StepsNamedApart => FreshChain'
  <2>1. /\ pc = "step" /\ DOMAIN calls = {} /\ i = step + 1 /\ step < Len(Steps)
        /\ Steps[i].tool \in Tools /\ C!Begin(step + 1)
        /\ calls' = [b \in {i} |-> Call(Steps[i].tool, FALSE)]
        /\ UNCHANGED <<pc, iteration, answer, status, run, step, outputs, order>>
    BY <1>1, <1>7 DEF C!ToolStep, C!Due, C!Call, Call
  <2>. DEFINE tool == [b \in {i} |-> Steps[i].tool]
  <2>2. tool \in [{i} -> Tools] /\ calls' = [b \in {i} |-> Call(tool[b], FALSE)]
    BY <2>1
  <2>. HIDE DEF tool
  <2>3. CallsOK' /\ ~ Waiting' /\ DOMAIN calls' = {i}
    BY <2>2, CallsBegin
  <2>4. ChainInv'
    BY <1>1, <2>1, <2>3 DEF ChainInv, Done, C!Name, Failed
  <2>5. ASSUME StepsNamedApart, run = 1 PROVE FreshChain'
    <3>1. began
      BY <1>3, <2>1, <2>5
    <3>2. /\ Len(did') = step + 1 /\ did' = [k \in 1 .. Len(did') |-> k] /\ Len(did') \in Nat
          /\ previous'.step = did'[Len(did')] - 1
      BY <1>1, <3>1 DEF began
    <3>. QED
      BY <1>1, <2>1, <2>3, <2>5, <3>2 DEF FreshChain, C!Name, Failed
  <2>. QED
    BY <1>1, <2>1, <2>3, <2>4, <2>5, NobodyWaits DEF Common, Onward, EndHasAnswer, FreshChain
<1>8. CASE C!ToolReturns
  <2>1. /\ AllReturned /\ pc = "step" /\ step < Len(Steps) /\ DOMAIN calls = {step + 1} /\ ~ Waiting
        /\ UNCHANGED <<did, previous>>
    BY <1>1, <1>8, SameReturns, NobodyWaits DEF C!ToolReturns, ChainInv
  <2>. DEFINE out == calls[step + 1].out
  <2>2. CASE ~ Failed(out)
    <3>1. C!Pass(step + 1, out)
      BY <1>8, <2>1, <2>2 DEF C!ToolReturns, C!Failed, Failed
    <3>2. ASSUME StepsNamedApart, run = 1 PROVE began
      BY <1>1, <2>1, <3>2 DEF FreshChain, began
    <3>. QED
      BY <1>5, <2>1, <2>2, <3>1, <3>2
  <2>3. CASE Failed(out)
    <3>1. /\ C!Record(step + 1, out) /\ pc' = "end" /\ calls' = NoCalls
          /\ status' = "error" /\ error' = run /\ final' = 0 /\ UNCHANGED <<iteration, run, step>>
      BY <1>8, <2>1, <2>3 DEF C!ToolReturns, C!Failed, Failed, C!EndedWith
    <3>2. CallsOK' /\ DOMAIN calls' = {} /\ ~ Waiting'
      BY <3>1, NoCallsOK, NobodyWaits
    <3>3. \A k \in 1 .. step : Done(k)'
      <4>. SUFFICES ASSUME NEW k \in 1 .. step PROVE Done(k)'
        OBVIOUS
      <4>1. Done(k)
        BY <1>1 DEF ChainInv
      <4>. QED
        BY <1>4, <2>1, <3>1, <4>1 DEF Done, C!Name, Failed
    <3>4. ChainInv'
      BY <1>1, <3>1, <3>2, <3>3 DEF ChainInv
    <3>5. ASSUME StepsNamedApart PROVE FreshChain'
      <4>1. \A k \in 1 .. step : C!Name(k) # C!Name(step + 1)
        BY <1>1, <2>1, <3>5 DEF StepsNamedApart
      <4>. QED
        BY <1>1, <1>4, <2>1, <3>1, <3>5, <4>1 DEF FreshChain, C!Name, Failed
    <3>. QED
      BY <1>1, <2>1, <3>1, <3>2, <3>4, <3>5 DEF Common, Onward, EndHasAnswer
  <2>. QED
    BY <2>2, <2>3
<1>9. CASE C!StepRaises
  <2>1. /\ pc = "step" /\ DOMAIN calls = {} /\ pc' = "raised"
        /\ UNCHANGED <<calls, iteration, answer, status, run, step, outputs, order, did, previous>>
    BY <1>9 DEF C!StepRaises, C!Raises, C!own
  <2>2. CallsOK'
    BY <1>1, <2>1 DEF CallsOK, CallOK, Count
  <2>3. ChainInv' /\ (StepsNamedApart => FreshChain')
    BY <1>1, <2>1 DEF ChainInv, FreshChain, Done, C!Name, Failed
  <2>. QED
    BY <1>1, <2>1, <2>2, <2>3, NobodyWaits DEF Common, Onward, EndHasAnswer
<1>. QED
  BY <1>6, <1>7, <1>8, <1>9 DEF C!Machine

-----------------------------------------------------------------------------
(* What the contract sees of a step of the calls, and of any other.        *)
LEMMA MachineSteps ==
  ASSUME WInv, Machine
  PROVE  WInv' /\ (Onward \/ ((pc = "raised" \/ ~ Waiting) /\ pc # "end" /\ UNCHANGED <<pc, status>>))
<1>. DEFINE quiet == (pc = "raised" \/ ~ Waiting) /\ pc # "end" /\ UNCHANGED <<pc, status>>
<1>1. ASSUME NEW b \in DOMAIN calls, BranchStep(b) PROVE quiet
  <2>1. calls[b].st = "ready" /\ SameCalls
    BY <1>1, BranchStepOK DEF WInv
  <2>2. ~ Waiting /\ pc # "end"
    BY <2>1, NobodyWaits DEF WInv, Common
  <2>. QED
    BY <2>1, <2>2 DEF SameCalls
<1>2. ASSUME CallStep, pattern # "orchestrator",
             UNCHANGED <<pattern, chain, router, parallel, evalopt, orchestrator>>
      PROVE  WInv' /\ quiet
  BY <1>1, <1>2, CallStepKeeps DEF CallStep
<1>. HIDE DEF quiet
<1>3. CASE Chain /\ C!Machine
  <2>1. CASE C!InTool
    BY <1>2, <1>3, <2>1, SameCallSteps DEF Chain, C!InTool, C!own, chain, quiet
  <2>. QED
    BY <1>3, <2>1, ChainKeeps DEF quiet
<1>4. CASE Router /\ R!Machine
  <2>1. CASE R!InRoute
    BY <1>2, <1>4, <2>1, SameCallSteps DEF Router, R!InRoute, R!own, router, quiet
  <2>. QED
    BY <1>4, <2>1, RouterKeeps DEF quiet
<1>5. CASE Parallel /\ P!Machine
  <2>1. CASE P!InBranch
    BY <1>2, <1>5, <2>1, SameCallSteps DEF Parallel, P!InBranch, P!own, parallel, quiet
  <2>. QED
    BY <1>5, <2>1, ParallelKeeps DEF quiet
<1>6. CASE EvalOpt /\ E!Machine
  <2>1. CASE E!InGenerator
    BY <1>2, <1>6, <2>1, SameCallSteps DEF EvalOpt, E!InGenerator, E!own, evalopt, quiet
  <2>. QED
    BY <1>6, <2>1, EvalOptKeeps DEF quiet
<1>7. CASE Orchestrator /\ O!Machine
  <2>1. CASE O!InWorker
    <3>1. PICK b \in DOMAIN calls \ {flawed} : BranchStep(b)
      BY <2>1, SameCallSteps DEF O!InWorker
    <3>2. UNCHANGED <<pattern, chain, router, parallel, evalopt, orchestrator>>
          /\ pattern = "orchestrator"
      BY <1>7, <2>1 DEF Orchestrator, O!InWorker, O!own, orchestrator
    <3>3. WInv'
      BY <3>1, <3>2, WorkerStepKeeps
    <3>. QED
      BY <1>1, <3>1, <3>3 DEF quiet
  <2>. QED
    BY <1>7, <2>1, OrchestratorKeeps DEF quiet
<1>. QED
  BY <1>3, <1>4, <1>5, <1>6, <1>7 DEF Machine, quiet

LEMMA Stutter == WInv /\ UNCHANGED vars => WInv'
<1>. SUFFICES ASSUME WInv, UNCHANGED vars PROVE WInv'
  OBVIOUS
<1>. USE DEF vars, base, answer
<1>1. CallsOK'
  BY DEF WInv, CallsOK, CallOK, Count
<1>2. SameCalls
  BY DEF SameCalls
<1>3. pc = "raised" => ~ Waiting'
  BY DEF WInv, Common, Waiting, Asked, Ready
<1>. QED
  BY <1>1, <1>2, <1>3, CallsGoOn

(* The invariant of the patterns, in every state of any thread.            *)
LEMMA Invariant == Spec => []WInv
<1>1. WInv /\ [Next]_vars => WInv'
  BY MachineSteps, RepliesKeep, NewRunKeeps, Stutter DEF Next
<1>. QED
  BY <1>1, InitWInv, PTL DEF Spec

-----------------------------------------------------------------------------
(* The types: what a step may leave in the channels                        *)

(* What the types need besides WInv: a call that is done has an outcome,   *)
(* and workers work in a round.                                            *)
Outcomes == \A b \in DOMAIN calls : calls[b].st = "done" => calls[b].out \in Outcome

Answers == {final, result, error} \subseteq 0 .. run /\ run \in 1 .. MaxRuns

TInv ==
  /\ WInv /\ TypeOK /\ Outcomes
  /\ pattern = "orchestrator" /\ pc = "work" => iteration # 0

(* The channels of the contract have their types when the answers do.      *)
LEMMA BaseTypes ==
  ASSUME WInv', Answers'
  PROVE  /\ calls' \in [DOMAIN calls' -> Calls] /\ iteration' \in Nat
         /\ {final', result', error'} \subseteq 0 .. run' /\ status' \in {"none", "ok", "error"}
         /\ run' \in 1 .. MaxRuns
BY DEF WInv, CallsOK, Common, Answers

LEMMA TypesGiveAnswers == TInv => Answers
<1>. SUFFICES ASSUME TInv PROVE Answers
  OBVIOUS
<1>1. pattern \in DOMAIN First
  BY DEF TInv, WInv, Common
<1>. QED
  BY <1>1 DEF TInv, TypeOK, First, Answers, C!TypeOK, C!BaseTypeOK, R!TypeOK, R!BaseTypeOK,
    P!TypeOK, P!BaseTypeOK, E!TypeOK, E!BaseTypeOK, O!TypeOK, O!BaseTypeOK

(* A step of the calls gives an outcome to those it ends.                  *)
LEMMA CallStepTypes ==
  ASSUME WInv, Outcomes, NEW b \in DOMAIN calls, BranchStep(b)
  PROVE  Outcomes' /\ UNCHANGED <<pc, iteration, answer, status, run>>
<1>1. calls[b] \in Calls
  BY DEF WInv, CallsOK
<1>2. ASSUME NEW c \in Calls, NEW out \in Outcome
      PROVE  Returns(c, out).out \in Outcome
  BY DEF Returns, Calls
<1>. DEFINE e == [calls[b] EXCEPT !.entered = @ + 1]
<1>3. e \in Calls
  BY <1>1 DEF Calls
<1>4. \A c \in Calls : [c EXCEPT !.st = "asked"].st # "done"
  BY DEF Calls
<1>. HIDE DEF e
<1>5. PICK n : Becomes(b, n) /\ (n.st = "done" => n.out \in Outcome)
  <2>1. {"value", "failure", "denied"} \subseteq Outcome
    BY DEF Outcome
  <2>2. CASE CallRefused(b)
    BY <1>1, <1>2, <2>1, <2>2 DEF CallRefused
  <2>3. CASE CallAsks(b)
    BY <1>1, <1>4, <2>3 DEF CallAsks
  <2>4. CASE CallDenied(b)
    BY <1>1, <1>2, <2>1, <2>4 DEF CallDenied
  <2>5. CASE CallEnters(b)
    <3>1. \/ Becomes(b, [e EXCEPT !.st = "asked"])
          \/ \E out \in {"value", "failure"} : Becomes(b, Returns(e, out))
      BY <2>5 DEF CallEnters, e
    <3>. QED
      BY <1>2, <1>3, <1>4, <2>1, <3>1
  <2>. QED
    BY <2>2, <2>3, <2>4, <2>5 DEF BranchStep
<1>. QED
  BY <1>5 DEF Becomes, Outcomes

LEMMA NoCallsTypes == calls' = NoCalls => Outcomes'
BY DEF Outcomes, NoCalls

(* What a query resets: nothing of the answers, and no call is left.       *)
LEMMA NewRunTypes ==
  ASSUME TInv, NewRun
  PROVE  Answers' /\ Outcomes' /\ run' \in Nat /\ run < run'
<1>1. run' = run + 1 /\ run < MaxRuns /\ calls' = NoCalls /\ UNCHANGED answer
  <2>. USE DEF NoCalls, answer, Chain, Router, Parallel, EvalOpt, Orchestrator
  <2>1. CASE Chain /\ C!NewRun
    BY <2>1 DEF C!NewRun, C!StartRun, C!NoCalls, C!answer
  <2>2. CASE Router /\ R!NewRun
    BY <2>2 DEF R!NewRun, R!StartRun, R!NoCalls, R!answer
  <2>3. CASE Parallel /\ P!NewRun
    BY <2>3 DEF P!NewRun, P!StartRun, P!NoCalls, P!answer
  <2>4. CASE EvalOpt /\ E!NewRun
    BY <2>4 DEF E!NewRun, E!StartRun, E!NoCalls, E!answer
  <2>5. CASE Orchestrator /\ O!NewRun
    BY <2>5 DEF O!NewRun, O!StartRun, O!NoCalls, O!answer
  <2>. QED
    BY <2>1, <2>2, <2>3, <2>4, <2>5 DEF NewRun
<1>2. Answers /\ MaxRuns \in Nat
  BY TypesGiveAnswers, RunsAssumption
<1>3. run \in Nat /\ run' \in Nat /\ run < run' /\ run' \in 1 .. MaxRuns
  BY <1>1, <1>2 DEF Answers
<1>4. {final, result, error} \subseteq 0 .. run'
  BY <1>2, <1>3 DEF Answers
<1>. QED
  BY <1>1, <1>3, <1>4, NoCallsTypes DEF Answers, answer

(* Router                                                                  *)
LEMMA RouterTypes ==
  ASSUME TInv, WInv', Router, R!Machine \/ R!NewRun
  PROVE  TypeOK' /\ Outcomes'
<1>. USE DEF answer, R!answer, NoCalls, R!NoCalls
<1>1. /\ pattern = "router" /\ pattern' = "router" /\ R!TypeOK /\ Outcomes /\ Answers
      /\ WInv /\ RouterInv' /\ 0 \in 0 .. run /\ run \in 0 .. run
  BY TypesGiveAnswers DEF TInv, TypeOK, Router, WInv, Answers
<1>2. SUFFICES /\ Answers' /\ Outcomes' /\ fallback' \in Fallbacks
               /\ route' \in Routes \cup {fallback', "none"} /\ route_args' \in R!ArgShapes
               /\ chose' \in Routes \cup {fallback', "none"} /\ called' \in Seq(Tools)
  BY <1>1, BaseTypes DEF TypeOK, R!TypeOK, R!BaseTypeOK, RouterInv, Calls, R!Calls,
    Outcome, R!Outcome
<1>3. /\ fallback \in Fallbacks /\ route \in Routes \cup {fallback, "none"}
      /\ route_args \in R!ArgShapes /\ chose \in Routes \cup {fallback, "none"}
      /\ called \in Seq(Tools)
  BY <1>1 DEF R!TypeOK
<1>4. CASE R!NewRun
  <2>1. NewRun
    BY <1>4 DEF NewRun, Router
  <2>. QED
    BY <1>3, <1>4, <2>1, NewRunTypes DEF R!NewRun
<1>5. CASE R!Classify \/ R!ClassifyFails \/ R!ClassifyRaises \/ R!CallRaises
  BY <1>1, <1>3, <1>5 DEF R!Classify, R!ClassifyFails, R!ClassifyRaises, R!CallRaises, R!Picks,
    R!EndedWith, R!Raises, R!own, Answers, Outcomes, R!ArgShapes
<1>6. CASE R!CallRoute
  <2>1. route \in Tools /\ called' = Append(called, route)
        /\ UNCHANGED <<answer, run, fallback, route, route_args, chose>>
    BY <1>6 DEF R!CallRoute
  <2>2. Outcomes'
    BY <1>6 DEF R!CallRoute, R!Call, Outcomes
  <2>. QED
    BY <1>1, <1>3, <2>1, <2>2 DEF Answers
<1>7. CASE R!InRoute
  <2>1. PICK b \in DOMAIN calls : BranchStep(b)
    BY <1>7, SameCallSteps DEF R!InRoute, CallStep
  <2>. QED
    BY <1>1, <1>3, <1>7, <2>1, CallStepTypes DEF R!InRoute, R!own, Answers
<1>8. CASE R!RouteReturns
  BY <1>1, <1>3, <1>8, NoCallsTypes DEF R!RouteReturns, R!EndedWith, R!EndsOk, R!own, Answers
<1>. QED
  BY <1>4, <1>5, <1>6, <1>7, <1>8 DEF R!Machine

(* Parallel                                                                *)
LEMMA ParallelTypes ==
  ASSUME TInv, WInv', Parallel, P!Machine \/ P!NewRun
  PROVE  TypeOK' /\ Outcomes'
<1>. USE DEF answer, P!answer, NoCalls, P!NoCalls
<1>1. /\ pattern = "parallel" /\ pattern' = "parallel" /\ P!TypeOK /\ Outcomes /\ Answers
      /\ WInv /\ ParallelInv /\ ParallelInv' /\ 0 \in 0 .. run /\ run \in 0 .. run
  BY TypesGiveAnswers DEF TInv, TypeOK, Parallel, WInv, Answers
<1>. DEFINE Held == DOMAIN branches \subseteq DOMAIN Sections
                    /\ branches \in [DOMAIN branches -> [run : 1 .. run, out : Outcome]]
<1>2. SUFFICES Answers' /\ Outcomes' /\ Held'
  BY <1>1, BaseTypes DEF TypeOK, P!TypeOK, P!BaseTypeOK, P!Branch, ParallelInv, Calls, P!Calls,
    Outcome, P!Outcome
<1>3. Held
  BY <1>1 DEF P!TypeOK, P!Branch, Outcome, P!Outcome
<1>4. CASE P!NewRun
  <2>1. NewRun
    BY <1>4 DEF NewRun, Parallel
  <2>2. branches' = branches
    BY <1>4 DEF P!NewRun, P!own
  <2>3. run \in Nat /\ run' \in Nat /\ run < run' /\ Answers' /\ Outcomes'
    BY <1>1, <2>1, NewRunTypes DEF Answers
  <2>4. [run : 1 .. run, out : Outcome] \subseteq [run : 1 .. run', out : Outcome]
    BY <2>3
  <2>. QED
    BY <1>3, <2>2, <2>3, <2>4
<1>5. CASE P!FanOut
  BY <1>1, <1>3, <1>5 DEF P!FanOut, P!Call, P!own, Answers, Outcomes
<1>6. CASE P!InBranch
  <2>1. PICK b \in DOMAIN calls : BranchStep(b)
    BY <1>6, SameCallSteps DEF P!InBranch, CallStep
  <2>. QED
    BY <1>1, <1>3, <1>6, <2>1, CallStepTypes DEF P!InBranch, P!own, Answers
<1>7. CASE P!Barrier
  <2>1. /\ AllReturned /\ pc = "branch" /\ calls' = NoCalls /\ UNCHANGED <<answer, run>>
        /\ branches' = P!Merge(branches, [b \in P!Branch |-> [run |-> run, out |-> calls[b].out]])
    BY <1>7, SameReturns DEF P!Barrier
  <2>2. \A b \in DOMAIN Sections : calls[b].out \in Outcome
    BY <1>1, <2>1 DEF AllReturned, Outcomes, ParallelInv
  <2>3. run \in 1 .. run
    BY <1>1 DEF Answers
  <2>4. Held'
    BY <1>3, <2>1, <2>2, <2>3 DEF P!Merge, P!Branch
  <2>. QED
    BY <1>1, <2>1, <2>4, NoCallsTypes DEF Answers
<1>8. CASE P!Combine \/ P!CombineFails \/ P!CombineRaises
  BY <1>1, <1>3, <1>8 DEF P!Combine, P!CombineFails, P!CombineRaises, P!EndsOk, P!Raises, P!own,
    Answers, Outcomes
<1>. QED
  BY <1>4, <1>5, <1>6, <1>7, <1>8 DEF P!Machine

(* Evaluator-optimizer                                                     *)
LEMMA EvalOptTypes ==
  ASSUME TInv, WInv', EvalOpt, E!Machine \/ E!NewRun
  PROVE  TypeOK' /\ Outcomes'
<1>. USE DEF answer, E!answer, NoCalls, E!NoCalls
<1>1. /\ pattern = "evalopt" /\ pattern' = "evalopt" /\ E!TypeOK /\ Outcomes /\ Answers
      /\ WInv /\ EvalOptInv /\ EvalOptInv' /\ 0 \in 0 .. run /\ run \in 0 .. run
  BY TypesGiveAnswers DEF TInv, TypeOK, EvalOpt, WInv, Answers
<1>. DEFINE Typed == /\ Answers /\ Outcomes /\ {draft, feedback} \subseteq E!Drafts /\ rounds \in Nat
                     /\ shown \in [draft : E!Drafts, feedback : E!Drafts]
                     /\ verdict \in [of : E!Drafts, pass : BOOLEAN]
<1>2. SUFFICES Typed'
  BY <1>1, BaseTypes DEF TypeOK, E!TypeOK, E!BaseTypeOK, EvalOptInv, Calls, E!Calls,
    Outcome, E!Outcome
<1>3. /\ draft \in E!Drafts /\ feedback \in E!Drafts /\ rounds \in Nat
      /\ shown \in [draft : E!Drafts, feedback : E!Drafts] /\ verdict \in [of : E!Drafts, pass : BOOLEAN]
  BY <1>1 DEF E!TypeOK
<1>4. CASE E!NewRun
  <2>1. NewRun
    BY <1>4 DEF NewRun, EvalOpt
  <2>. QED
    BY <1>3, <1>4, <2>1, NewRunTypes DEF E!NewRun, E!own
<1>5. ASSUME E!Generated, pc = "generate" PROVE Typed'
  <2>1. iteration < MaxDrafts /\ iteration \in Nat /\ MaxDrafts \in Nat /\ run \in 1 .. MaxRuns
    BY <1>1, <1>5, ConfigAssumption DEF EvalOptInv, WInv, Common, Answers, E!RoundsAssumption
  <2>2. draft' \in E!Drafts
    <3>1. iteration + 1 \in 1 .. MaxDrafts
      BY <2>1
    <3>. QED
      BY <1>5, <2>1, <3>1 DEF E!Generated, E!Drafts
  <2>. QED
    BY <1>1, <1>3, <1>5, <2>2, NoCallsTypes DEF E!Generated, Answers
<1>6. CASE E!Generate
  BY <1>5, <1>6 DEF E!Generate
<1>7. CASE E!CallGenerator
  BY <1>1, <1>3, <1>7 DEF E!CallGenerator, E!Call, E!own, Answers, Outcomes
<1>8. CASE E!InGenerator
  <2>1. PICK b \in DOMAIN calls : BranchStep(b)
    BY <1>8, SameCallSteps DEF E!InGenerator, CallStep
  <2>. QED
    BY <1>1, <1>3, <1>8, <2>1, CallStepTypes DEF E!InGenerator, E!own, Answers
<1>9. CASE E!GeneratorReturns
  <2>1. pc = "generate"
    BY <1>1, <1>9, SameReturns, NobodyWaits DEF E!GeneratorReturns, EvalOptInv
  <2>2. CASE E!Generated
    BY <1>5, <2>1, <2>2
  <2>3. CASE E!EndedWith /\ calls' = NoCalls /\ UNCHANGED <<iteration, run, E!own>>
    BY <1>1, <1>3, <2>3, NoCallsTypes DEF E!EndedWith, E!own, Answers
  <2>. QED
    BY <1>9, <2>2, <2>3 DEF E!GeneratorReturns
<1>10. CASE \E pass \in BOOLEAN : E!Evaluate(pass)
  BY <1>1, <1>3, <1>10 DEF E!Evaluate, Answers, Outcomes
<1>11. CASE E!EvaluateFails \/ E!GenerateRaises \/ E!EvaluateRaises
  BY <1>1, <1>3, <1>11 DEF E!EvaluateFails, E!GenerateRaises, E!EvaluateRaises, E!EndedWith,
    E!Raises, E!own, Answers, Outcomes
<1>. QED
  BY <1>4, <1>6, <1>7, <1>8, <1>9, <1>10, <1>11 DEF E!Machine

(* Orchestrator and workers                                                *)
LEMMA OrchestratorTypes ==
  ASSUME TInv, WInv', Orchestrator, O!Machine \/ O!NewRun
  PROVE  TypeOK' /\ Outcomes' /\ (pc' = "work" => iteration' # 0)
<1>. USE DEF answer, O!answer, NoCalls, O!NoCalls
<1>1. /\ pattern = "orchestrator" /\ pattern' = "orchestrator" /\ O!TypeOK /\ Outcomes /\ Answers
      /\ WInv /\ OrchestratorInv /\ OrchestratorInv' /\ 0 \in 0 .. run /\ run \in 0 .. run
      /\ pc = "work" => iteration # 0
      /\ iteration \in Nat /\ MaxWorkers \in Nat \ {0} /\ MaxRounds \in Nat \ {0}
  BY TypesGiveAnswers, ConfigAssumption
     DEF TInv, TypeOK, Orchestrator, WInv, Common, Answers, O!LimitsAssumption
<1>. DEFINE Kept == /\ DOMAIN work \subseteq 1 .. MaxWorkers /\ work \in [DOMAIN work -> O!Round]
                    /\ DOMAIN seen \subseteq 1 .. MaxWorkers /\ seen \in [DOMAIN seen -> O!Round]
            Subs == subtasks \in Seq(Workers) /\ Len(subtasks) <= MaxWorkers
                    /\ flawed \in 0 .. Len(subtasks)
            Typed == Answers /\ Outcomes /\ (pc = "work" => iteration # 0) /\ Kept /\ Subs
<1>2. SUFFICES Typed'
  BY <1>1, BaseTypes DEF TypeOK, O!TypeOK, O!BaseTypeOK, OrchestratorInv, Calls, O!Calls,
    Outcome, O!Outcome
<1>3. Kept /\ Subs
  BY <1>1 DEF O!TypeOK
<1>4. CASE O!NewRun
  <2>1. NewRun
    BY <1>4 DEF NewRun, Orchestrator
  <2>2. pc' = "orchestrate"
    BY <1>4 DEF O!NewRun, O!StartRun
  <2>. QED
    BY <1>3, <1>4, <2>1, <2>2, NewRunTypes DEF O!NewRun, O!own
<1>5. ASSUME NEW n \in 1 .. MaxWorkers + 1, NEW plan \in [1 .. n -> Workers], O!Orchestrate(plan)
      PROVE  Typed'
  <2>. DEFINE m == IF Len(plan) > MaxWorkers THEN MaxWorkers ELSE Len(plan)
  <2>1. plan \in Seq(Workers) /\ Len(plan) = n /\ m \in 0 .. Len(plan) /\ m <= MaxWorkers
    BY <1>1
  <2>2. SubSeq(plan, 1, m) \in Seq(Workers) /\ Len(SubSeq(plan, 1, m)) = m
    <3>1. \A i \in 1 .. m : plan[i] \in Workers
      BY <2>1
    <3>. HIDE DEF m
    <3>. QED
      BY <1>1, <2>1, <3>1
  <2>3. DOMAIN SubSeq(plan, 1, m) = 1 .. m
    BY <2>2, LenProperties
  <2>4. Subs'
    <3>1. subtasks' = SubSeq(plan, 1, m) /\ flawed' \in {0} \cup DOMAIN SubSeq(plan, 1, m)
      BY <1>5 DEF O!Orchestrate
    <3>. HIDE DEF m
    <3>. QED
      BY <1>1, <2>1, <2>2, <2>3, <3>1
  <2>5. Outcomes'
    BY <1>5 DEF O!Orchestrate, O!Call, Outcomes
  <2>6. iteration' # 0 /\ UNCHANGED <<answer, run, work, seen>>
    BY <1>1, <1>5 DEF O!Orchestrate
  <2>. QED
    BY <1>1, <1>3, <2>4, <2>5, <2>6 DEF Answers
<1>6. CASE O!OrchestrateFails
  BY <1>1, <1>3, <1>6 DEF O!OrchestrateFails, O!EndedWith, Answers, Outcomes
<1>7. CASE O!InWorker
  <2>1. PICK b \in DOMAIN calls : BranchStep(b)
    BY <1>7, SameCallSteps DEF O!InWorker
  <2>. QED
    BY <1>1, <1>3, <1>7, <2>1, CallStepTypes DEF O!InWorker, O!own, Answers
<1>8. CASE O!Barrier
  <2>1. /\ pc = "work" /\ DOMAIN calls = DOMAIN subtasks /\ calls' = NoCalls /\ pc' = "synthesize"
        /\ work' = [i \in DOMAIN work \cup DOMAIN calls |->
                      IF i \in DOMAIN calls THEN O!Now ELSE work[i]]
        /\ UNCHANGED <<iteration, answer, run, subtasks, flawed, seen>>
    BY <1>1, <1>8 DEF O!Barrier, OrchestratorInv
  <2>2. O!Now \in O!Round
    <3>1. iteration \in 1 .. MaxRounds /\ run \in 1 .. MaxRuns
      BY <1>1, <2>1 DEF OrchestratorInv, Answers
    <3>. QED
      BY <3>1 DEF O!Now, O!Round
  <2>3. DOMAIN subtasks = 1 .. Len(subtasks) /\ Len(subtasks) \in Nat /\ Len(subtasks) <= MaxWorkers
    BY <1>3, LenProperties
  <2>4. DOMAIN work' \subseteq 1 .. MaxWorkers /\ work' \in [DOMAIN work' -> O!Round]
    <3>1. DOMAIN calls \subseteq 1 .. MaxWorkers
      BY <1>1, <2>1, <2>3
    <3>. QED
      BY <1>3, <2>1, <2>2, <3>1
  <2>. QED
    BY <1>1, <1>3, <2>1, <2>4, NoCallsTypes DEF Answers
<1>9. ASSUME O!Shows PROVE DOMAIN seen' \subseteq 1 .. MaxWorkers /\ seen' \in [DOMAIN seen' -> O!Round]
  BY <1>3, <1>9 DEF O!Shows
<1>10. CASE O!Finish \/ O!More \/ O!SynthesizeFails
  BY <1>1, <1>3, <1>9, <1>10 DEF O!Finish, O!More, O!SynthesizeFails, O!EndsOk, O!EndedWith,
    Answers, Outcomes
<1>11. CASE O!WorkRaises \/ O!PromptRaises
  BY <1>1, <1>3, <1>11 DEF O!WorkRaises, O!PromptRaises, O!Raises, O!own, Answers, Outcomes
<1>. QED
  BY <1>4, <1>5, <1>6, <1>7, <1>8, <1>10, <1>11 DEF O!Machine

(* Prompt chain                                                            *)
LEMMA ChainTypes ==
  ASSUME TInv, WInv', Chain, C!Machine \/ C!NewRun
  PROVE  TypeOK' /\ Outcomes'
<1>. USE DEF answer, C!answer, NoCalls, C!NoCalls
<1>1. /\ pattern = "chain" /\ pattern' = "chain" /\ C!TypeOK /\ Outcomes /\ Answers
      /\ WInv /\ ChainInv /\ ChainInv' /\ 0 \in 0 .. run /\ run \in 1 .. run
      /\ Len(Steps) \in Nat /\ DOMAIN Steps = 1 .. Len(Steps)
  BY TypesGiveAnswers, ConfigAssumption, LenProperties
     DEF TInv, TypeOK, Chain, WInv, Answers, C!StepsAssumption
<1>. DEFINE Names == {C!Name(i) : i \in DOMAIN Steps}
            Outs(r) == [run : 1 .. r, step : DOMAIN Steps, out : Outcome]
            Held == /\ order \in Seq(Names) /\ outputs \in [DOMAIN outputs -> Outs(run)]
                    /\ DOMAIN outputs = {order[k] : k \in DOMAIN order}
            Ghosts == did \in Seq(DOMAIN Steps) /\ previous.step < Len(Steps) + 1
            Typed == Answers /\ Outcomes /\ Held /\ Ghosts
<1>2. SUFFICES Typed'
  BY <1>1, BaseTypes DEF TypeOK, C!TypeOK, C!BaseTypeOK, ChainInv, Calls, C!Calls,
    Outcome, C!Outcome, C!Name
<1>3. Held /\ Ghosts
  BY <1>1 DEF C!TypeOK, Outcome, C!Outcome
<1>4. CASE C!NewRun
  <2>1. NewRun
    BY <1>4 DEF NewRun, Chain
  <2>2. run \in Nat /\ run' \in Nat /\ run < run' /\ Answers' /\ Outcomes'
    BY <1>1, <2>1, NewRunTypes DEF Answers
  <2>3. Outs(run) \subseteq Outs(run')
    BY <2>2
  <2>4. UNCHANGED <<order, outputs>> /\ did' = <<>> /\ previous'.step = 0
    BY <1>4 DEF C!NewRun, C!NoOutput
  <2>. QED
    BY <1>1, <1>3, <2>2, <2>3, <2>4
<1>5. ASSUME NEW i \in DOMAIN Steps, C!Begin(i) PROVE Ghosts'
  <2>1. did' \in Seq(DOMAIN Steps)
    BY <1>3, <1>5 DEF C!Begin
  <2>2. C!Previous.step < Len(Steps) + 1
    <3>1. CASE order = <<>>
      BY <1>1, <3>1 DEF C!Previous, C!NoOutput
    <3>2. CASE order # <<>>
      <4>1. Len(order) \in DOMAIN order
        BY <1>3, <3>2, EmptySeq, LenProperties
      <4>2. outputs[order[Len(order)]].step \in DOMAIN Steps
        BY <1>3, <4>1
      <4>. QED
        BY <1>1, <3>2, <4>2 DEF C!Previous
    <3>. QED
      BY <3>1, <3>2
  <2>. QED
    BY <1>5, <2>1, <2>2 DEF C!Begin
<1>6. ASSUME NEW i \in DOMAIN Steps, NEW out \in Outcome, C!Record(i, out), run' = run PROVE Held'
  <2>. DEFINE n == C!Name(i)
  <2>1. outputs' \in [DOMAIN outputs' -> Outs(run')] /\ DOMAIN outputs' = DOMAIN outputs \cup {n}
    BY <1>1, <1>3, <1>6 DEF C!Record
  <2>2. CASE n \in DOMAIN outputs
    BY <1>3, <1>6, <2>1, <2>2 DEF C!Record
  <2>3. CASE n \notin DOMAIN outputs
    <3>1. order' = Append(order, n) /\ n \in Names
      BY <1>6, <2>3 DEF C!Record
    <3>. HIDE DEF Names, n
    <3>2. /\ order' \in Seq(Names) /\ DOMAIN order' = 1 .. Len(order) + 1 /\ Len(order) \in Nat
          /\ \A k \in 1 .. Len(order) : order'[k] = order[k]
          /\ order'[Len(order) + 1] = n /\ DOMAIN order = 1 .. Len(order)
      BY <1>3, <3>1, AppendProperties, LenProperties
    <3>3. {order'[k] : k \in DOMAIN order'} = {order[k] : k \in DOMAIN order} \cup {n}
      <4>1. \A k \in 1 .. Len(order) + 1 : k \in 1 .. Len(order) \/ k = Len(order) + 1
        BY <3>2
      <4>2. \A k \in 1 .. Len(order) : k \in 1 .. Len(order) + 1
        BY <3>2
      <4>3. Len(order) + 1 \in 1 .. Len(order) + 1
        BY <3>2
      <4>. QED
        BY <3>2, <4>1, <4>2, <4>3
    <3>. QED
      BY <1>3, <2>1, <3>2, <3>3
  <2>. QED
    BY <2>2, <2>3
<1>7. ASSUME NEW i \in DOMAIN Steps, NEW out \in Outcome, C!Pass(i, out)
      PROVE  Held' /\ Answers' /\ Outcomes'
  <2>1. C!Record(i, out) /\ run' = run /\ calls' = NoCalls
    BY <1>7 DEF C!Pass
  <2>2. Answers'
    BY <1>1, <1>7 DEF C!Pass, C!EndedWith, C!EndsOk, Answers
  <2>. QED
    BY <1>6, <2>1, <2>2, NoCallsTypes
<1>. HIDE DEF Held, Ghosts
<1>8. ASSUME NEW i \in DOMAIN Steps, C!LlmStep(i) PROVE Typed'
  BY <1>5, <1>7, <1>8 DEF C!LlmStep, Outcome
<1>9. ASSUME NEW i \in DOMAIN Steps, C!ToolStep(i) PROVE Typed'
  <2>1. Outcomes'
    BY <1>9 DEF C!ToolStep, C!Call, Outcomes
  <2>2. Held'
    BY <1>3, <1>9 DEF C!ToolStep, Held
  <2>. QED
    BY <1>1, <1>5, <1>9, <2>1, <2>2 DEF C!ToolStep, Answers
<1>10. CASE C!InTool
  <2>1. PICK b \in DOMAIN calls : BranchStep(b)
    BY <1>10, SameCallSteps DEF C!InTool, CallStep
  <2>. QED
    BY <1>1, <1>3, <1>10, <2>1, CallStepTypes DEF C!InTool, C!own, Answers, Held, Ghosts
<1>11. CASE C!ToolReturns
  <2>1. /\ AllReturned /\ UNCHANGED <<did, previous>>
        /\ \E i \in DOMAIN calls :
             \/ C!Pass(i, calls[i].out)
             \/ C!Record(i, calls[i].out) /\ C!EndedWith /\ calls' = NoCalls /\ run' = run
    BY <1>11, SameReturns DEF C!ToolReturns
  <2>2. \A i \in DOMAIN calls : i \in DOMAIN Steps /\ calls[i].out \in Outcome
    <3>1. DOMAIN calls = {step + 1} /\ step < Len(Steps) /\ step \in 0 .. Len(Steps)
      BY <1>1, <2>1 DEF ChainInv, AllReturned
    <3>2. step + 1 \in 1 .. Len(Steps)
      BY <1>1, <3>1
    <3>. QED
      BY <1>1, <2>1, <3>1, <3>2 DEF AllReturned, Outcomes
  <2>3. Ghosts'
    BY <1>3, <2>1 DEF Ghosts
  <2>4. C!EndedWith /\ run' = run => Answers'
    BY <1>1 DEF C!EndedWith, Answers
  <2>. QED
    BY <1>6, <1>7, <2>1, <2>2, <2>3, <2>4, NoCallsTypes
<1>12. CASE C!StepRaises
  BY <1>1, <1>3, <1>12 DEF C!StepRaises, C!Raises, C!own, Answers, Outcomes, Held, Ghosts
<1>. QED
  BY <1>4, <1>8, <1>9, <1>10, <1>11, <1>12 DEF C!Machine

LEMMA InitTInv == Init => TInv
<1>. SUFFICES ASSUME Init PROVE TInv
  OBVIOUS
<1>. USE DEF Init, BaseInit
<1>1. WInv /\ Outcomes /\ Answers
  BY InitWInv, RunsAssumption DEF Outcomes, NoCalls, Answers
<1>2. pc = First[pattern] /\ pattern \in DOMAIN First /\ calls = NoCalls /\ iteration = 0
      /\ status = "none" /\ final = 0 /\ result = 0 /\ error = 0 /\ run \in 1 .. MaxRuns /\ run = 1
      /\ pc # "work"
  BY ConfigAssumption, RunsAssumption DEF First
<1>. USE DEF First, NoCalls
<1>3. ASSUME pattern = "chain" PROVE TypeOK
  <2>1. Len(Steps) \in Nat
    BY ConfigAssumption, LenProperties DEF C!StepsAssumption
  <2>. QED
    BY <1>2, <1>3, <2>1 DEF TypeOK, C!TypeOK, C!BaseTypeOK, C!OwnInit, C!NoOutput
<1>4. ASSUME pattern = "router" PROVE TypeOK
  BY <1>2, <1>4 DEF TypeOK, R!TypeOK, R!BaseTypeOK, R!OwnInit, R!ArgShapes
<1>5. ASSUME pattern = "parallel" PROVE TypeOK
  BY <1>2, <1>5 DEF TypeOK, P!TypeOK, P!BaseTypeOK, P!OwnInit
<1>6. ASSUME pattern = "evalopt" PROVE TypeOK
  BY <1>2, <1>6 DEF TypeOK, E!TypeOK, E!BaseTypeOK, E!OwnInit, E!Drafts, E!NoDraft
<1>7. ASSUME pattern = "orchestrator" PROVE TypeOK
  BY <1>2, <1>7, ConfigAssumption
     DEF TypeOK, O!TypeOK, O!BaseTypeOK, O!OwnInit, O!NoWork, O!LimitsAssumption
<1>. QED
  BY <1>1, <1>2, <1>3, <1>4, <1>5, <1>6, <1>7 DEF TInv, WInv, Common

(* What says nothing new of the channels: a stutter, and the answers of    *)
(* the human.                                                              *)
LEMMA SameTypes ==
  ASSUME TInv, WInv', Outcomes', UNCHANGED <<pc, iteration, answer, status, run>>,
         UNCHANGED <<pattern, chain, router, parallel, evalopt, orchestrator>>
  PROVE  TInv'
<1>. USE DEF answer
<1>1. calls' \in [DOMAIN calls' -> Calls]
  BY DEF WInv, CallsOK
<1>2. CASE pattern = "chain"
  BY <1>1, <1>2 DEF TInv, TypeOK, C!TypeOK, C!BaseTypeOK, C!Name, chain,
    Calls, C!Calls, Outcome, C!Outcome
<1>3. CASE pattern = "router"
  BY <1>1, <1>3 DEF TInv, TypeOK, R!TypeOK, R!BaseTypeOK, router,
    Calls, R!Calls, Outcome, R!Outcome
<1>4. CASE pattern = "parallel"
  BY <1>1, <1>4 DEF TInv, TypeOK, P!TypeOK, P!BaseTypeOK, parallel,
    Calls, P!Calls, Outcome, P!Outcome
<1>5. CASE pattern = "evalopt"
  BY <1>1, <1>5 DEF TInv, TypeOK, E!TypeOK, E!BaseTypeOK, evalopt,
    Calls, E!Calls, Outcome, E!Outcome
<1>6. CASE pattern = "orchestrator"
  BY <1>1, <1>6 DEF TInv, TypeOK, O!TypeOK, O!BaseTypeOK, orchestrator,
    Calls, O!Calls, Outcome, O!Outcome
<1>. QED
  BY <1>2, <1>3, <1>4, <1>5, <1>6 DEF TInv, WInv, Common, First

LEMMA NextTInv == TInv /\ [Next]_vars => TInv'
<1>. SUFFICES ASSUME TInv, [Next]_vars PROVE TInv'
  OBVIOUS
<1>1. WInv'
  BY MachineSteps, RepliesKeep, NewRunKeeps, Stutter DEF Next, TInv
<1>2. CASE Machine \/ NewRun
  <2>1. CASE Chain /\ (C!Machine \/ C!NewRun)
    BY <1>1, <2>1, ChainTypes DEF TInv, Chain
  <2>2. CASE Router /\ (R!Machine \/ R!NewRun)
    BY <1>1, <2>2, RouterTypes DEF TInv, Router
  <2>3. CASE Parallel /\ (P!Machine \/ P!NewRun)
    BY <1>1, <2>3, ParallelTypes DEF TInv, Parallel
  <2>4. CASE EvalOpt /\ (E!Machine \/ E!NewRun)
    BY <1>1, <2>4, EvalOptTypes DEF TInv, EvalOpt
  <2>5. CASE Orchestrator /\ (O!Machine \/ O!NewRun)
    BY <1>1, <2>5, OrchestratorTypes DEF TInv
  <2>. QED
    BY <1>2, <2>1, <2>2, <2>3, <2>4, <2>5 DEF Machine, NewRun
<1>3. CASE Replies
  <2>1. PICK says \in [Asked -> {"yes", "no"}] : Answer(says)
    BY <1>3 DEF Replies, Human
  <2>2. calls \in [DOMAIN calls -> Calls] /\ Outcomes
    BY DEF TInv, WInv, CallsOK
  <2>3. Outcomes' /\ UNCHANGED <<pc, iteration, answer, status, run>>
    <3>1. \A c \in Calls : \A t : [c EXCEPT !.st = "ready", !.told = t].st = "ready"
      BY DEF Calls
    <3>2. \A b \in DOMAIN calls : b \notin Asked => calls'[b] = calls[b]
      BY <2>1 DEF Answer
    <3>3. \A b \in DOMAIN calls : b \in Asked => calls'[b].st = "ready"
      BY <2>1, <2>2, <3>1 DEF Answer
    <3>4. DOMAIN calls' = DOMAIN calls /\ UNCHANGED <<pc, iteration, answer, status, run>>
      BY <2>1 DEF Answer
    <3>. QED
      BY <2>2, <3>2, <3>3, <3>4 DEF Outcomes
  <2>. QED
    BY <1>1, <1>3, <2>3, SameTypes DEF Replies
<1>4. CASE UNCHANGED vars
  BY <1>1, <1>4, SameTypes DEF vars, base, TInv, Outcomes
<1>. QED
  BY <1>2, <1>3, <1>4 DEF Next

(* Every channel keeps its type, in any pattern: the answers are of runs   *)
(* there were, drafts, results and work of rounds within their limits      *)
(* (_Base, the state classes of patterns/workflows.py).                    *)
THEOREM TypeCorrect == Spec => []TypeOK
<1>1. TInv => TypeOK
  BY DEF TInv
<1>. QED
  BY <1>1, InitTInv, NextTInv, PTL DEF Spec

-----------------------------------------------------------------------------
(* Whichever branches of a step ask, and in whatever order they are        *)
(* answered: no gated tool is entered before the yes to its own call, none *)
(* oftener than it asks, and a worker with read-only rights enters none    *)
(* that writes (execute_tool, aresume_graph, read_only_scope).             *)
THEOREM CallsAllowed == Spec => []EntersAsAllowed
<1>1. ASSUME WInv PROVE EntersAsAllowed
  <2>1. GateBeforeEntry /\ EnteredOnce
    BY <1>1 DEF WInv, CallsOK, CallOK, GateBeforeEntry, EnteredOnce
  <2>2. ASSUME pattern = "orchestrator" PROVE O!SingleWriter
    BY <1>1, <2>2 DEF WInv, CallsOK, CallOK, OrchestratorInv, O!SingleWriter
  <2>. QED
    BY <2>1, <2>2 DEF EntersAsAllowed
<1>. QED
  BY <1>1, Invariant, PTL

(* A router run calls the route it chose, once, and nothing else.          *)
THEOREM RoutesOnce == Spec => []OneRoute
<1>1. WInv => OneRoute
  BY DEF WInv, RouterInv, OneRoute, R!OneRoute
<1>. QED
  BY <1>1, Invariant, PTL

(* The steps of a chain on a fresh thread are taken in order, each after   *)
(* its predecessor succeeded, whatever the tools ask -- when no two steps  *)
(* share a name (step_node).                                               *)
THEOREM ChainInOrder == ASSUME StepsNamedApart PROVE Spec => []StepsInOrder
<1>1. ASSUME WInv PROVE StepsInOrder
  <2>. SUFFICES ASSUME pattern = "chain", run = 1 PROVE C!StepsInOrder
    BY DEF StepsInOrder, C!StepsInOrder
  <2>1. ChainInv /\ FreshChain /\ Common
    BY <1>1 DEF WInv
  <2>2. pc = "step" => status = "none" /\ Len(did) <= step + 1
    <3>1. Len(did) = step + (IF DOMAIN calls = {} THEN 0 ELSE 1) \/ pc # "step"
      BY <2>1 DEF FreshChain
    <3>2. step \in Int /\ (pc # "end" => status = "none")
      BY <2>1, ConfigAssumption, LenProperties DEF ChainInv, Common, C!StepsAssumption
    <3>. QED
      BY <3>1, <3>2
  <2>3. \A k \in 1 .. step : C!Name(k) \in DOMAIN outputs /\ ~ C!Failed(outputs[C!Name(k)].out)
    BY <2>1 DEF FreshChain, C!Failed, Failed
  <2>4. did = [k \in 1 .. Len(did) |-> k] /\ (did # <<>> => previous.step = did[Len(did)] - 1)
    BY <2>1 DEF FreshChain
  <2>. QED
    BY <2>2, <2>3, <2>4 DEF C!StepsInOrder
<1>. QED
  BY <1>1, Invariant, PTL

(* What a parallel run combines is of this run and of every branch, and it *)
(* ends with an error exactly when all of them failed -- when no two       *)
(* sections share a name (combine).                                        *)
THEOREM AllBranchesCombine == ASSUME SectionsNamedApart PROVE Spec => []BranchesCombine
<1>1. WInv => BranchesCombine
  BY DEF WInv, ParallelInv, BranchesCombine
<1>. QED
  BY <1>1, Invariant, PTL

(* Every revision is made from the draft rejected just before, and the     *)
(* answer of a run is the draft that was judged last, at the cap as well   *)
(* (generate, evaluate).                                                   *)
THEOREM DraftsJudged == Spec => []DraftsAreJudged
<1>1. WInv => DraftsAreJudged
  BY DEF WInv, EvalOptInv, DraftsAreJudged
<1>. QED
  BY <1>1, Invariant, PTL

(* A synthesis is shown the results of its own round, whatever work still  *)
(* holds of other rounds and other runs (synthesize).                      *)
THEOREM FreshSynthesis == Spec => []SynthesisIsFresh
<1>1. WInv => SynthesisIsFresh
  BY DEF WInv, OrchestratorInv, SynthesisIsFresh
<1>. QED
  BY <1>1, Invariant, PTL

(* How a run ended is what its status says, for every pattern and whatever *)
(* state earlier runs left the thread in (_ended_with).                    *)
THEOREM EndsAsItSays == Spec => []EndStatus
<1>1. ASSUME WInv PROVE EndStatus
  <2>1. EndHasAnswer
    BY <1>1 DEF WInv, Common
  <2>2. ASSUME pattern = "chain" PROVE C!OkMeansAllSteps
    <3>. SUFFICES ASSUME pc = "end", status = "ok"
                  PROVE  step = Len(Steps) /\ \A i \in DOMAIN Steps :
                           C!Name(i) \in DOMAIN outputs /\ ~ C!Failed(outputs[C!Name(i)].out)
      BY DEF C!OkMeansAllSteps
    <3>1. ChainInv /\ step = Len(Steps)
      BY <1>1, <2>2 DEF WInv, ChainInv
    <3>2. DOMAIN Steps = 1 .. step /\ step \in Nat
      BY <3>1, ConfigAssumption, LenProperties DEF C!StepsAssumption
    <3>3. \A i \in 1 .. step : Done(i)
      BY <3>1 DEF ChainInv
    <3>4. ~ (step < Len(Steps))
      BY <3>1, <3>2
    <3>. QED
      BY <3>1, <3>2, <3>3, <3>4 DEF Done, C!Failed, Failed
  <2>3. pattern = "evalopt" => E!CapRespected
    BY <1>1 DEF WInv, EvalOptInv, E!CapRespected
  <2>4. pattern = "orchestrator" => O!CapRespected
    BY <1>1 DEF WInv, OrchestratorInv, O!CapRespected
  <2>5. pattern # "evalopt" /\ pc = "end" => status # "none"
    BY <1>1 DEF WInv, Common, First, ChainInv, RouterInv, ParallelInv, OrchestratorInv
  <2>. QED
    BY <2>1, <2>2, <2>3, <2>4, <2>5 DEF EndStatus
<1>. QED
  BY <1>1, Invariant, PTL

LEMMA StepOfContract ==
  ASSUME WInv, Next
  PROVE  [Contract!Next]_(Contract!vars)
<1>. USE DEF Contract!Next, Contract!vars, Contract!Start, Contract!Pause, Contract!Resume,
             Contract!End, Contract!Raise, Contract!Leave, Phase
<1>1. /\ pc # "end" => status = "none"
      /\ pc = "end" => ~ Waiting
      /\ pc = "raised" => ~ Waiting
  BY DEF WInv, Common, Waiting, Asked
<1>2. CASE Machine
  <2>1. /\ WInv'
        /\ Onward \/ ((pc = "raised" \/ ~ Waiting) /\ pc # "end" /\ UNCHANGED <<pc, status>>)
    BY <1>2, MachineSteps
  <2>2. /\ pc' # "end" => status' = "none"
        /\ pc' = "end" => status' \in {"none", "ok", "error"}
    BY <2>1 DEF WInv, Common
  <2>. HIDE DEF Contract!vars
  <2>3. CASE Onward
    BY <1>1, <2>2, <2>3 DEF Onward, Contract!vars
  <2>4. CASE (pc = "raised" \/ ~ Waiting) /\ pc # "end" /\ UNCHANGED <<pc, status>>
    BY <2>4 DEF Contract!vars
  <2>. QED
    BY <2>1, <2>3, <2>4
<1>3. CASE Replies
  <2>1. PICK says \in [Asked -> {"yes", "no"}] : Answer(says)
    BY <1>3 DEF Replies, Human
  <2>2. Waiting /\ UNCHANGED <<pc, status>>
    BY <2>1 DEF Answer
  <2>3. DOMAIN calls' = DOMAIN calls /\ \A d \in DOMAIN calls : calls'[d].st # "asked"
    <3>1. CallsOK
      BY DEF WInv
    <3>2. SameCalls
      BY <2>1, <3>1, AnswerOK
    <3>3. \A d \in DOMAIN calls : calls'[d].st # "asked"
      <4>. TAKE d \in DOMAIN calls
      <4>1. calls[d] \in Calls
        BY <3>1 DEF CallsOK
      <4>2. /\ d \in Asked => calls'[d] = [calls[d] EXCEPT !.st = "ready",
                                                     !.told = Append(@, says[d])]
            /\ d \notin Asked => calls'[d] = calls[d]
        BY <2>1 DEF Answer
      <4>3. CASE d \in Asked
        BY <4>1, <4>2, <4>3 DEF Calls
      <4>4. CASE d \notin Asked
        BY <4>2, <4>4 DEF Asked
      <4>. QED
        BY <4>3, <4>4
    <3>. QED
      BY <3>2, <3>3 DEF SameCalls
  <2>4. ~ Waiting'
    BY <2>3 DEF Waiting, Asked
  <2>. QED
    BY <1>1, <2>2, <2>4
<1>4. CASE NewRun
  <2>1. /\ pc \in {"end", "raised"} \/ Waiting
        /\ status' = "none" /\ calls' = NoCalls /\ pc' \notin {"end", "raised"}
    <3>. USE DEF NoCalls, Waiting, Asked, Ready, Chain, Router, Parallel, EvalOpt, Orchestrator
    <3>1. CASE Chain /\ C!NewRun
      BY <3>1 DEF C!NewRun, C!StartRun, C!NoCalls, C!Waiting, C!Asked, C!Ready
    <3>2. CASE Router /\ R!NewRun
      BY <3>2 DEF R!NewRun, R!StartRun, R!NoCalls, R!Waiting, R!Asked, R!Ready
    <3>3. CASE Parallel /\ P!NewRun
      BY <3>3 DEF P!NewRun, P!StartRun, P!NoCalls, P!Waiting, P!Asked, P!Ready
    <3>4. CASE EvalOpt /\ E!NewRun
      BY <3>4 DEF E!NewRun, E!StartRun, E!NoCalls, E!Waiting, E!Asked, E!Ready
    <3>5. CASE Orchestrator /\ O!NewRun
      BY <3>5 DEF O!NewRun, O!StartRun, O!NoCalls, O!Waiting, O!Asked, O!Ready
    <3>. QED
      BY <1>4, <3>1, <3>2, <3>3, <3>4, <3>5 DEF NewRun
  <2>2. ~ Waiting'
    BY <2>1 DEF NoCalls, Waiting, Asked
  <2>. QED
    BY <2>1, <2>2
<1>. QED
  BY <1>2, <1>3, <1>4 DEF Next

(* Whatever its tools, its model and the human do: to its caller every run *)
(* of a workflow pattern is a run of the contract.                         *)
THEOREM WorkflowsImplementContract == Spec => ImplementsContract
<1>1. Init => Contract!Init
  <2>. SUFFICES ASSUME Init PROVE Contract!Init
    OBVIOUS
  <2>1. pattern \in DOMAIN First /\ pc = First[pattern] /\ calls = NoCalls /\ status = "none"
    BY ConfigAssumption DEF Init, BaseInit, First
  <2>2. pc \notin {"end", "raised"} /\ ~ Waiting
    BY <2>1 DEF First, NoCalls, Waiting, Asked
  <2>. QED
    BY <2>1, <2>2 DEF Contract!Init, Phase
<1>2. WInv /\ [Next]_vars => [Contract!Next]_(Contract!vars)
  <2>1. UNCHANGED vars => UNCHANGED Contract!vars
    BY DEF vars, base, answer, Contract!vars, Phase, Waiting, Asked, Ready
  <2>. QED
    BY <2>1, StepOfContract
<1>. QED
  BY <1>1, <1>2, Invariant, PTL DEF Spec, ImplementsContract, Contract!Spec
=============================================================================
