------------------------------ MODULE ReactProofs ------------------------------
(***************************************************************************)
(* Proofs about React, for any tools, questions, step cap and policy.      *)
(***************************************************************************)
EXTENDS React, SequenceTheorems, TLAPS

(* A run that goes on has steps left, and no status yet.                   *)
Going ==
  /\ pc = "act" => iteration < MaxSteps
  /\ pc # "end" => status = "none"

(* A pause is one of a tool's call, and the tool of the act in hand was    *)
(* entered once for each answer it got -- once more when it is waiting.    *)
EntryCount ==
  /\ paused => pc = "act" /\ action.tool \in Tools
  /\ pc = "act" /\ action.tool \in Tools =>
       IF paused THEN entered = Told + 1 /\ Told < Questions[action.tool]
       ELSE entered = (IF Told < 0 THEN 0 ELSE Told) /\ Told <= Questions[action.tool]

IInv ==
  /\ TypeOK
  /\ Going
  /\ EntryCount
  /\ StepPerAct
  /\ GateBeforeEntry
  /\ EnteredOnce
  /\ FoldedOnce
  /\ EndStatus

(* An action is a record whose fields are what they say.                   *)
LEMMA ActionFields ==
  /\ \A a \in ToolCalls : a.kind = "tool" /\ a.tool \in Names /\ a.object \in BOOLEAN
  /\ Finish.kind = "finish" /\ Finish.tool = Unknown
  /\ NoAction.kind = "none" /\ NoAction.tool = Unknown
BY DEF ToolCalls, Finish, NoAction

LEMMA InitIInv == Init => IInv
<1>. SUFFICES ASSUME Init PROVE IInv
  OBVIOUS
<1>. USE DEF Init
<1>1. TypeOK
  <2>1. scratchpad \in Seq(Observation) /\ resumed \in Seq({"yes", "no"}) /\ Len(scratchpad) = 0
    OBVIOUS
  <2>2. folded \in [1 .. 0 -> Nat]
    OBVIOUS
  <2>3. {final, result, error} \subseteq 0 .. run /\ run \in Nat
    OBVIOUS
  <2>. QED
    BY <2>1, <2>2, <2>3 DEF TypeOK
<1>2. Going /\ EntryCount /\ GateBeforeEntry /\ EnteredOnce /\ EndStatus
  BY ActionFields, ToolsAssumption
     DEF Going, EntryCount, GateBeforeEntry, EnteredOnce, EndStatus
<1>3. StepPerAct /\ FoldedOnce
  BY BoundsAssumption DEF StepPerAct, FoldedOnce
<1>. QED
  BY <1>1, <1>2, <1>3 DEF IInv

(* Compaction gives the compactor what it was not given before.            *)
LEMMA FoldStep ==
  ASSUME IInv, Fold \/ NoCompaction, scratchpad' = scratchpad
  PROVE  /\ FoldedOnce'
         /\ upto' \in Nat /\ summary' \subseteq 1 .. Len(scratchpad)
         /\ folded' \in [1 .. Len(scratchpad) -> Nat]
<1>. DEFINE n == Len(scratchpad)
<1>1. /\ n \in Nat /\ upto \in Nat /\ CompactKeep \in Nat
      /\ folded \in [1 .. n -> Nat] /\ summary \subseteq 1 .. n
      /\ \A i \in 1 .. n : folded[i] = IF i <= upto THEN 1 ELSE 0
      /\ summary \subseteq 1 .. upto
      /\ upto > 0 => upto + CompactKeep <= n
  BY BoundsAssumption DEF IInv, TypeOK, FoldedOnce
<1>. HIDE DEF n
<1>2. CASE NoCompaction
  BY <1>1, <1>2 DEF NoCompaction, FoldedOnce, n
<1>3. CASE Fold
  <2>1. /\ NewUpto = (IF n > CompactKeep THEN n - CompactKeep ELSE 0)
        /\ NewUpto > upto
    BY <1>3 DEF Fold, CompactDue, NewUpto, n
  <2>2. NewUpto \in Nat /\ NewUpto + CompactKeep <= n /\ NewUpto <= n
    BY <1>1, <2>1
  <2>3. /\ upto' = NewUpto
        /\ folded' = [i \in 1 .. n |-> IF i \in upto + 1 .. NewUpto THEN folded[i] + 1 ELSE folded[i]]
        /\ summary' \subseteq summary \cup (upto + 1 .. NewUpto)
    BY <1>1, <1>3 DEF Fold
  <2>4. \A i \in 1 .. n : folded'[i] = IF i <= NewUpto THEN 1 ELSE 0
    BY <1>1, <2>1, <2>2, <2>3
  <2>5. summary' \subseteq 1 .. NewUpto /\ summary' \subseteq 1 .. n
    BY <1>1, <2>1, <2>2, <2>3
  <2>6. folded' \in [1 .. n -> Nat]
    BY <1>1, <2>3
  <2>. QED
    BY <1>1, <2>2, <2>3, <2>4, <2>5, <2>6 DEF FoldedOnce, n
<1>. QED
  BY <1>2, <1>3

(* A decision of the model, whatever it is.                                *)
LEMMA DecideStep ==
  ASSUME IInv, NEW a \in ToolCalls \cup {Finish}, Decide(a), UNCHANGED run,
         {final', result', error'} \subseteq 0 .. run,
         a.kind = "tool" => status' = "none",
         a.kind = "finish" =>
           \/ status' = "ok" /\ final' \in {0, run}
           \/ status' = "error" /\ error' = run /\ final' = 0
  PROVE  IInv'
<1>1. /\ pc = "reason" /\ action' = a /\ iteration' = iteration + 1
      /\ pc' = (IF a.kind = "finish" \/ iteration' >= MaxSteps THEN "end" ELSE "act")
      /\ resumed' = <<>> /\ entered' = 0
      /\ UNCHANGED <<paused, scratchpad, notes, run, acts>>
  BY DEF Decide, Route
<1>2. /\ FoldedOnce'
      /\ upto' \in Nat /\ summary' \subseteq 1 .. Len(scratchpad)
      /\ folded' \in [1 .. Len(scratchpad) -> Nat]
  BY <1>1, FoldStep DEF Decide
<1>3. /\ acts = iteration /\ acts < MaxSteps /\ iteration \in Nat /\ MaxSteps \in Nat
      /\ ~ paused
  BY <1>1, BoundsAssumption DEF IInv, TypeOK, StepPerAct, EntryCount
<1>4. a.kind \in {"tool", "finish"} /\ (a.kind = "finish" => a.tool = Unknown)
  BY ActionFields
<1>5. TypeOK'
  <2>1. status' \in {"none", "ok", "error"}
    BY <1>4
  <2>2. action' \in {NoAction, Finish} \cup ToolCalls
    BY <1>1
  <2>3. resumed' \in Seq({"yes", "no"}) /\ iteration' \in Nat /\ entered' \in Nat
    BY <1>1, <1>3
  <2>4. {final', result', error'} \subseteq 0 .. run'
    OBVIOUS
  <2>. QED
    BY <1>1, <1>2, <2>1, <2>2, <2>3, <2>4 DEF IInv, TypeOK
<1>6. Going' /\ EndStatus' /\ StepPerAct'
  BY <1>1, <1>3, <1>4 DEF Going, EndStatus, StepPerAct
<1>7. EntryCount' /\ GateBeforeEntry' /\ EnteredOnce'
  <2>1. entered' = 0 /\ Len(resumed') = 0 /\ ~ paused'
    BY <1>1, <1>3
  <2>2. \A t \in Tools : Questions[t] \in Nat
    BY ToolsAssumption
  <2>3. Told' \in Int /\ Told' <= 0
    <3>1. CASE action'.tool \in Gated
      BY <2>1, <3>1 DEF Told
    <3>2. CASE action'.tool \notin Gated
      BY <2>1, <3>2 DEF Told
    <3>. QED
      BY <3>1, <3>2
  <2>4. EntryCount'
    BY <2>1, <2>2, <2>3 DEF EntryCount
  <2>5. GateBeforeEntry' /\ EnteredOnce'
    BY <2>1, <2>2 DEF GateBeforeEntry, EnteredOnce
  <2>. QED
    BY <2>4, <2>5
<1>. QED
  BY <1>2, <1>5, <1>6, <1>7 DEF IInv

(* An observation ends the act.                                            *)
LEMMA ObserveStep ==
  ASSUME IInv, pc = "act", ~ paused, NEW out \in Observation, Observe(out), notes' \in Nat,
         \/ entered' = entered
         \/ /\ entered' = entered + 1 /\ action.tool \in Tools
            /\ Told = Questions[action.tool] /\ GateSays = "yes"
  PROVE  IInv'
<1>. DEFINE n == Len(scratchpad)
<1>1. /\ scratchpad' = Append(scratchpad, out) /\ folded' = Append(folded, 0)
      /\ acts' = acts + 1 /\ pc' = "reason"
      /\ UNCHANGED <<paused, resumed, action, iteration, summary, upto,
                     final, result, error, status, run>>
  BY DEF Observe
<1>2. /\ acts = iteration - 1 /\ iteration < MaxSteps /\ acts \in Nat /\ iteration \in Nat
      /\ MaxSteps \in Nat /\ status = "none" /\ entered \in Nat
  BY BoundsAssumption DEF IInv, TypeOK, StepPerAct, Going
<1>3. /\ n \in Nat /\ Len(scratchpad') = n + 1 /\ scratchpad' \in Seq(Observation)
      /\ folded \in [1 .. n -> Nat]
  BY <1>1 DEF IInv, TypeOK
<1>4. /\ folded' \in [1 .. n + 1 -> Nat]
      /\ \A i \in 1 .. n : folded'[i] = folded[i]
      /\ folded'[n + 1] = 0
  <2>. HIDE DEF n
  <2>1. folded \in Seq(Nat) /\ Len(folded) = n
    BY <1>3
  <2>2. /\ Append(folded, 0) \in Seq(Nat) /\ Len(Append(folded, 0)) = n + 1
        /\ \A i \in 1 .. n : Append(folded, 0)[i] = folded[i]
        /\ Append(folded, 0)[n + 1] = 0
    BY <2>1, AppendProperties
  <2>3. \A s \in Seq(Nat) : Len(s) = n + 1 => s \in [1 .. n + 1 -> Nat]
    OBVIOUS
  <2>. QED
    BY <1>1, <2>2, <2>3
<1>5. FoldedOnce'
  <2>1. /\ \A i \in 1 .. n : folded[i] = IF i <= upto THEN 1 ELSE 0
        /\ summary \subseteq 1 .. upto /\ upto \in Nat
        /\ upto > 0 => upto + CompactKeep <= n
    BY <1>3 DEF IInv, TypeOK, FoldedOnce
  <2>2. upto <= n /\ CompactKeep \in Nat
    BY <1>3, <2>1, BoundsAssumption
  <2>3. \A i \in 1 .. n + 1 : folded'[i] = IF i <= upto THEN 1 ELSE 0
    BY <1>3, <1>4, <2>1, <2>2
  <2>4. DOMAIN folded' = 1 .. n + 1
    BY <1>4
  <2>. QED
    BY <1>1, <1>3, <2>1, <2>2, <2>3, <2>4 DEF FoldedOnce
<1>6. TypeOK'
  <2>1. summary' \subseteq 1 .. n + 1
    BY <1>1, <1>3 DEF IInv, TypeOK
  <2>2. entered' \in Nat /\ acts' \in Nat
    BY <1>1, <1>2
  <2>. HIDE DEF n
  <2>3. folded' \in [1 .. Len(scratchpad') -> Nat] /\ summary' \subseteq 1 .. Len(scratchpad')
    BY <1>3, <1>4, <2>1
  <2>. QED
    BY <1>1, <1>3, <2>2, <2>3 DEF IInv, TypeOK
<1>7. Going' /\ StepPerAct' /\ EndStatus'
  BY <1>1, <1>2 DEF Going, StepPerAct, EndStatus
<1>8. EntryCount'
  BY <1>1 DEF EntryCount
<1>9. GateBeforeEntry'
  <2>1. CASE entered' = entered
    BY <1>1, <2>1 DEF IInv, GateBeforeEntry
  <2>2. CASE GateSays = "yes"
    BY <1>1, <2>2 DEF GateSays, GateBeforeEntry
  <2>. QED
    BY <2>1, <2>2
<1>10. EnteredOnce'
  <2>1. CASE entered' = entered
    BY <1>1, <2>1 DEF IInv, EnteredOnce
  <2>2. CASE entered' = entered + 1 /\ action.tool \in Tools /\ Told = Questions[action.tool]
    <3>1. Questions[action.tool] \in Nat
      BY <2>2, ToolsAssumption
    <3>2. entered = Told
      BY <2>2, <3>1 DEF IInv, EntryCount
    <3>. QED
      BY <1>1, <2>2, <3>1, <3>2 DEF EnteredOnce
  <2>. QED
    BY <2>1, <2>2
<1>. QED
  BY <1>5, <1>6, <1>7, <1>8, <1>9, <1>10 DEF IInv

(* The human is asked by the gate, or by the tool.                         *)
LEMMA PauseStep ==
  ASSUME IInv, ActAsks \/ ActQuestion
  PROVE  IInv'
<1>1. /\ pc = "act" /\ ~ paused /\ paused' = TRUE
      /\ UNCHANGED <<pc, resumed, action, iteration, scratchpad, memory,
                     final, result, error, status, run, acts>>
  BY DEF ActAsks, ActQuestion, Calls
<1>2. /\ action.tool \in Tools /\ Questions[action.tool] \in Nat
      /\ Told \in Int /\ entered \in Nat
      /\ entered = (IF Told < 0 THEN 0 ELSE Told) /\ Told <= Questions[action.tool]
  <2>1. action.tool \in Tools
    BY ToolsAssumption DEF ActAsks, ActQuestion, GateSays, Callable
  <2>2. Told \in Int
    BY DEF Told, IInv, TypeOK
  <2>. QED
    BY <1>1, <2>1, <2>2, ToolsAssumption DEF IInv, TypeOK, EntryCount
<1>3. /\ Told' = Told /\ entered' \in Nat
      /\ entered' = Told + 1 /\ Told < Questions[action.tool]
  <2>1. Told' = Told
    BY <1>1 DEF Told
  <2>2. CASE ActAsks
    <3>1. Told = -1 /\ entered' = entered
      BY <2>2 DEF ActAsks, GateSays, Told, IInv, TypeOK
    <3>. QED
      BY <1>2, <2>1, <3>1
  <2>3. CASE ActQuestion
    <3>1. Told < Questions[action.tool] /\ entered' = entered + 1 /\ GateSays = "yes"
      BY <2>3 DEF ActQuestion
    <3>2. Told >= 0
      BY <3>1 DEF GateSays, Told, IInv, TypeOK
    <3>. QED
      BY <1>2, <2>1, <3>1, <3>2
  <2>. QED
    BY <2>2, <2>3
<1>4. TypeOK' /\ FoldedOnce' /\ EndStatus' /\ StepPerAct' /\ Going'
  BY <1>1, <1>3
     DEF IInv, TypeOK, FoldedOnce, EndStatus, StepPerAct, Going, memory
<1>5. EntryCount' /\ EnteredOnce'
  BY <1>1, <1>2, <1>3 DEF EntryCount, EnteredOnce
<1>6. GateBeforeEntry'
  <2>1. CASE ActAsks
    BY <1>1, <2>1 DEF ActAsks, IInv, GateBeforeEntry
  <2>2. CASE ActQuestion
    BY <1>1, <2>2 DEF ActQuestion, GateSays, GateBeforeEntry
  <2>. QED
    BY <2>1, <2>2
<1>. QED
  BY <1>4, <1>5, <1>6 DEF IInv

LEMMA AnswerStep ==
  ASSUME IInv, NEW a \in {"yes", "no"}, Answer(a)
  PROVE  IInv'
<1>1. /\ paused /\ ~ paused' /\ resumed' = Append(resumed, a)
      /\ UNCHANGED <<pc, action, iteration, scratchpad, memory,
                     final, result, error, status, run, acts, entered>>
  BY DEF Answer
<1>2. /\ resumed \in Seq({"yes", "no"}) /\ resumed' \in Seq({"yes", "no"})
      /\ Len(resumed') = Len(resumed) + 1
      /\ resumed # <<>> => resumed'[1] = resumed[1]
      /\ resumed' # <<>> /\ Len(resumed) \in Nat
  BY <1>1 DEF IInv, TypeOK
<1>3. TypeOK' /\ FoldedOnce' /\ EndStatus' /\ StepPerAct' /\ Going' /\ EnteredOnce'
  BY <1>1, <1>2
     DEF IInv, TypeOK, FoldedOnce, EndStatus, StepPerAct, Going, EnteredOnce, memory, Answer
<1>4. EntryCount'
  <2>1. /\ action.tool \in Tools /\ Questions[action.tool] \in Nat /\ entered \in Nat
        /\ entered = Told + 1 /\ Told < Questions[action.tool]
    BY <1>1, ToolsAssumption DEF IInv, TypeOK, EntryCount
  <2>2. Told' = Told + 1 /\ Told \in Int
    BY <1>1, <1>2 DEF Told
  <2>. QED
    BY <1>1, <2>1, <2>2 DEF EntryCount
<1>5. GateBeforeEntry'
  BY <1>1, <1>2 DEF IInv, GateBeforeEntry
<1>. QED
  BY <1>3, <1>4, <1>5 DEF IInv

(* The caller gets an exception; the thread stays as it was.               *)
LEMMA RaiseStep ==
  ASSUME IInv, ReasonRaises \/ HarnessRaises
  PROVE  IInv'
<1>1. /\ pc \in {"reason", "act"} /\ pc' = "raised" /\ ~ paused
      /\ UNCHANGED <<paused, resumed, action, iteration, scratchpad, memory,
                     final, result, error, status, run, acts, entered>>
  BY ToolsAssumption DEF ReasonRaises, HarnessRaises, IInv, EntryCount
<1>. QED
  BY <1>1 DEF IInv, TypeOK, Going, EntryCount, StepPerAct, GateBeforeEntry, EnteredOnce,
              FoldedOnce, EndStatus, memory

LEMMA NewRunStep ==
  ASSUME IInv, NewRun
  PROVE  IInv'
<1>1. /\ pc' = "reason" /\ ~ paused' /\ resumed' = <<>> /\ iteration' = 0 /\ acts' = 0
      /\ entered' = 0 /\ status' = "none" /\ run' = run + 1
      /\ UNCHANGED <<action, scratchpad, memory, final, result, error>>
  BY DEF NewRun
<1>2. run \in Nat /\ run' \in Nat /\ {final, result, error} \subseteq 0 .. run'
  <2>1. run \in Nat /\ {final, result, error} \subseteq 0 .. run
    BY DEF IInv, TypeOK
  <2>2. run' \in Nat /\ 0 .. run \subseteq 0 .. run'
    BY <1>1, <2>1
  <2>. QED
    BY <2>1, <2>2
<1>3. paused' \in BOOLEAN
  BY DEF NewRun
<1>4. TypeOK'
  <2>1. resumed' \in Seq({"yes", "no"})
    BY <1>1
  <2>. QED
    BY <1>1, <1>2, <1>3, <2>1 DEF IInv, TypeOK, memory
<1>5. Going' /\ EntryCount' /\ StepPerAct' /\ GateBeforeEntry' /\ EndStatus' /\ FoldedOnce'
  BY <1>1, BoundsAssumption
     DEF IInv, Going, EntryCount, StepPerAct, GateBeforeEntry, EndStatus, FoldedOnce, memory
<1>6. EnteredOnce'
  BY <1>1, ToolsAssumption DEF EnteredOnce
<1>. QED
  BY <1>4, <1>5, <1>6 DEF IInv

LEMMA NextIInv == IInv /\ [Next]_vars => IInv'
<1>. SUFFICES ASSUME IInv, [Next]_vars PROVE IInv'
  OBVIOUS
<1>1. CASE UNCHANGED vars
  BY <1>1 DEF vars, memory, IInv, TypeOK, Going, EntryCount, Told, StepPerAct,
              GateBeforeEntry, EnteredOnce, FoldedOnce, EndStatus
<1>2. CASE ReasonFinish
  <2>1. {final', result', error'} \subseteq 0 .. run /\ UNCHANGED run
    BY <1>2 DEF ReasonFinish, Decide, IInv, TypeOK
  <2>. QED
    BY <1>2, <2>1, DecideStep, ActionFields DEF ReasonFinish
<1>3. CASE ReasonGivesUp
  <2>1. {final', result', error'} \subseteq 0 .. run /\ UNCHANGED run
    BY <1>3 DEF ReasonGivesUp, Decide, IInv, TypeOK
  <2>. QED
    BY <1>3, <2>1, DecideStep, ActionFields DEF ReasonGivesUp
<1>4. CASE ReasonTool
  <2>1. {final', result', error'} \subseteq 0 .. run /\ UNCHANGED run
    BY <1>4 DEF ReasonTool, Decide, IInv, TypeOK
  <2>. QED
    BY <1>4, <2>1, DecideStep, ActionFields DEF ReasonTool
<1>5. CASE HarnessTool
  <2>1. pc = "act" /\ action.tool \in Harness /\ ~ paused
    BY <1>5, ToolsAssumption DEF HarnessTool, IInv, EntryCount
  <2>2. PICK out \in Observation : Observe(out)
    BY <1>5 DEF HarnessTool, Observation
  <2>3. notes' \in Nat /\ entered' = entered
    BY <1>5 DEF HarnessTool, IInv, TypeOK
  <2>. QED
    BY <2>1, <2>2, <2>3, ObserveStep
<1>6. CASE ActDenied \/ ActUncallable \/ ActReturns
  <2>1. pc = "act" /\ ~ paused /\ notes' \in Nat
    BY <1>6 DEF ActDenied, ActUncallable, ActReturns, Calls, IInv, TypeOK
  <2>2. PICK out \in Observation : Observe(out)
    BY <1>6 DEF ActDenied, ActUncallable, ActReturns, Observation
  <2>3. \/ entered' = entered
        \/ /\ entered' = entered + 1 /\ action.tool \in Tools
           /\ Told = Questions[action.tool] /\ GateSays = "yes"
    BY <1>6 DEF ActDenied, ActUncallable, ActReturns, Callable
  <2>. QED
    BY <2>1, <2>2, <2>3, ObserveStep
<1>. QED
  BY <1>1, <1>2, <1>3, <1>4, <1>5, <1>6, PauseStep, AnswerStep, RaiseStep, NewRunStep
     DEF Next, Machine, Human

LEMMA Invariant == Spec => []IInv
BY InitIInv, NextIInv, PTL DEF Spec
-----------------------------------------------------------------------------
(* Theorems                                                                *)

(* The thread's channels keep their types.                                 *)
THEOREM TypeCorrect == Spec => []TypeOK
<1>1. IInv => TypeOK
  BY DEF IInv
<1>. QED
  BY Invariant, <1>1, PTL

(* One observation for every decision to use a tool, and never more of     *)
(* them than the cap allows, however often act is executed again.          *)
THEOREM OneStepPerAct == Spec => []StepPerAct
<1>1. IInv => StepPerAct
  BY DEF IInv
<1>. QED
  BY Invariant, <1>1, PTL

(* A gated tool is entered after a yes to its gate only, and every tool as *)
(* often as its own questions make it, for any number of questions.        *)
THEOREM EntriesAllowed == Spec => []EntersAsAllowed
<1>1. IInv => EntersAsAllowed
  BY DEF IInv, EntersAsAllowed
<1>. QED
  BY Invariant, <1>1, PTL

(* Compaction covers every step exactly once, through any number of runs.  *)
THEOREM StepsFoldedOnce == Spec => []FoldedOnce
<1>1. IInv => FoldedOnce
  BY DEF IInv
<1>. QED
  BY Invariant, <1>1, PTL

(* The status alone tells how the latest run ended.                        *)
THEOREM EndsAsItSays == Spec => []EndStatus
<1>1. IInv => EndStatus
  BY DEF IInv
<1>. QED
  BY Invariant, <1>1, PTL
-----------------------------------------------------------------------------
(* The agent implements the contract                                       *)

LEMMA StepOfContract ==
  ASSUME IInv, Next
  PROVE  [Contract!Next]_(Contract!vars)
<1>. USE DEF Contract!Next, Contract!vars, Contract!Start, Contract!Pause, Contract!Resume,
             Contract!End, Contract!Raise, Contract!Leave, Phase
<1>1. /\ paused => pc = "act"
      /\ pc # "end" => status = "none"
  BY DEF IInv, EntryCount, Going
<1>2. CASE NewRun
  BY <1>2 DEF NewRun
<1>3. CASE ReasonFinish \/ ReasonGivesUp
  <2>1. /\ pc = "reason" /\ pc' = "end" /\ paused' = paused
        /\ status' \in {"none", "ok", "error"}
    BY <1>3, ActionFields DEF ReasonFinish, ReasonGivesUp, Decide, Route
  <2>. QED
    BY <1>1, <2>1
<1>4. CASE ReasonTool
  <2>1. pc = "reason" /\ pc' \in {"act", "end"} /\ paused' = paused /\ status' = "none"
    BY <1>4 DEF ReasonTool, Decide, Route
  <2>. QED
    BY <1>1, <2>1
<1>5. CASE HarnessTool \/ ActDenied \/ ActUncallable \/ ActReturns
  <2>1. pc = "act" /\ pc' = "reason" /\ ~ paused /\ paused' = paused /\ status' = status
    BY <1>5, ToolsAssumption
       DEF HarnessTool, ActDenied, ActUncallable, ActReturns, Observe, Calls, IInv, EntryCount
  <2>. QED
    BY <2>1
<1>6. CASE ActAsks \/ ActQuestion
  <2>1. pc = "act" /\ pc' = "act" /\ ~ paused /\ paused' /\ status' = status
    BY <1>6 DEF ActAsks, ActQuestion, Calls
  <2>. QED
    BY <2>1
<1>7. CASE ReasonRaises \/ HarnessRaises
  <2>1. /\ pc \in {"reason", "act"} /\ pc' = "raised" /\ ~ paused /\ status' = status
    BY <1>7, ToolsAssumption DEF ReasonRaises, HarnessRaises, IInv, EntryCount
  <2>. QED
    BY <2>1
<1>8. CASE \E a \in {"yes", "no"} : Answer(a)
  <2>1. paused /\ ~ paused' /\ pc' = pc /\ status' = status
    BY <1>8 DEF Answer
  <2>. QED
    BY <1>1, <2>1
<1>. QED
  BY <1>2, <1>3, <1>4, <1>5, <1>6, <1>7, <1>8 DEF Next, Machine, Human

(* Whatever the model, the tools and the human do: to its caller every run *)
(* of the loop is a run of the contract.                                   *)
THEOREM ReactImplementsContract == Spec => ImplementsContract
<1>1. Init => Contract!Init
  BY DEF Init, Contract!Init, Phase
<1>2. IInv /\ [Next]_vars => [Contract!Next]_(Contract!vars)
  <2>1. UNCHANGED vars => UNCHANGED Contract!vars
    BY DEF vars, Contract!vars, Phase
  <2>. QED
    BY <2>1, StepOfContract
<1>. QED
  BY <1>1, <1>2, Invariant, PTL DEF Spec, ImplementsContract, Contract!Spec
=============================================================================
