------------------------------- MODULE Delegate -------------------------------
(***************************************************************************)
(* Agents as tools of agents (AgentTool, core/tools.py): one step of a top *)
(* agent whose branches each call a tool. The tool may be a sub-agent,     *)
(* which calls tools of its own, and so on.                                *)
(*                                                                         *)
(* What an agent is about to do is checkpointed: a frame of the stack. The *)
(* code that is executing is not: after a question every level is entered  *)
(* again from the outside, through execute_tool and AgentTool.run, before  *)
(* the answer arrives where it was asked for, in the same process or in    *)
(* another one.                                                            *)
(***************************************************************************)
EXTENDS Integers, Sequences

CONSTANTS
  Agents,     \* sub-agents: names of AgentTools
  Functions,  \* plain tools
  Offers,     \* sub-agent -> the tools of its registry
  Calls,      \* branch of the top agent's step -> the tool it calls
  ReadOnly,   \* AgentTool(read_only=True)
  Schema,     \* sub-agent with an output_schema -> the schema
  Results,    \* what a sub-agent may leave in its result channel
  Gated, Writing, Questions,  \* as in Workflow
  MaxSteps    \* calls a sub-agent makes before its cap stops it

Tools == Agents \cup Functions
Branches == DOMAIN Calls

ASSUME AgentsAssumption ==
  /\ Agents \cap Functions = {} /\ {"none"} \cap Tools = {}
  /\ Offers \in [Agents -> SUBSET Tools] /\ Calls \in [Branches -> Tools]
  /\ ReadOnly \subseteq Agents /\ DOMAIN Schema \subseteq Agents
ASSUME FunctionsAssumption ==
  /\ Gated \subseteq Functions /\ Writing \subseteq Functions
  /\ Questions \in [Functions -> Nat] /\ MaxSteps \in Nat

VARIABLES
  stack,    \* branch -> frames, the top agent's call first
  scopes,   \* branch -> for each level being executed, whether it is read-only
  st,       \* branch -> "running", "asked" or "done"
  out,      \* branch -> what its call returned
  ended,    \* ghost: branch -> how the sub-agent it calls ended
  acts      \* ghost: the functions entered: [tool, told, under]

vars == <<stack, scopes, st, out, ended, acts>>

Frame == [tool : Tools \cup {"none"}, told : Seq({"yes", "no"}), steps : Nat]

Status == {"ok", "error", "capped"}

Nothing == [type |-> "null", fields |-> [k \in {} |-> "null"]]

Value(v) == [kind |-> "value", value |-> v]
Text == Value([Nothing EXCEPT !.type = "string"])
Failure == [kind |-> "failure", value |-> Nothing]
Denied == [kind |-> "denied", value |-> Nothing]
None == [kind |-> "none", value |-> Nothing]

Outcome == {Value(v) : v \in Results} \cup {Text, Failure, Denied, None}

TypeOK ==
  /\ stack \in [Branches -> Seq(Frame)]
  /\ scopes \in [Branches -> Seq(BOOLEAN)]
  /\ st \in [Branches -> {"running", "asked", "done"}]
  /\ out \in [Branches -> Outcome]
  /\ ended \in [Branches -> Status \cup {"none"}]
  /\ acts \subseteq [tool : Functions, told : Seq({"yes", "no"}), under : SUBSET Tools]

CallOf(tool, steps) == [tool |-> tool, told |-> <<>>, steps |-> steps]

Init ==
  /\ stack = [b \in Branches |-> <<CallOf(Calls[b], 0)>>]
  /\ scopes = [b \in Branches |-> <<FALSE>>]
  /\ st = [b \in Branches |-> "running"]
  /\ out = [b \in Branches |-> None]
  /\ ended = [b \in Branches |-> "none"]
  /\ acts = {}

-----------------------------------------------------------------------------
(* Results of a sub-agent                                                  *)

(* isinstance over JSON values: in Python a boolean is an integer.         *)
IsInstance(have, want) ==
  \/ have = want
  \/ want = "number" /\ have \in {"integer", "boolean"}
  \/ want = "integer" /\ have = "boolean"

(* Mutant: booleans pass for numbers in the properties as well.            *)
MatchesLoosely(schema, v) ==
  /\ IsInstance(v.type, schema.type)
  /\ v.type = "object" =>
       /\ schema.required \subseteq DOMAIN v.fields
       /\ \A k \in DOMAIN schema.properties \cap DOMAIN v.fields :
            IsInstance(v.fields[k], schema.properties[k])

(* schema_mismatch finds nothing: the type, the required keys, and the     *)
(* type of each declared property that is there, booleans no numbers.      *)
Matches(schema, v) ==
  /\ IsInstance(v.type, schema.type)
  /\ v.type = "object" =>
       /\ schema.required \subseteq DOMAIN v.fields
       /\ \A k \in DOMAIN schema.properties \cap DOMAIN v.fields :
            /\ IsInstance(v.fields[k], schema.properties[k])
            /\ schema.properties[k] \in {"number", "integer"} => v.fields[k] # "boolean"

(* AgentTool.run, once the sub-agent's run is over.                        *)
AgentReturns(agent, status, v) ==
  IF status # "ok" THEN Failure
  ELSE IF agent \notin DOMAIN Schema THEN Text
  ELSE IF Matches(Schema[agent], v) THEN Value(v) ELSE Failure

-----------------------------------------------------------------------------
(* One branch, at the level it is executing                                *)
Depth(b) == Len(scopes[b])
Top(b) == stack[b][Depth(b)]

Calling(b, tools) == st[b] = "running" /\ Top(b).tool \in tools

(* The call at level d is over: the branch is done, or the sub-agent that  *)
(* made it goes on, its own node having returned.                          *)
Return(b, d, o) ==
  /\ scopes' = [scopes EXCEPT ![b] = SubSeq(@, 1, d)]
  /\ IF d = 1
     THEN /\ st' = [st EXCEPT ![b] = "done"]
          /\ out' = [out EXCEPT ![b] = o]
          /\ stack' = [stack EXCEPT ![b] = SubSeq(@, 1, 1)]
     ELSE /\ stack' = [stack EXCEPT ![b] =
                         Append(SubSeq(@, 1, d - 1), CallOf("none", @[d].steps))]
          /\ UNCHANGED <<st, out>>

(* An interrupt unwinds every level: each scope is left on the way.        *)
Asks(b) ==
  /\ st' = [st EXCEPT ![b] = "asked"]
  /\ scopes' = [scopes EXCEPT ![b] = <<>>]
  /\ UNCHANGED <<out, ended>>

(* execute_tool reads the scope it is in.                                  *)
InScope(b) == scopes[b][Depth(b)]

Refused(b) ==
  /\ Calling(b, Writing)
  /\ InScope(b)
  /\ Return(b, Depth(b), Failure)
  /\ UNCHANGED <<ended, acts>>

Passes(b, tools) == Calling(b, tools) /\ ~ (InScope(b) /\ Top(b).tool \in Writing)

GateAsks(b) ==
  /\ Passes(b, Gated)
  /\ Top(b).told = <<>>
  /\ Asks(b)
  /\ UNCHANGED <<stack, acts>>

GateDenies(b) ==
  /\ Passes(b, Gated)
  /\ Top(b).told # <<>> /\ Top(b).told[1] = "no"
  /\ Return(b, Depth(b), Denied)
  /\ UNCHANGED <<ended, acts>>

GateOpen(f) == f.tool \notin Gated \/ (f.told # <<>> /\ f.told[1] = "yes")

Answers(f) == Len(f.told) - (IF f.tool \in Gated THEN 1 ELSE 0)

Entry(b) ==
  [tool |-> Top(b).tool, told |-> Top(b).told,
   under |-> {stack[b][i].tool : i \in 1 .. Depth(b) - 1}]

(* The function runs up to a question of its own, or to its end.           *)
FunctionAsks(b) ==
  /\ Passes(b, Functions)
  /\ GateOpen(Top(b))
  /\ Answers(Top(b)) < Questions[Top(b).tool]
  /\ acts' = acts \cup {Entry(b)}
  /\ Asks(b)
  /\ UNCHANGED stack

FunctionReturns(b) ==
  /\ Passes(b, Functions)
  /\ GateOpen(Top(b))
  /\ Answers(Top(b)) >= Questions[Top(b).tool]
  /\ acts' = acts \cup {Entry(b)}
  /\ \E o \in {Text, Failure} : Return(b, Depth(b), o)
  /\ UNCHANGED ended

(* Mutant: a sub-agent that is no read-only one leaves its caller's scope. *)
ScopeInsideAlone(b) == Top(b).tool \in ReadOnly

(* read_only_scope: nested scopes stack.                                   *)
ScopeInside(b) == InScope(b) \/ Top(b).tool \in ReadOnly

(* AgentTool.run: the sub-agent starts, or continues from its checkpoint.  *)
AgentEntered(b) ==
  /\ Passes(b, Agents)
  /\ scopes' = [scopes EXCEPT ![b] = Append(@, ScopeInside(b))]
  /\ stack' = IF Len(stack[b]) > Depth(b) THEN stack
              ELSE [stack EXCEPT ![b] = Append(@, CallOf("none", 0))]
  /\ UNCHANGED <<st, out, ended, acts>>

(* The call lacks the query argument.                                      *)
NoQuery(b) ==
  /\ Passes(b, Agents)
  /\ Len(stack[b]) = Depth(b)
  /\ Return(b, Depth(b), Failure)
  /\ UNCHANGED <<ended, acts>>

(* The sub-agent at the innermost level, between two calls.                *)
Agent(b) == stack[b][Depth(b) - 1].tool

AgentCalls(b) ==
  /\ Calling(b, {"none"})
  /\ Top(b).steps < MaxSteps
  /\ \E tool \in Offers[Agent(b)] :
       stack' = [stack EXCEPT ![b][Depth(b)] = CallOf(tool, @.steps + 1)]
  /\ UNCHANGED <<scopes, st, out, ended, acts>>

(* Its run ends, at a cap only when the cap is reached.                    *)
AgentEnds(b) ==
  /\ Calling(b, {"none"})
  /\ \E status \in Status, v \in Results :
       /\ status = "capped" => Top(b).steps = MaxSteps
       /\ Return(b, Depth(b) - 1, AgentReturns(Agent(b), status, v))
       /\ ended' = IF Depth(b) = 2 THEN [ended EXCEPT ![b] = status] ELSE ended
  /\ UNCHANGED acts

BranchStep(b) ==
  \/ Refused(b) \/ GateAsks(b) \/ GateDenies(b)
  \/ FunctionAsks(b) \/ FunctionReturns(b)
  \/ AgentEntered(b) \/ NoQuery(b) \/ AgentCalls(b) \/ AgentEnds(b)

(* The human answers every branch that asked; each is executed again from  *)
(* the top, with no scope around it.                                       *)
Asked == {b \in Branches : st[b] = "asked"}

(* Mutant: who asked runs again, and the answer is not there.              *)
AnswerIsLost(says) ==
  /\ Asked # {} /\ \A b \in Branches : st[b] # "running"
  /\ st' = [b \in Branches |-> IF b \in Asked THEN "running" ELSE st[b]]
  /\ scopes' = [b \in Branches |-> IF b \in Asked THEN <<FALSE>> ELSE scopes[b]]
  /\ UNCHANGED <<stack, out, ended, acts>>

Answer(says) ==
  /\ Asked # {} /\ \A b \in Branches : st[b] # "running"
  /\ stack' = [b \in Branches |->
       IF b \notin Asked THEN stack[b]
       ELSE [stack[b] EXCEPT ![Len(stack[b])].told = Append(@, says[b])]]
  /\ st' = [b \in Branches |-> IF b \in Asked THEN "running" ELSE st[b]]
  /\ scopes' = [b \in Branches |-> IF b \in Asked THEN <<FALSE>> ELSE scopes[b]]
  /\ UNCHANGED <<out, ended, acts>>

Machine == \E b \in Branches : BranchStep(b)
Human == \E says \in [Asked -> {"yes", "no"}] : Answer(says)

Next == Machine \/ Human

(* The event loop executes what is due; the human answers in the end.      *)
Spec == Init /\ [][Next]_vars /\ WF_vars(Machine) /\ WF_vars(Human)

-----------------------------------------------------------------------------
(* No tool with side effects is entered anywhere below a read-only agent,  *)
(* however deep, before or after the levels in between were entered again  *)
(* for an answer (read_only_scope, execute_tool).                          *)
SingleWriter == \A a \in acts : a.tool \in Writing => a.under \cap ReadOnly = {}

(* A gated tool is entered only when the first answer given to this very   *)
(* call is a yes, whatever the questions asked before, beside or after it  *)
(* were answered, though every answer makes all the levels above run again *)
(* (execute_tool, aresume_graph).                                          *)
CallsAreApproved ==
  \A a \in acts : a.tool \in Gated => a.told # <<>> /\ a.told[1] = "yes"

(* The two together: what a nested call may do is decided by all the       *)
(* levels above it, and by the answers to this call alone.                 *)
EntersAsAllowed == SingleWriter /\ CallsAreApproved

(* What a caller reads from a sub-agent: an answer only if its run came to *)
(* its own end, and under an output_schema a value that has each required  *)
(* key, with the very JSON type the schema declares for it -- never text   *)
(* or a flag that stands in for a number (AgentTool.run, schema_mismatch). *)
NoStandIn ==
  \A b \in Branches : st[b] = "done" /\ Calls[b] \in Agents /\ out[b].kind = "value" =>
    /\ ended[b] = "ok"
    /\ Calls[b] \in DOMAIN Schema /\ Schema[Calls[b]].type = "object" =>
         LET s == Schema[Calls[b]] IN
         \A k \in s.required \cap DOMAIN s.properties :
           /\ k \in DOMAIN out[b].value.fields
           /\ out[b].value.fields[k] \in
                (IF s.properties[k] = "number" THEN {"number", "integer"} ELSE {s.properties[k]})

(* The step of the top agent ends: no nesting of agents that ask, in any   *)
(* number of branches, leaves one waiting for another for ever (hitl.py,   *)
(* AgentTool.run).                                                         *)
StepEnds == <>(\A b \in Branches : st[b] = "done")
=============================================================================
