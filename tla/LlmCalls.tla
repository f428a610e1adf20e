------------------------------- MODULE LlmCalls -------------------------------
(***************************************************************************)
(* The structured model calls of the nodes (planner, joiner, policy and    *)
(* compaction of the react loop, ask_json of the workflows), made from     *)
(* several threads through one client, each traced. A call may find the    *)
(* prompt too long, fail, or bring a reply the node's parser refuses.      *)
(***************************************************************************)
EXTENDS Naturals, Sequences, FiniteSets

CONSTANTS
  Nodes,     \* node executions, each with one structured call to make
  Threads,   \* the threads synchronous nodes run in
  Kinds,     \* the callers there are, a subset of AllKinds
  Clients,   \* the clients there are, a subset of AllClients
  Tracing,   \* whether a tracer is active
  Renders,   \* the prompts a node may have, see Rendering
  Window,    \* the longest prompt the model takes
  Replies,   \* what the model may say
  Retries    \* retries of a refused reply

AllKinds == {"planner", "joiner", "policy", "compact", "workflow"}
AllClients == {"openai", "anthropic", "any", "fake"}

(* The lengths of a prompt with full and with capped results, and whether  *)
(* the context policy in use caps results as the overflow policy does.     *)
Rendering == [full : Nat, capped : Nat, narrow : BOOLEAN]

Reply ==
  [shape : {"object", "list", "other", "nothing", "null"},
   says : {"finish", "replan", "tool", "none"},
   valid : BOOLEAN]

ASSUME CallsAssumption ==
  /\ Kinds \subseteq AllKinds /\ Clients \subseteq AllClients
  /\ Renders \subseteq Rendering /\ Replies \subseteq Reply
  /\ Window \in Nat /\ Retries \in Nat /\ Tracing \in BOOLEAN

VARIABLES
  kind,    \* node -> its caller
  lengths, \* node -> its prompt
  client,  \* the client in use
  pc,      \* node -> "idle", "ready", "waiting", "returned", "done"
  thread,  \* node -> the thread it runs in
  prompt,  \* node -> [render, fed]: how results are rendered, errors fed back
  got,     \* node -> what its latest request came to
  sent,    \* ghost: node -> the requests so far, with what they came to
  usage,   \* thread -> the usage kept by the client (last_usage)
  events,  \* the llm_call events of the trace
  out      \* node -> how its structured call ended

setup == <<kind, lengths, client>>
vars == <<setup, pc, thread, prompt, got, sent, usage, events, out>>

(* What a request comes to: a reply, an overflow, any other exception.     *)
Nil == [shape |-> "null", says |-> "none", valid |-> FALSE]
Said(r) == [type |-> "reply", reply |-> r]
Overflow == [type |-> "overflow", reply |-> Nil]
Failed == [type |-> "failed", reply |-> Nil]
Nothing == [type |-> "none", reply |-> Nil]

Prompt == [render : {"full", "capped"}, fed : Nat]
Came == [type : {"reply", "overflow", "failed", "none"}, reply : Reply]
Request == [prompt : Prompt, came : Came]
CallId == Nodes \X Nat
NoCall == <<>>   \* no usage reported

TypeOK ==
  /\ kind \in [Nodes -> AllKinds] /\ lengths \in [Nodes -> Renders]
  /\ client \in AllClients
  /\ pc \in [Nodes -> {"idle", "ready", "waiting", "returned", "done"}]
  /\ thread \in [Nodes -> Threads \cup {"none"}]
  /\ prompt \in [Nodes -> Prompt]
  /\ got \in [Nodes -> Came]
  /\ sent \in [Nodes -> Seq(Request)]
  /\ usage \in [Threads -> CallId \cup {NoCall}]
  /\ events \subseteq [call : CallId, usage : CallId \cup {NoCall}, error : BOOLEAN]
  /\ out \in [Nodes -> {"none", "ok", "error", "raised"}]

Init ==
  /\ kind \in [Nodes -> Kinds] /\ lengths \in [Nodes -> Renders]
  /\ client \in Clients
  /\ pc = [n \in Nodes |-> "idle"]
  /\ thread = [n \in Nodes |-> "none"]
  /\ prompt = [n \in Nodes |-> [render |-> "full", fed |-> 0]]
  /\ got = [n \in Nodes |-> Nothing]
  /\ sent = [n \in Nodes |-> <<>>]
  /\ usage = [t \in Threads |-> NoCall]
  /\ events = {}
  /\ out = [n \in Nodes |-> "none"]

-----------------------------------------------------------------------------
(* The parsers                                                             *)

ParsePlan(r) == r.shape \in {"object", "list"} /\ r.valid
ParseDecision(r) == r.shape = "object" /\ r.says \in {"finish", "replan"}
ParseAction(r) ==   \* valid: a tool action names its tool
  r.shape = "object" /\ r.says \in {"tool", "finish"} /\ (r.says = "tool" => r.valid)
AskJson(r) == r.shape = "object" /\ r.valid
Summary(r) == r.shape # "null"

Usable(n, r) ==
  \/ kind[n] = "planner" /\ ParsePlan(r)
  \/ kind[n] = "joiner" /\ ParseDecision(r)
  \/ kind[n] = "policy" /\ ParseAction(r)
  \/ kind[n] = "compact" /\ Summary(r)
  \/ kind[n] = "workflow" /\ AskJson(r)

-----------------------------------------------------------------------------
(* The clients                                                             *)

Length(n, p) == lengths[n][p.render] + p.fed
TooLong(n) == Length(n, prompt[n]) > Window

Spoken == {Said(r) : r \in Replies}

(* A null content is handed on as it is.                                   *)
OpenAICompatLLM(n) == IF TooLong(n) THEN {Overflow, Failed} ELSE Spoken \cup {Failed}

(* An overflow is the SDK's own error; the text is never null.             *)
NoNull == {came \in Spoken : came.reply.shape # "null"} \cup {Said([Nil EXCEPT !.shape = "nothing"])}

AnthropicLLM(n) == IF TooLong(n) THEN {Failed} ELSE NoNull \cup {Failed}

(* Overflows are known by the words of the provider's error.               *)
AnyLLMClient(n) == IF TooLong(n) THEN {Overflow, Failed} ELSE NoNull \cup {Failed}

(* The queued answers, and an AssertionError when there are no more.       *)
FakeLLM(n) == NoNull \cup {Failed}

MayCome(n) ==
  CASE client = "openai" -> OpenAICompatLLM(n)
    [] client = "anthropic" -> AnthropicLLM(n)
    [] client = "any" -> AnyLLMClient(n)
    [] client = "fake" -> FakeLLM(n)

(* Mutant: one usage for all threads.                                      *)
SharedSlot(n) == CHOOSE t \in Threads : TRUE

(* threading.local: the usage of this thread's calls.                      *)
Slot(n) == thread[n]

Id(n) == <<n, Len(sent[n])>>

(* complete: the slot is written with what a body reports, if anything,    *)
(* before the reply is looked for in it: a body without one fails the call *)
(* and leaves its usage.                                                   *)
Reported(n, came) ==
  \/ /\ client \in {"openai", "any"} /\ came.type \in {"reply", "failed"}
     /\ \E u \in {Id(n), NoCall} : usage' = [usage EXCEPT ![Slot(n)] = u]
  \/ /\ client \in {"anthropic", "fake"} \/ came.type # "reply"
     /\ UNCHANGED usage

-----------------------------------------------------------------------------
(* A node                                                                  *)

(* The results as the node's own policy renders them.                      *)
FirstPrompt(n) == [render |-> IF lengths[n].narrow THEN "capped" ELSE "full", fed |-> 0]

Start(n) ==
  /\ pc[n] = "idle"
  /\ \E t \in Threads \ {thread[m] : m \in Nodes} : thread' = [thread EXCEPT ![n] = t]
  /\ pc' = [pc EXCEPT ![n] = "ready"]
  /\ prompt' = [prompt EXCEPT ![n] = FirstPrompt(n)]
  /\ UNCHANGED <<setup, got, sent, usage, events, out>>

Send(n) ==
  /\ pc[n] = "ready"
  /\ pc' = [pc EXCEPT ![n] = "waiting"]
  /\ sent' = [sent EXCEPT ![n] = Append(@, [prompt |-> prompt[n], came |-> Nothing])]
  /\ UNCHANGED <<setup, thread, prompt, got, usage, events, out>>

Return(n) ==
  /\ pc[n] = "waiting"
  /\ \E came \in MayCome(n) :
       /\ got' = [got EXCEPT ![n] = came]
       /\ sent' = [sent EXCEPT ![n][Len(sent[n])].came = came]
       /\ Reported(n, came)
  /\ pc' = [pc EXCEPT ![n] = "returned"]
  /\ UNCHANGED <<setup, thread, prompt, events, out>>

(* TracedLLM.complete, finally: the event takes the usage the client has   *)
(* for this thread now, whatever the call came to.                         *)
Traced(n) ==
  events' = IF ~ Tracing THEN events
            ELSE events \cup {[call |-> Id(n), usage |-> usage[Slot(n)],
                               error |-> got[n].type # "reply"]}

End(n, how) ==
  /\ pc' = [pc EXCEPT ![n] = "done"]
  /\ thread' = [thread EXCEPT ![n] = "none"]
  /\ out' = [out EXCEPT ![n] = how]
  /\ UNCHANGED <<setup, prompt, got, sent, usage>>

Again(n, p) ==
  /\ pc' = [pc EXCEPT ![n] = "ready"]
  /\ prompt' = [prompt EXCEPT ![n] = p]
  /\ UNCHANGED <<setup, thread, got, sent, usage, out>>

Accept(n) ==
  /\ got[n].type = "reply" /\ Usable(n, got[n].reply)
  /\ End(n, "ok")

Refuses(n) == got[n].type = "reply" /\ ~ Usable(n, got[n].reply) /\ kind[n] # "compact"

(* Mutant: the retry renders the prompt anew.                              *)
RenderedAnew(n) == [FirstPrompt(n) EXCEPT !.fed = prompt[n].fed + 1]

(* retry_feedback: the prompt that was used, with the error appended.      *)
WithFeedback(n) == [prompt[n] EXCEPT !.fed = @ + 1]

(* Mutant: one attempt too many.                                           *)
ExhaustedLate(n) == prompt[n].fed > Retries

Exhausted(n) == prompt[n].fed >= Retries

Retry(n) ==
  /\ Refuses(n) /\ ~ Exhausted(n)
  /\ Again(n, WithFeedback(n))

(* PlanError, a graceful finish, or PatternError: the run ends with error. *)
GiveUp(n) ==
  /\ Refuses(n) /\ Exhausted(n)
  /\ End(n, "error")

(* complete_fitting, for the first prompt only: a retry has its prompt.    *)
CanShrink(n) ==
  /\ kind[n] \in {"planner", "joiner"}
  /\ ~ lengths[n].narrow
  /\ prompt[n] = [render |-> "full", fed |-> 0]

Shrink(n) ==
  /\ got[n].type = "overflow"
  /\ CanShrink(n)
  /\ Again(n, [prompt[n] EXCEPT !.render = "capped"])

OverflowEnds(n) ==
  /\ got[n].type = "overflow"
  /\ kind[n] \in {"planner", "joiner", "policy"} /\ ~ CanShrink(n)
  /\ End(n, "error")

(* Nothing catches it: compact is called outside the loop of reason, and   *)
(* ask_json outside its try.                                               *)
OverflowEscapes(n) ==
  /\ got[n].type = "overflow"
  /\ kind[n] \in {"compact", "workflow"}
  /\ End(n, "raised")

(* An HTTP or SDK error; or compact, stripping a reply that is null.       *)
FailureEscapes(n) ==
  /\ \/ got[n].type = "failed"
     \/ got[n].type = "reply" /\ kind[n] = "compact" /\ ~ Usable(n, got[n].reply)
  /\ End(n, "raised")

Handle(n) ==
  /\ pc[n] = "returned"
  /\ Traced(n)
  /\ \/ Accept(n) \/ Retry(n) \/ GiveUp(n) \/ Shrink(n)
     \/ OverflowEnds(n) \/ OverflowEscapes(n) \/ FailureEscapes(n)

(* The only state with nothing left to do: any other is a deadlock.        *)
Finished == (\A n \in Nodes : pc[n] = "done") /\ UNCHANGED vars

Next ==
  \/ \E n \in Nodes : Start(n) \/ Send(n) \/ Return(n) \/ Handle(n)
  \/ Finished

Spec == Init /\ [][Next]_vars

-----------------------------------------------------------------------------
(* The usage an event reports for a call that succeeded is that call's, or *)
(* none, whichever threads nodes run in and whoever used the thread before *)
(* (threading.local in the clients, read by TracedLLM after the call).     *)
UsageIsOwn == \A e \in events : ~ e.error => e.usage \in {e.call, NoCall}

(* Each request of a node builds on the one before: after a refused reply  *)
(* it is the same text with one more error fed back; after an overflow it  *)
(* has the capped results, and never the full ones again (complete_fitting *)
(* returns the prompt it used, which the planner and joiner go on with).   *)
RequestsBuildOn ==
  \A n \in Nodes : \A i \in 1 .. Len(sent[n]) - 1 :
    LET before == sent[n][i]  after == sent[n][i + 1].prompt IN
    \/ /\ before.came.type = "reply"
       /\ after = [before.prompt EXCEPT !.fed = @ + 1]
    \/ /\ before.came.type = "overflow" /\ before.prompt.render = "full"
       /\ after = [before.prompt EXCEPT !.render = "capped"]

(* A node says "ok" only with a reply its parser takes, gives up on the    *)
(* model's output only when all attempts were refused, and lets out an     *)
(* exception only for a failed request, or where no handler is.            *)
EndsForAReason ==
  \A n \in Nodes : out[n] # "none" =>
    LET last == sent[n][Len(sent[n])].came
        refused == {i \in DOMAIN sent[n] : sent[n][i].came.type = "reply"
                                           /\ ~ Usable(n, sent[n][i].came.reply)} IN
    CASE out[n] = "ok" -> last.type = "reply" /\ Usable(n, last.reply)
      [] out[n] = "error" -> last.type = "overflow" \/ Cardinality(refused) = Retries + 1
      [] OTHER -> last.type = "failed" \/ kind[n] \in {"compact", "workflow"}

(* "an unhandled overflow used to crash the run" (ContextOverflowError):   *)
(* a prompt that is too long ends no run with an exception.                *)
OverflowIsGraceful ==
  \A n \in Nodes : out[n] = "raised" => sent[n][Len(sent[n])].came.type # "overflow"
=============================================================================
