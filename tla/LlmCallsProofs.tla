----------------------------- MODULE LlmCallsProofs -----------------------------
(***************************************************************************)
(* Proofs about LlmCalls, for any number of nodes, threads and replies,    *)
(* any prompts and any number of retries.                                  *)
(***************************************************************************)
EXTENDS LlmCalls, SequenceTheorems, FiniteSetTheorems, TLAPS

Active(n) == pc[n] \in {"ready", "waiting", "returned"}

(* A node that makes its call has a thread, and has it alone.              *)
ThreadsApart ==
  /\ \A n \in Nodes : Active(n) => thread[n] \in Threads
  /\ \A m, n \in Nodes : Active(m) /\ Active(n) /\ m # n => thread[m] # thread[n]

(* A client that never writes its slots leaves them empty; after a reply   *)
(* the slot of the thread holds the usage of that request, or none.        *)
UsageHeld ==
  /\ client \in {"anthropic", "fake"} => \A t \in Threads : usage[t] = NoCall
  /\ \A n \in Nodes : pc[n] = "returned" /\ got[n].type = "reply" =>
       usage[thread[n]] \in {Id(n), NoCall}

(* The prompt p follows from the request before it.                        *)
Builds(before, p) ==
  \/ /\ before.came.type = "reply"
     /\ p = [before.prompt EXCEPT !.fed = @ + 1]
  \/ /\ before.came.type = "overflow" /\ before.prompt.render = "full"
     /\ p = [before.prompt EXCEPT !.render = "capped"]

LastOf(n) == sent[n][Len(sent[n])]

(* What is known of the last request, by where the node is.                *)
LastRequest(n) ==
  /\ pc[n] = "idle" => sent[n] = <<>>
  /\ pc[n] \in {"waiting", "returned"} => Len(sent[n]) > 0 /\ LastOf(n).prompt = prompt[n]
  /\ pc[n] = "waiting" => LastOf(n).came = Nothing
  /\ pc[n] = "returned" => LastOf(n).came = got[n]
  /\ pc[n] = "ready" /\ Len(sent[n]) > 0 => Builds(LastOf(n), prompt[n])

InOrder(n) ==
  \A i \in 1 .. Len(sent[n]) - 1 : Builds(sent[n][i], sent[n][i + 1].prompt)

IInv ==
  /\ TypeOK
  /\ ThreadsApart
  /\ UsageHeld
  /\ UsageIsOwn
  /\ \A n \in Nodes : LastRequest(n) /\ InOrder(n)
-----------------------------------------------------------------------------
LEMMA InitIInv == Init => IInv
<1>. SUFFICES ASSUME Init PROVE IInv
  OBVIOUS
<1>. USE DEF Init
<1>1. TypeOK
  <2>1. sent \in [Nodes -> Seq(Request)]
    OBVIOUS
  <2>2. Nothing \in Came /\ got \in [Nodes -> Came]
    BY DEF Nothing, Nil, Came, Reply
  <2>3. prompt \in [Nodes -> Prompt]
    BY DEF Prompt
  <2>4. kind \in [Nodes -> AllKinds] /\ client \in AllClients
    BY CallsAssumption
  <2>5. usage \in [Threads -> CallId \cup {NoCall}]
    OBVIOUS
  <2>. QED
    BY <2>1, <2>2, <2>3, <2>4, <2>5 DEF TypeOK
<1>2. ThreadsApart /\ UsageHeld /\ UsageIsOwn
  BY DEF ThreadsApart, Active, UsageHeld, UsageIsOwn
<1>3. \A n \in Nodes : LastRequest(n) /\ InOrder(n)
  BY DEF LastRequest, InOrder
<1>. QED
  BY <1>1, <1>2, <1>3 DEF IInv

(* A step of one node leaves the requests of the others alone.             *)
LEMMA OthersStay ==
  ASSUME NEW m \in Nodes, LastRequest(m), InOrder(m),
         pc'[m] = pc[m], sent'[m] = sent[m], prompt'[m] = prompt[m], got'[m] = got[m]
  PROVE  LastRequest(m)' /\ InOrder(m)'
BY DEF LastRequest, InOrder, LastOf

(* The client says what it may say.                                        *)
LEMMA MayComeType ==
  ASSUME IInv, NEW n \in Nodes, NEW came \in MayCome(n)
  PROVE  came \in Came
<1>1. /\ Overflow \in Came /\ Failed \in Came /\ Said([Nil EXCEPT !.shape = "nothing"]) \in Came
  BY DEF Overflow, Failed, Said, Nil, Came, Reply
<1>2. Spoken \subseteq Came
  BY CallsAssumption DEF Spoken, Said, Came
<1>. QED
  BY <1>1, <1>2
     DEF MayCome, OpenAICompatLLM, AnthropicLLM, AnyLLMClient, FakeLLM, NoNull,
         IInv, TypeOK, AllClients
-----------------------------------------------------------------------------
LEMMA StartStep ==
  ASSUME IInv, NEW n \in Nodes, Start(n)
  PROVE  IInv'
<1>1. PICK t \in Threads : /\ \A m \in Nodes : thread[m] # t
                           /\ thread' = [thread EXCEPT ![n] = t]
  BY DEF Start
<1>2. /\ pc[n] = "idle" /\ pc' = [pc EXCEPT ![n] = "ready"]
      /\ prompt' = [prompt EXCEPT ![n] = FirstPrompt(n)]
      /\ UNCHANGED <<kind, lengths, client, got, sent, usage, events, out>>
  BY DEF Start, setup
<1>3. TypeOK'
  <2>1. FirstPrompt(n) \in Prompt
    BY DEF FirstPrompt, Prompt
  <2>2. prompt' \in [Nodes -> Prompt]
    BY <1>2, <2>1 DEF IInv, TypeOK
  <2>3. /\ pc' \in [Nodes -> {"idle", "ready", "waiting", "returned", "done"}]
        /\ thread' \in [Nodes -> Threads \cup {"none"}]
    BY <1>1, <1>2 DEF IInv, TypeOK
  <2>. QED
    BY <1>2, <2>2, <2>3 DEF IInv, TypeOK
<1>4. ThreadsApart'
  <2>1. /\ \A m \in Nodes : thread'[m] = IF m = n THEN t ELSE thread[m]
        /\ \A m \in Nodes : pc'[m] = IF m = n THEN "ready" ELSE pc[m]
    BY <1>1, <1>2 DEF IInv, TypeOK
  <2>. QED
    BY <1>1, <2>1 DEF IInv, ThreadsApart, Active
<1>5. UsageHeld' /\ UsageIsOwn'
  <2>1. \A m \in Nodes : pc'[m] = "returned" => pc[m] = "returned" /\ thread'[m] = thread[m]
    BY <1>1, <1>2 DEF IInv, TypeOK
  <2>. QED
    BY <1>2, <2>1 DEF IInv, UsageHeld, UsageIsOwn, Id
<1>6. ASSUME NEW m \in Nodes
      PROVE  LastRequest(m)' /\ InOrder(m)'
  <2>1. CASE m = n
    <3>1. sent'[n] = <<>> /\ pc'[n] = "ready"
      BY <1>2 DEF IInv, TypeOK, LastRequest
    <3>. QED
      BY <2>1, <3>1 DEF LastRequest, InOrder
  <2>2. CASE m # n
    BY <1>2, <2>2, OthersStay DEF IInv, TypeOK
  <2>. QED
    BY <2>1, <2>2
<1>. QED
  BY <1>3, <1>4, <1>5, <1>6 DEF IInv

LEMMA SendStep ==
  ASSUME IInv, NEW n \in Nodes, Send(n)
  PROVE  IInv'
<1>. DEFINE r == [prompt |-> prompt[n], came |-> Nothing]
<1>1. /\ pc[n] = "ready" /\ pc' = [pc EXCEPT ![n] = "waiting"]
      /\ sent' = [sent EXCEPT ![n] = Append(sent[n], r)]
      /\ UNCHANGED <<kind, lengths, client, thread, prompt, got, usage, events, out>>
  BY DEF Send, setup
<1>2. r \in Request
  BY DEF IInv, TypeOK, Request, Nothing, Nil, Came, Reply
<1>3. /\ sent[n] \in Seq(Request) /\ sent'[n] = Append(sent[n], r)
      /\ \A m \in Nodes : m # n => sent'[m] = sent[m]
      /\ \A m \in Nodes : pc'[m] = IF m = n THEN "waiting" ELSE pc[m]
  BY <1>1 DEF IInv, TypeOK
<1>. HIDE DEF r
<1>4. /\ sent'[n] \in Seq(Request) /\ Len(sent'[n]) = Len(sent[n]) + 1
      /\ Len(sent[n]) \in Nat
      /\ \A i \in 1 .. Len(sent[n]) : sent'[n][i] = sent[n][i]
      /\ sent'[n][Len(sent[n]) + 1] = r
  BY <1>2, <1>3, AppendProperties, LenProperties
<1>5. TypeOK'
  <2>1. sent' \in [Nodes -> Seq(Request)]
    BY <1>1, <1>3, <1>4 DEF IInv, TypeOK
  <2>2. pc' \in [Nodes -> {"idle", "ready", "waiting", "returned", "done"}]
    BY <1>1 DEF IInv, TypeOK
  <2>. QED
    BY <1>1, <2>1, <2>2 DEF IInv, TypeOK
<1>6. ThreadsApart'
  BY <1>1, <1>3 DEF IInv, ThreadsApart, Active
<1>7. UsageHeld' /\ UsageIsOwn'
  <2>1. \A m \in Nodes : pc'[m] = "returned" => pc[m] = "returned" /\ sent'[m] = sent[m]
    BY <1>3
  <2>. QED
    BY <1>1, <2>1 DEF IInv, UsageHeld, UsageIsOwn, Id
<1>8. ASSUME NEW m \in Nodes
      PROVE  LastRequest(m)' /\ InOrder(m)'
  <2>1. CASE m = n
    <3>1. LastOf(n)' = r /\ r.prompt = prompt'[n] /\ r.came = Nothing
      BY <1>1, <1>4 DEF LastOf, r
    <3>2. LastRequest(n)'
      BY <1>3, <1>4, <3>1 DEF LastRequest
    <3>3. Len(sent[n]) > 0 => Builds(sent[n][Len(sent[n])], r.prompt)
      BY <1>1 DEF IInv, LastRequest, LastOf, r
    <3>4. ASSUME NEW i \in 1 .. Len(sent'[n]) - 1
          PROVE  Builds(sent'[n][i], sent'[n][i + 1].prompt)
      <4>1. CASE i = Len(sent[n])
        BY <1>4, <3>3, <4>1
      <4>2. CASE i # Len(sent[n])
        <5>1. i \in 1 .. Len(sent[n]) - 1 /\ i + 1 \in 1 .. Len(sent[n])
          BY <1>4, <4>2
        <5>. QED
          BY <1>4, <5>1 DEF IInv, InOrder
      <4>. QED
        BY <4>1, <4>2
    <3>5. InOrder(n)'
      BY <3>4 DEF InOrder, Builds
    <3>. QED
      BY <2>1, <3>2, <3>5
  <2>2. CASE m # n
    BY <1>1, <1>3, <2>2, OthersStay DEF IInv
  <2>. QED
    BY <2>1, <2>2
<1>. QED
  BY <1>5, <1>6, <1>7, <1>8 DEF IInv

(* The usage is written to the slot of the node's own thread.              *)
LEMMA ReturnStep ==
  ASSUME IInv, NEW n \in Nodes, Return(n)
  PROVE  IInv'
<1>1. PICK came \in MayCome(n) :
        /\ got' = [got EXCEPT ![n] = came]
        /\ sent' = [sent EXCEPT ![n][Len(sent[n])].came = came]
        /\ Reported(n, came)
  BY DEF Return
<1>2. /\ pc[n] = "waiting" /\ pc' = [pc EXCEPT ![n] = "returned"]
      /\ UNCHANGED <<kind, lengths, client, thread, prompt, events, out>>
  BY DEF Return, setup
<1>3. came \in Came
  BY MayComeType
<1>. DEFINE k == Len(sent[n])
<1>4. /\ sent[n] \in Seq(Request) /\ k \in Nat /\ k > 0 /\ sent[n][k].prompt = prompt[n]
      /\ sent[n][k] \in Request
  BY <1>2 DEF IInv, TypeOK, LastRequest, LastOf
<1>5. /\ sent'[n] = [sent[n] EXCEPT ![k] = [sent[n][k] EXCEPT !.came = came]]
      /\ \A m \in Nodes : m # n => sent'[m] = sent[m]
      /\ \A m \in Nodes : pc'[m] = IF m = n THEN "returned" ELSE pc[m]
      /\ \A m \in Nodes : got'[m] = IF m = n THEN came ELSE got[m]
  BY <1>1, <1>2 DEF IInv, TypeOK
<1>6. /\ [sent[n][k] EXCEPT !.came = came] \in Request
      /\ [sent[n][k] EXCEPT !.came = came].came = came
      /\ [sent[n][k] EXCEPT !.came = came].prompt = prompt[n]
  BY <1>3, <1>4 DEF Request
<1>. HIDE DEF k
<1>7. /\ sent'[n] \in Seq(Request) /\ Len(sent'[n]) = k
      /\ \A i \in 1 .. k : i # k => sent'[n][i] = sent[n][i]
      /\ sent'[n][k].came = came /\ sent'[n][k].prompt = prompt[n]
  <2>1. Len(sent[n]) = k
    BY DEF k
  <2>2. k \in 1 .. Len(sent[n])
    BY <1>4, <2>1
  <2>3. sent'[n] \in Seq(Request) /\ Len(sent'[n]) = k
    BY <1>4, <1>5, <1>6, <2>1, <2>2, ExceptSeq
  <2>4. DOMAIN sent[n] = 1 .. k
    BY <1>4, <2>1
  <2>. QED
    BY <1>4, <1>5, <1>6, <2>3, <2>4
<1>8. /\ usage' \in [Threads -> CallId \cup {NoCall}]
      /\ \A t \in Threads : t # thread[n] => usage'[t] = usage[t]
      /\ client \in {"anthropic", "fake"} => usage' = usage
      /\ came.type = "reply" => usage'[thread[n]] \in {Id(n), NoCall}
  <2>1. thread[n] \in Threads
    BY <1>2 DEF IInv, ThreadsApart, Active
  <2>2. Id(n) \in CallId
    BY <1>4 DEF Id, CallId, k
  <2>3. CASE \E u \in {Id(n), NoCall} : usage' = [usage EXCEPT ![thread[n]] = u]
    BY <1>1, <2>1, <2>2, <2>3 DEF IInv, TypeOK, Reported
  <2>4. CASE usage' = usage /\ (client \in {"anthropic", "fake"} \/ came.type # "reply")
    <3>1. came.type = "reply" => usage[thread[n]] = NoCall
      BY <2>1, <2>4 DEF IInv, TypeOK, AllClients, UsageHeld
    <3>. QED
      BY <2>4, <3>1 DEF IInv, TypeOK
  <2>. QED
    BY <1>1, <2>3, <2>4 DEF Reported, Slot
<1>9. TypeOK'
  <2>1. sent' \in [Nodes -> Seq(Request)]
    <3>1. DOMAIN sent' = Nodes /\ \A m \in Nodes : sent'[m] \in Seq(Request)
      BY <1>1, <1>5, <1>7 DEF IInv, TypeOK
    <3>. QED
      BY <1>1, <3>1 DEF IInv, TypeOK
  <2>2. /\ pc' \in [Nodes -> {"idle", "ready", "waiting", "returned", "done"}]
        /\ got' \in [Nodes -> Came]
    BY <1>1, <1>2, <1>3 DEF IInv, TypeOK
  <2>. QED
    BY <1>2, <1>8, <2>1, <2>2 DEF IInv, TypeOK
<1>10. ThreadsApart'
  BY <1>2, <1>5 DEF IInv, ThreadsApart, Active
<1>11. UsageHeld' /\ UsageIsOwn'
  <2>1. ASSUME NEW m \in Nodes, pc'[m] = "returned", got'[m].type = "reply"
        PROVE  usage'[thread[m]] \in {Id(m)', NoCall}
    <3>1. CASE m = n
      BY <1>5, <1>7, <1>8, <2>1, <3>1 DEF Id, k
    <3>2. CASE m # n
      <4>1. thread[m] # thread[n] /\ thread[m] \in Threads
        BY <1>2, <1>5, <2>1, <3>2 DEF IInv, ThreadsApart, Active
      <4>2. usage[thread[m]] \in {Id(m), NoCall} /\ Id(m)' = Id(m)
        BY <1>5, <2>1, <3>2 DEF IInv, UsageHeld, Id
      <4>. QED
        BY <1>8, <4>1, <4>2
    <3>. QED
      BY <3>1, <3>2
  <2>. QED
    BY <1>2, <1>8, <2>1 DEF IInv, UsageHeld, UsageIsOwn
<1>12. ASSUME NEW m \in Nodes
       PROVE  LastRequest(m)' /\ InOrder(m)'
  <2>1. CASE m = n
    <3>1. LastRequest(n)'
      BY <1>2, <1>4, <1>5, <1>7 DEF LastRequest, LastOf
    <3>2. ASSUME NEW i \in 1 .. k - 1
          PROVE  Builds(sent'[n][i], sent'[n][i + 1].prompt)
      <4>1. i \in 1 .. k /\ i # k /\ i + 1 \in 1 .. k
        BY <1>4
      <4>2. sent'[n][i + 1].prompt = sent[n][i + 1].prompt
        BY <1>4, <1>7, <4>1
      <4>. QED
        BY <1>7, <4>1, <4>2 DEF IInv, InOrder, k
    <3>3. InOrder(n)'
      BY <1>7, <3>2 DEF InOrder, Builds
    <3>. QED
      BY <2>1, <3>1, <3>3
  <2>2. CASE m # n
    BY <1>2, <1>5, <2>2, OthersStay DEF IInv
  <2>. QED
    BY <2>1, <2>2
<1>. QED
  BY <1>9, <1>10, <1>11, <1>12 DEF IInv

(* A call is traced, and the node ends, retries or shrinks its prompt.     *)
LEMMA HandleStep ==
  ASSUME IInv, NEW n \in Nodes, Handle(n)
  PROVE  IInv'
<1>1. /\ pc[n] = "returned" /\ Traced(n)
      /\ UNCHANGED <<kind, lengths, client, got, sent, usage>>
  BY DEF Handle, Accept, Retry, GiveUp, Shrink, OverflowEnds, OverflowEscapes, FailureEscapes,
         End, Again, setup
<1>2. /\ thread[n] \in Threads /\ Len(sent[n]) > 0 /\ LastOf(n).prompt = prompt[n]
      /\ LastOf(n).came = got[n] /\ prompt[n] \in Prompt /\ got[n] \in Came
  BY <1>1 DEF IInv, ThreadsApart, Active, LastRequest, TypeOK
<1>3. \/ /\ pc' = [pc EXCEPT ![n] = "done"] /\ prompt' = prompt
         /\ thread' = [thread EXCEPT ![n] = "none"]
         /\ out' \in [Nodes -> {"none", "ok", "error", "raised"}]
      \/ /\ pc' = [pc EXCEPT ![n] = "ready"] /\ UNCHANGED <<thread, out>>
         /\ \E p \in Prompt : Builds(LastOf(n), p) /\ prompt' = [prompt EXCEPT ![n] = p]
  <2>1. CASE \E how \in {"ok", "error", "raised"} : End(n, how)
    BY <2>1 DEF End, IInv, TypeOK
  <2>2. CASE Retry(n)
    <3>1. WithFeedback(n) \in Prompt
      BY <1>2 DEF WithFeedback, Prompt
    <3>2. Builds(LastOf(n), WithFeedback(n))
      BY <1>2, <2>2 DEF Builds, WithFeedback, Retry, Refuses
    <3>. QED
      BY <2>2, <3>1, <3>2 DEF Retry, Again
  <2>3. CASE Shrink(n)
    <3>1. [prompt[n] EXCEPT !.render = "capped"] \in Prompt
      BY <1>2 DEF Prompt
    <3>2. prompt[n].render = "full" /\ got[n].type = "overflow"
      BY <2>3 DEF Shrink, CanShrink
    <3>3. Builds(LastOf(n), [prompt[n] EXCEPT !.render = "capped"])
      BY <1>2, <3>2 DEF Builds
    <3>. QED
      BY <2>3, <3>1, <3>3 DEF Shrink, Again
  <2>. QED
    BY <2>1, <2>2, <2>3 DEF Handle, Accept, GiveUp, OverflowEnds, OverflowEscapes,
                            FailureEscapes
<1>4. \E b \in BOOLEAN :
        /\ b = TRUE \/ got[n].type = "reply"
        /\ events' \subseteq events \cup
             {[call |-> Id(n), usage |-> usage[thread[n]], error |-> b]}
  <2>1. (got[n].type # "reply") \in BOOLEAN
    OBVIOUS
  <2>2. events' \subseteq events \cup
          {[call |-> Id(n), usage |-> usage[thread[n]], error |-> got[n].type # "reply"]}
    BY <1>1 DEF Traced, Slot
  <2>3. (got[n].type # "reply") = TRUE \/ got[n].type = "reply"
    OBVIOUS
  <2>. QED
    BY <2>1, <2>2, <2>3, Zenon
<1>5. TypeOK'
  <2>1. Id(n) \in CallId /\ usage[thread[n]] \in CallId \cup {NoCall}
    BY <1>2 DEF Id, CallId, IInv, TypeOK
  <2>2. events' \subseteq [call : CallId, usage : CallId \cup {NoCall}, error : BOOLEAN]
    <3>1. PICK b \in BOOLEAN :
            events' \subseteq events \cup
              {[call |-> Id(n), usage |-> usage[thread[n]], error |-> b]}
      BY <1>4
    <3>2. [call |-> Id(n), usage |-> usage[thread[n]], error |-> b]
            \in [call : CallId, usage : CallId \cup {NoCall}, error : BOOLEAN]
      BY <2>1, <3>1
    <3>. QED
      BY <3>1, <3>2 DEF IInv, TypeOK
  <2>3. /\ pc' \in [Nodes -> {"idle", "ready", "waiting", "returned", "done"}]
        /\ thread' \in [Nodes -> Threads \cup {"none"}]
        /\ prompt' \in [Nodes -> Prompt]
        /\ out' \in [Nodes -> {"none", "ok", "error", "raised"}]
    BY <1>3 DEF IInv, TypeOK
  <2>. QED
    BY <1>1, <2>2, <2>3 DEF IInv, TypeOK
<1>6. /\ \A m \in Nodes : m # n =>
           pc'[m] = pc[m] /\ thread'[m] = thread[m] /\ prompt'[m] = prompt[m]
      /\ pc'[n] \in {"done", "ready"}
      /\ pc'[n] = "ready" => thread'[n] = thread[n] /\ Builds(LastOf(n), prompt'[n])
  BY <1>3 DEF IInv, TypeOK
<1>7. ThreadsApart'
  BY <1>1, <1>6 DEF IInv, ThreadsApart, Active
<1>8. UsageHeld' /\ UsageIsOwn'
  <2>1. UsageHeld'
    BY <1>1, <1>6 DEF IInv, UsageHeld, Id
  <2>2. got[n].type = "reply" => usage[thread[n]] \in {Id(n), NoCall}
    BY <1>1 DEF IInv, UsageHeld
  <2>3. \A e \in events' \ events :
          e.call = Id(n) /\ e.usage = usage[thread[n]] /\ (~ e.error => got[n].type = "reply")
    <3>1. PICK b \in BOOLEAN :
            /\ b = TRUE \/ got[n].type = "reply"
            /\ events' \subseteq events \cup
                 {[call |-> Id(n), usage |-> usage[thread[n]], error |-> b]}
      BY <1>4
    <3>. QED
      BY <3>1
  <2>. QED
    BY <2>1, <2>2, <2>3 DEF IInv, UsageIsOwn
<1>9. ASSUME NEW m \in Nodes
      PROVE  LastRequest(m)' /\ InOrder(m)'
  <2>1. CASE m = n
    <3>1. InOrder(n)'
      BY <1>1 DEF IInv, InOrder, Builds
    <3>2. LastRequest(n)'
      BY <1>1, <1>6 DEF LastRequest, LastOf, Builds
    <3>. QED
      BY <2>1, <3>1, <3>2
  <2>2. CASE m # n
    BY <1>1, <1>6, <2>2, OthersStay DEF IInv
  <2>. QED
    BY <2>1, <2>2
<1>. QED
  BY <1>5, <1>7, <1>8, <1>9 DEF IInv

LEMMA NextIInv == IInv /\ [Next]_vars => IInv'
<1>. SUFFICES ASSUME IInv, [Next]_vars PROVE IInv'
  OBVIOUS
<1>1. CASE UNCHANGED vars
  <2>1. UNCHANGED <<kind, lengths, client, pc, thread, prompt, got, sent, usage, events, out>>
    BY <1>1 DEF vars, setup
  <2>2. \A m \in Nodes : LastRequest(m)' /\ InOrder(m)'
    BY <2>1, OthersStay DEF IInv
  <2>3. TypeOK' /\ ThreadsApart' /\ UsageHeld' /\ UsageIsOwn'
    BY <2>1 DEF IInv, TypeOK, ThreadsApart, Active, UsageHeld, UsageIsOwn, Id
  <2>. QED
    BY <2>2, <2>3 DEF IInv
<1>. QED
  BY <1>1, StartStep, SendStep, ReturnStep, HandleStep DEF Next, Finished

LEMMA Invariant == Spec => []IInv
BY InitIInv, NextIInv, PTL DEF Spec
-----------------------------------------------------------------------------
(* Counting the refused replies                                            *)

RefusedBy(n) ==
  {i \in DOMAIN sent[n] : sent[n][i].came.type = "reply"
                           /\ ~ Usable(n, sent[n][i].came.reply)}

Reason(n) ==
  out[n] # "none" =>
    CASE out[n] = "ok" -> LastOf(n).came.type = "reply" /\ Usable(n, LastOf(n).came.reply)
      [] out[n] = "error" -> \/ LastOf(n).came.type = "overflow"
                             \/ Cardinality(RefusedBy(n)) = Retries + 1
      [] OTHER -> LastOf(n).came.type = "failed" \/ kind[n] \in {"compact", "workflow"}

(* Each refused reply is fed back as one error, but for the latest one.    *)
Counted(n) ==
  /\ out[n] # "none" => pc[n] = "done"
  /\ pc[n] \in {"ready", "waiting"} => Cardinality(RefusedBy(n)) = prompt[n].fed
  /\ pc[n] = "returned" =>
       Cardinality(RefusedBy(n)) =
         prompt[n].fed + (IF Len(sent[n]) \in RefusedBy(n) THEN 1 ELSE 0)
  /\ pc[n] \in {"ready", "waiting", "returned"} => prompt[n].fed <= Retries
  /\ Reason(n)

CInv == \A n \in Nodes : Counted(n)

LEMMA InitCInv == Init => CInv
BY DEF Init, CInv, Counted, Reason

(* A node whose requests and place stay as they are.                       *)
LEMMA SameCount ==
  ASSUME NEW n \in Nodes, Counted(n), sent'[n] = sent[n], kind' = kind, pc'[n] = pc[n],
         prompt'[n] = prompt[n], out'[n] = out[n]
  PROVE  Counted(n)'
<1>1. RefusedBy(n)' = RefusedBy(n)
  BY DEF RefusedBy, Usable
<1>2. Reason(n)' <=> Reason(n)
  BY <1>1 DEF Reason, LastOf, Usable
<1>. QED
  BY <1>1, <1>2 DEF Counted

LEMMA RefusedFinite ==
  ASSUME IInv, NEW n \in Nodes
  PROVE  IsFiniteSet(RefusedBy(n)) /\ DOMAIN sent[n] = 1 .. Len(sent[n])
         /\ Len(sent[n]) \in Nat /\ Cardinality(RefusedBy(n)) \in Nat
<1>1. Len(sent[n]) \in Nat /\ DOMAIN sent[n] = 1 .. Len(sent[n])
  BY LenProperties DEF IInv, TypeOK
<1>2. IsFiniteSet(1 .. Len(sent[n]))
  BY <1>1, FS_Interval
<1>3. RefusedBy(n) \in SUBSET (1 .. Len(sent[n]))
  BY <1>1 DEF RefusedBy
<1>. QED
  BY <1>1, <1>2, <1>3, FS_Subset, FS_CardinalityType

LEMMA StartCounts ==
  ASSUME IInv, CInv, NEW n \in Nodes, Start(n)
  PROVE  Counted(n)'
<1>1. /\ pc[n] = "idle" /\ pc'[n] = "ready" /\ out'[n] = out[n] /\ sent'[n] = sent[n]
      /\ prompt'[n] = FirstPrompt(n)
  BY DEF Start, IInv, TypeOK
<1>2. out[n] = "none"
  BY <1>1 DEF CInv, Counted
<1>3. sent'[n] = <<>>
  BY <1>1 DEF IInv, LastRequest
<1>4. Cardinality(RefusedBy(n)') = 0
  BY <1>3, FS_EmptySet DEF RefusedBy
<1>5. FirstPrompt(n).fed = 0 /\ 0 <= Retries
  BY CallsAssumption DEF FirstPrompt
<1>. QED
  BY <1>1, <1>2, <1>4, <1>5 DEF Counted, Reason

LEMMA SendCounts ==
  ASSUME IInv, CInv, NEW n \in Nodes, Send(n)
  PROVE  Counted(n)'
<1>. DEFINE r == [prompt |-> prompt[n], came |-> Nothing]
<1>1. /\ pc[n] = "ready" /\ pc'[n] = "waiting" /\ out'[n] = out[n]
      /\ prompt'[n] = prompt[n] /\ kind' = kind /\ sent'[n] = Append(sent[n], r)
      /\ sent[n] \in Seq(Request)
  BY DEF Send, setup, IInv, TypeOK
<1>2. r \in Request /\ r.came.type # "reply"
  BY DEF IInv, TypeOK, Request, Nothing, Nil, Came, Reply
<1>. HIDE DEF r
<1>3. /\ sent'[n] \in Seq(Request) /\ Len(sent'[n]) = Len(sent[n]) + 1
      /\ \A i \in 1 .. Len(sent[n]) : sent'[n][i] = sent[n][i]
      /\ sent'[n][Len(sent[n]) + 1] = r
  BY <1>1, <1>2, AppendProperties
<1>4. /\ DOMAIN sent[n] = 1 .. Len(sent[n]) /\ Len(sent[n]) \in Nat
      /\ DOMAIN sent'[n] = 1 .. Len(sent[n]) + 1
  BY <1>1, <1>3, LenProperties
<1>5. \A x : Usable(n, x)' <=> Usable(n, x)
  BY <1>1 DEF Usable
<1>6. RefusedBy(n)' = RefusedBy(n)
  <2>1. ASSUME NEW i
        PROVE  i \in RefusedBy(n)' <=> i \in RefusedBy(n)
    <3>1. CASE i \in 1 .. Len(sent[n])
      BY <1>1, <1>3, <1>4, <3>1 DEF RefusedBy, Usable
    <3>2. CASE i \notin 1 .. Len(sent[n])
      BY <1>2, <1>3, <1>4, <3>2 DEF RefusedBy
    <3>. QED
      BY <3>1, <3>2
  <2>. QED
    BY <2>1
<1>. QED
  BY <1>1, <1>6 DEF CInv, Counted, Reason

LEMMA ReturnCounts ==
  ASSUME IInv, CInv, NEW n \in Nodes, Return(n)
  PROVE  Counted(n)'
<1>. DEFINE k == Len(sent[n])
<1>1. PICK came \in MayCome(n) :
        sent' = [sent EXCEPT ![n][Len(sent[n])].came = came]
  BY DEF Return
<1>2. /\ pc[n] = "waiting" /\ pc'[n] = "returned" /\ out'[n] = out[n]
      /\ prompt'[n] = prompt[n] /\ kind' = kind
  BY DEF Return, setup, IInv, TypeOK
<1>3. came \in Came
  BY MayComeType
<1>4. /\ sent[n] \in Seq(Request) /\ k \in Nat /\ k > 0 /\ sent[n][k] \in Request
      /\ sent[n][k].came = Nothing /\ DOMAIN sent[n] = 1 .. k /\ IsFiniteSet(RefusedBy(n))
      /\ Cardinality(RefusedBy(n)) \in Nat
  BY <1>2, RefusedFinite DEF IInv, TypeOK, LastRequest, LastOf
<1>5. sent'[n] = [sent[n] EXCEPT ![k] = [sent[n][k] EXCEPT !.came = came]]
  BY <1>1 DEF IInv, TypeOK
<1>. HIDE DEF k
<1>6. /\ DOMAIN sent'[n] = 1 .. k
      /\ \A i \in 1 .. k : i # k => sent'[n][i] = sent[n][i]
  BY <1>4, <1>5
<1>7. k \notin RefusedBy(n)
  BY <1>4 DEF RefusedBy, Nothing
<1>8. Len(sent'[n]) = k
  <2>1. Len(sent[n]) = k
    BY DEF k
  <2>2. k \in 1 .. Len(sent[n])
    BY <1>4, <2>1
  <2>3. [sent[n][k] EXCEPT !.came = came] \in Request
    BY <1>3, <1>4 DEF Request
  <2>. QED
    BY <1>4, <1>5, <2>1, <2>2, <2>3, ExceptSeq
<1>9. \A i : i # k => (i \in RefusedBy(n)' <=> i \in RefusedBy(n))
  BY <1>2, <1>4, <1>6 DEF RefusedBy, Usable
<1>10. prompt[n].fed \in Nat /\ Cardinality(RefusedBy(n)) = prompt[n].fed
       /\ prompt[n].fed <= Retries
  BY <1>2 DEF CInv, Counted, IInv, TypeOK, Prompt
<1>11. Cardinality(RefusedBy(n)') = prompt[n].fed + (IF k \in RefusedBy(n)' THEN 1 ELSE 0)
  <2>1. CASE k \in RefusedBy(n)'
    <3>1. RefusedBy(n)' = RefusedBy(n) \cup {k}
      BY <1>9, <2>1
    <3>2. Cardinality(RefusedBy(n) \cup {k}) = Cardinality(RefusedBy(n)) + 1
      BY <1>4, <1>7, FS_AddElement
    <3>. QED
      BY <1>10, <2>1, <3>1, <3>2
  <2>2. CASE k \notin RefusedBy(n)'
    <3>1. RefusedBy(n)' = RefusedBy(n)
      BY <1>7, <1>9, <2>2
    <3>. QED
      BY <1>10, <2>2, <3>1
  <2>. QED
    BY <2>1, <2>2
<1>12. out[n] = "none"
  BY <1>2 DEF CInv, Counted
<1>. QED
  BY <1>2, <1>8, <1>10, <1>11, <1>12 DEF Counted, Reason

LEMMA HandleCounts ==
  ASSUME IInv, CInv, NEW n \in Nodes, Handle(n)
  PROVE  Counted(n)'
<1>. DEFINE k == Len(sent[n])
<1>1. pc[n] = "returned" /\ sent'[n] = sent[n] /\ kind' = kind
  BY DEF Handle, Accept, Retry, GiveUp, Shrink, OverflowEnds, OverflowEscapes, FailureEscapes,
         End, Again, setup
<1>2. /\ LastOf(n).came = got[n] /\ k \in Nat /\ k > 0 /\ DOMAIN sent[n] = 1 .. k
      /\ Cardinality(RefusedBy(n)) \in Nat
  BY <1>1, RefusedFinite DEF IInv, LastRequest
<1>3. k \in RefusedBy(n) <=> got[n].type = "reply" /\ ~ Usable(n, got[n].reply)
  <2>1. k \in 1 .. k /\ sent[n][k].came = got[n]
    BY <1>2 DEF LastOf
  <2>. QED
    BY <1>2, <2>1 DEF RefusedBy
<1>4. RefusedBy(n)' = RefusedBy(n) /\ LastOf(n)' = LastOf(n)
  BY <1>1 DEF RefusedBy, Usable, LastOf
<1>5. /\ prompt[n] \in Prompt /\ prompt[n].fed \in Nat /\ Retries \in Nat
      /\ prompt[n].fed <= Retries /\ out[n] = "none"
      /\ Cardinality(RefusedBy(n)) = prompt[n].fed + (IF k \in RefusedBy(n) THEN 1 ELSE 0)
  BY <1>1, CallsAssumption DEF CInv, Counted, IInv, TypeOK, Prompt
<1>. HIDE DEF k
<1>6. ASSUME NEW how, End(n, how)
      PROVE  pc'[n] = "done" /\ out'[n] = how
  BY <1>6 DEF End, IInv, TypeOK
<1>7. ASSUME NEW p, Again(n, p)
      PROVE  pc'[n] = "ready" /\ out'[n] = "none" /\ prompt'[n] = p
  BY <1>5, <1>7 DEF Again, IInv, TypeOK
<1>8. CASE Accept(n)
  <2>1. pc'[n] = "done" /\ out'[n] = "ok" /\ got[n].type = "reply" /\ Usable(n, got[n].reply)
    BY <1>6, <1>8 DEF Accept
  <2>2. Usable(n, got[n].reply) => (Usable(n, LastOf(n).came.reply))'
    BY <1>1, <1>2, <1>4 DEF Usable
  <2>. QED
    BY <1>2, <1>4, <2>1, <2>2 DEF Counted, Reason
<1>9. CASE Retry(n)
  <2>1. pc'[n] = "ready" /\ out'[n] = "none" /\ prompt'[n] = WithFeedback(n)
    BY <1>7, <1>9 DEF Retry
  <2>2. k \in RefusedBy(n) /\ prompt[n].fed < Retries
    BY <1>3, <1>5, <1>9 DEF Retry, Refuses, Exhausted
  <2>3. prompt'[n].fed = prompt[n].fed + 1
    BY <1>5, <2>1 DEF WithFeedback, Prompt
  <2>. QED
    BY <1>4, <1>5, <2>1, <2>2, <2>3 DEF Counted, Reason
<1>10. CASE GiveUp(n)
  <2>1. pc'[n] = "done" /\ out'[n] = "error"
    BY <1>6, <1>10 DEF GiveUp
  <2>2. k \in RefusedBy(n) /\ prompt[n].fed >= Retries
    BY <1>3, <1>10 DEF GiveUp, Refuses, Exhausted
  <2>3. Cardinality(RefusedBy(n)') = Retries + 1
    BY <1>4, <1>5, <2>2
  <2>. QED
    BY <2>1, <2>3 DEF Counted, Reason
<1>11. CASE Shrink(n)
  <2>1. /\ pc'[n] = "ready" /\ out'[n] = "none"
        /\ prompt'[n] = [prompt[n] EXCEPT !.render = "capped"]
    BY <1>7, <1>11 DEF Shrink
  <2>2. k \notin RefusedBy(n)
    BY <1>3, <1>11 DEF Shrink
  <2>3. prompt'[n].fed = prompt[n].fed
    BY <1>5, <2>1 DEF Prompt
  <2>. QED
    BY <1>4, <1>5, <2>1, <2>2, <2>3 DEF Counted, Reason
<1>12. CASE OverflowEnds(n)
  <2>1. pc'[n] = "done" /\ out'[n] = "error" /\ got[n].type = "overflow"
    BY <1>6, <1>12 DEF OverflowEnds
  <2>. QED
    BY <1>2, <1>4, <2>1 DEF Counted, Reason
<1>13. CASE OverflowEscapes(n) \/ FailureEscapes(n)
  <2>1. pc'[n] = "done" /\ out'[n] = "raised"
    BY <1>6, <1>13 DEF OverflowEscapes, FailureEscapes
  <2>2. got[n].type = "failed" \/ kind[n] \in {"compact", "workflow"}
    BY <1>13 DEF OverflowEscapes, FailureEscapes
  <2>. QED
    BY <1>1, <1>2, <1>4, <2>1, <2>2 DEF Counted, Reason
<1>. QED
  BY <1>8, <1>9, <1>10, <1>11, <1>12, <1>13 DEF Handle

LEMMA NextCInv == IInv /\ CInv /\ [Next]_vars => CInv'
<1>. SUFFICES ASSUME IInv, CInv, [Next]_vars PROVE CInv'
  OBVIOUS
<1>1. ASSUME NEW n \in Nodes, NEW m \in Nodes, m # n,
             Start(n) \/ Send(n) \/ Return(n) \/ Handle(n)
      PROVE  Counted(m)'
  <2>1. /\ sent'[m] = sent[m] /\ kind' = kind /\ pc'[m] = pc[m]
        /\ prompt'[m] = prompt[m] /\ out'[m] = out[m]
    <3>1. CASE Start(n) \/ Send(n) \/ Return(n)
      BY <1>1, <3>1 DEF Start, Send, Return, setup, IInv, TypeOK
    <3>2. CASE Handle(n)
      BY <1>1, <3>2 DEF Handle, Accept, Retry, GiveUp, Shrink, OverflowEnds, OverflowEscapes,
                        FailureEscapes, End, Again, setup, IInv, TypeOK
    <3>. QED
      BY <1>1, <3>1, <3>2
  <2>. QED
    BY <2>1, SameCount DEF CInv
<1>2. CASE UNCHANGED vars
  <2>1. UNCHANGED <<kind, pc, sent, prompt, out>>
    BY <1>2 DEF vars, setup
  <2>. QED
    BY <2>1, SameCount DEF CInv
<1>3. ASSUME NEW n \in Nodes, Start(n) \/ Send(n) \/ Return(n) \/ Handle(n)
      PROVE  CInv'
  BY <1>1, <1>3, StartCounts, SendCounts, ReturnCounts, HandleCounts DEF CInv
<1>. QED
  BY <1>2, <1>3 DEF Next, Finished

LEMMA CountInvariant == Spec => []CInv
BY InitCInv, NextCInv, Invariant, PTL DEF Spec
-----------------------------------------------------------------------------
(* Theorems                                                                *)

(* Everything the nodes, the client and the trace keep has its type.       *)
THEOREM TypeCorrect == Spec => []TypeOK
<1>1. IInv => TypeOK
  BY DEF IInv
<1>. QED
  BY Invariant, <1>1, PTL

(* However many nodes share the client: a call that brought a reply is     *)
(* traced with its own usage or none, never with another call's.           *)
THEOREM TracedUsage == Spec => []UsageIsOwn
<1>1. IInv => UsageIsOwn
  BY DEF IInv
<1>. QED
  BY Invariant, <1>1, PTL

(* Retries and the overflow fallback only ever add to the prompt they      *)
(* follow, for any number of retries.                                      *)
THEOREM RequestsFollow == Spec => []RequestsBuildOn
<1>1. IInv => RequestsBuildOn
  BY DEF IInv, InOrder, Builds, RequestsBuildOn
<1>. QED
  BY Invariant, <1>1, PTL

(* For any number of retries: "ok" means a reply the parser took, "error"  *)
(* an overflow or a refused reply for each attempt there is, and only a    *)
(* failed request or a node with no handler raises.                        *)
THEOREM EndsAsTold == Spec => []EndsForAReason
<1>1. CInv => EndsForAReason
  BY DEF CInv, Counted, Reason, RefusedBy, LastOf, EndsForAReason
<1>. QED
  BY CountInvariant, <1>1, PTL
=============================================================================
