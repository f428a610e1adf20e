----------------------------- MODULE DelegateProofs -----------------------------
(***************************************************************************)
(* Proofs about Delegate, for any agents, any tools they offer, any number *)
(* of branches and any depth of agents calling agents.                     *)
(***************************************************************************)
EXTENDS Delegate, SequenceTheorems, TLAPS

(* What holds of the frames s and the scopes sc of a branch calling call:  *)
(* only agents have levels below them, and the scope of a level is         *)
(* read-only exactly when an agent above it is.                            *)
Under(s, d) == \E i \in 1 .. d - 1 : s[i].tool \in ReadOnly

Scoped(s, sc) == \A d \in 1 .. Len(sc) : sc[d] = TRUE <=> Under(s, d)

Shape(s, sc, call) ==
  /\ Len(s) >= 1 /\ s[1].tool = call
  /\ \A i \in 1 .. Len(s) - 1 : s[i].tool \in Agents
  /\ Len(sc) <= Len(s)
  /\ Scoped(s, sc)

(* What was read from a call.                                              *)
Read(call, o, how) ==
  call \in Agents /\ o.kind = "value" =>
    how = "ok" /\ (call \in DOMAIN Schema => Matches(Schema[call], o.value))

IInv ==
  /\ TypeOK
  /\ EntersAsAllowed
  /\ \A b \in Branches :
       /\ Shape(stack[b], scopes[b], Calls[b])
       /\ st[b] = "running" => Len(scopes[b]) >= 1
       /\ st[b] = "done" => Read(Calls[b], out[b], ended[b])
-----------------------------------------------------------------------------
(* How the shape of a branch changes                                       *)

LEMMA CallOfType ==
  ASSUME NEW tool \in Tools \cup {"none"}, NEW n \in Nat
  PROVE  CallOf(tool, n) \in Frame /\ CallOf(tool, n).tool = tool
<1>1. <<>> \in Seq({"yes", "no"})
  OBVIOUS
<1>. QED
  BY <1>1 DEF CallOf, Frame

LEMMA Front ==
  ASSUME NEW S, NEW s \in Seq(S), NEW d \in 0 .. Len(s)
  PROVE  /\ SubSeq(s, 1, d) \in Seq(S) /\ Len(SubSeq(s, 1, d)) = d
         /\ \A i \in 1 .. d : SubSeq(s, 1, d)[i] = s[i]
<1>1. \A i \in 1 .. d : s[i] \in S
  BY ElementOfSeq
<1>. QED
  BY <1>1, SubSeqProperties

(* Whether a level is under a read-only agent depends on the levels above. *)
LEMMA SameAbove ==
  ASSUME NEW s, NEW t, NEW d \in Nat, \A i \in 1 .. d - 1 : t[i] = s[i]
  PROVE  Under(t, d) <=> Under(s, d)
BY DEF Under

(* The scopes of the levels up to d, of frames that agree above d.         *)
LEMMA ScopesKept ==
  ASSUME NEW s, NEW t, NEW sc, NEW kept, NEW d \in Nat, Scoped(s, sc),
         Len(kept) = d, d <= Len(sc), Len(sc) \in Nat,
         \A i \in 1 .. d : kept[i] = sc[i], \A i \in 1 .. d - 1 : t[i] = s[i]
  PROVE  Scoped(t, kept)
<1>1. ASSUME NEW k \in 1 .. d
      PROVE  kept[k] = TRUE <=> Under(t, k)
  <2>1. Under(t, k) <=> Under(s, k)
    BY SameAbove
  <2>. QED
    BY <2>1 DEF Scoped
<1>. QED
  BY <1>1 DEF Scoped

(* The call of the branch itself is over.                                  *)
LEMMA OutermostReturns ==
  ASSUME NEW s \in Seq(Frame), NEW sc \in Seq(BOOLEAN), NEW call,
         Shape(s, sc, call), Len(sc) >= 1
  PROVE  /\ SubSeq(s, 1, 1) \in Seq(Frame) /\ SubSeq(sc, 1, 1) \in Seq(BOOLEAN)
         /\ Shape(SubSeq(s, 1, 1), SubSeq(sc, 1, 1), call)
<1>. DEFINE outer == SubSeq(s, 1, 1)
            scope == SubSeq(sc, 1, 1)
<1>1. 1 \in 0 .. Len(s) /\ 1 \in 0 .. Len(sc)
  BY DEF Shape
<1>2. outer \in Seq(Frame) /\ Len(outer) = 1 /\ outer[1] = s[1]
  BY <1>1, Front
<1>3. scope \in Seq(BOOLEAN) /\ Len(scope) = 1 /\ scope[1] = sc[1]
  BY <1>1, Front
<1>. HIDE DEF outer, scope
<1>4. Scoped(outer, scope)
  <2>1. ~ Under(outer, 1) /\ ~ Under(s, 1)
    BY DEF Under
  <2>2. sc[1] = TRUE <=> Under(s, 1)
    BY <1>1 DEF Shape, Scoped
  <2>3. \A d \in 1 .. Len(scope) : d = 1
    BY <1>3
  <2>. QED
    BY <1>3, <2>1, <2>2, <2>3 DEF Scoped
<1>5. Shape(outer, scope, call)
  BY <1>2, <1>3, <1>4 DEF Shape
<1>. QED
  BY <1>2, <1>3, <1>5 DEF outer, scope

(* A call at level d is over, and the agent above it goes on.              *)
LEMMA InnerReturns ==
  ASSUME NEW s \in Seq(Frame), NEW sc \in Seq(BOOLEAN), NEW call,
         Shape(s, sc, call), NEW d \in 2 .. Len(sc)
  PROVE  /\ Append(SubSeq(s, 1, d - 1), CallOf("none", s[d].steps)) \in Seq(Frame)
         /\ SubSeq(sc, 1, d) \in Seq(BOOLEAN)
         /\ Shape(Append(SubSeq(s, 1, d - 1), CallOf("none", s[d].steps)),
                  SubSeq(sc, 1, d), call)
<1>. DEFINE front == SubSeq(s, 1, d - 1)
            f == CallOf("none", s[d].steps)
            new == Append(front, f)
            within == SubSeq(sc, 1, d)
<1>1. d - 1 \in 0 .. Len(s) /\ d \in 0 .. Len(sc) /\ d \in 1 .. Len(s)
  BY DEF Shape
<1>2. /\ front \in Seq(Frame) /\ Len(front) = d - 1
      /\ \A i \in 1 .. d - 1 : front[i] = s[i]
  BY <1>1, Front
<1>3. /\ within \in Seq(BOOLEAN) /\ Len(within) = d
      /\ \A i \in 1 .. d : within[i] = sc[i]
  BY <1>1, Front
<1>4. f \in Frame
  <2>1. s[d] \in Frame
    BY <1>1, ElementOfSeq
  <2>. QED
    BY <2>1, CallOfType DEF Frame
<1>. HIDE DEF front, f, within
<1>5. /\ new \in Seq(Frame) /\ Len(new) = d
      /\ \A i \in 1 .. d - 1 : new[i] = s[i]
  <2>1. /\ new \in Seq(Frame) /\ Len(new) = Len(front) + 1
        /\ \A i \in 1 .. Len(front) : new[i] = front[i]
    BY <1>2, <1>4, AppendProperties
  <2>2. Len(new) = d
    BY <1>2, <2>1
  <2>3. \A i \in 1 .. d - 1 : new[i] = s[i]
    BY <1>2, <2>1
  <2>. HIDE DEF new
  <2>. QED
    BY <2>1, <2>2, <2>3
<1>. HIDE DEF new
<1>7. Scoped(new, within)
  BY <1>1, <1>3, <1>5, ScopesKept DEF Shape
<1>8. \A i \in 1 .. d - 1 : new[i].tool \in Agents
  BY <1>1, <1>5 DEF Shape
<1>9. new[1].tool = call
  BY <1>5 DEF Shape
<1>10. Shape(new, within, call)
  BY <1>1, <1>3, <1>5, <1>7, <1>8, <1>9 DEF Shape
<1>. QED
  BY <1>3, <1>5, <1>10 DEF new, front, f, within

(* An agent is entered: one level more.                                    *)
LEMMA Entering ==
  ASSUME NEW s \in Seq(Frame), NEW sc \in Seq(BOOLEAN), NEW call,
         Shape(s, sc, call), Len(sc) >= 1, s[Len(sc)].tool \in Agents, NEW x \in BOOLEAN,
         x = TRUE <=> sc[Len(sc)] = TRUE \/ s[Len(sc)].tool \in ReadOnly,
         NEW t, t = IF Len(s) > Len(sc) THEN s ELSE Append(s, CallOf("none", 0))
  PROVE  /\ t \in Seq(Frame) /\ Append(sc, x) \in Seq(BOOLEAN)
         /\ Shape(t, Append(sc, x), call)
<1>. DEFINE within == Append(sc, x)
<1>1. /\ within \in Seq(BOOLEAN) /\ Len(within) = Len(sc) + 1
      /\ \A i \in 1 .. Len(sc) : within[i] = sc[i]
      /\ within[Len(sc) + 1] = x
  BY AppendProperties
<1>2. /\ t \in Seq(Frame) /\ Len(t) >= Len(sc) + 1
      /\ \A i \in 1 .. Len(s) : t[i] = s[i]
      /\ Len(t) = IF Len(s) > Len(sc) THEN Len(s) ELSE Len(s) + 1
  <2>1. CallOf("none", 0) \in Frame
    BY CallOfType
  <2>2. /\ Append(s, CallOf("none", 0)) \in Seq(Frame)
        /\ Len(Append(s, CallOf("none", 0))) = Len(s) + 1
        /\ \A i \in 1 .. Len(s) : Append(s, CallOf("none", 0))[i] = s[i]
    BY <2>1, AppendProperties
  <2>3. CASE Len(s) > Len(sc)
    BY <2>3
  <2>4. CASE ~ (Len(s) > Len(sc))
    BY <2>2, <2>4 DEF Shape
  <2>. QED
    BY <2>3, <2>4
<1>. HIDE DEF within
<1>3. \A i \in 1 .. Len(t) - 1 : t[i].tool \in Agents
  <2>1. CASE Len(s) > Len(sc)
    BY <1>2, <2>1 DEF Shape
  <2>2. CASE ~ (Len(s) > Len(sc))
    <3>1. Len(s) = Len(sc) /\ Len(t) = Len(s) + 1
      BY <1>2, <2>2 DEF Shape
    <3>. QED
      BY <1>2, <3>1 DEF Shape
  <2>. QED
    BY <2>1, <2>2
<1>4. Len(sc) \in 1 .. Len(s)
  BY DEF Shape
<1>5. Scoped(t, within)
  <2>1. ASSUME NEW d \in 1 .. Len(sc)
        PROVE  within[d] = TRUE <=> Under(t, d)
    <3>1. \A i \in 1 .. d - 1 : t[i] = s[i]
      BY <1>2, <1>4
    <3>2. Under(t, d) <=> Under(s, d)
      BY <3>1 DEF Under
    <3>. QED
      BY <1>1, <3>2 DEF Shape, Scoped
  <2>2. within[Len(sc) + 1] = TRUE <=> Under(t, Len(sc) + 1)
    <3>1. sc[Len(sc)] = TRUE <=> Under(s, Len(sc))
      BY <1>4 DEF Shape, Scoped
    <3>2. within[Len(sc) + 1] = TRUE <=> sc[Len(sc)] = TRUE \/ s[Len(sc)].tool \in ReadOnly
      BY <1>1
    <3>3. \A i \in 1 .. Len(sc) : t[i] = s[i]
      BY <1>2, <1>4
    <3>4. ASSUME NEW d \in Nat, d = Len(sc) + 1
          PROVE  Under(t, d) <=> Under(s, Len(sc)) \/ s[Len(sc)].tool \in ReadOnly
      <4>1. \A i : i \in 1 .. d - 1 <=> i \in 1 .. Len(sc) - 1 \/ i = Len(sc)
        BY <1>4, <3>4
      <4>2. \A i : i \in 1 .. Len(sc) - 1 \/ i = Len(sc) => t[i] = s[i]
        BY <1>4, <3>3
      <4>3. Under(t, d) <=>
              (\E i : (i \in 1 .. Len(sc) - 1 \/ i = Len(sc)) /\ t[i].tool \in ReadOnly)
        BY <4>1, Zenon DEF Under
      <4>4. (\E i : (i \in 1 .. Len(sc) - 1 \/ i = Len(sc)) /\ t[i].tool \in ReadOnly) <=>
              (\E i \in 1 .. Len(sc) - 1 : s[i].tool \in ReadOnly) \/ s[Len(sc)].tool \in ReadOnly
        BY <4>2, Zenon
      <4>. QED
        BY <4>3, <4>4, Zenon DEF Under
    <3>. QED
      BY <3>1, <3>2, <3>4
  <2>3. \A d \in 1 .. Len(within) : d \in 1 .. Len(sc) \/ d = Len(sc) + 1
    BY <1>1
  <2>4. \A d \in 1 .. Len(within) : within[d] = TRUE <=> Under(t, d)
    BY <2>1, <2>2, <2>3, Zenon
  <2>. QED
    BY <2>4 DEF Scoped
<1>6. Shape(t, within, call)
  BY <1>1, <1>2, <1>3, <1>4, <1>5 DEF Shape
<1>. QED
  BY <1>1, <1>2, <1>6 DEF within

(* The last frame changes, and is no agent's call with levels below it.    *)
LEMMA LastChanges ==
  ASSUME NEW s \in Seq(Frame), NEW sc \in Seq(BOOLEAN), NEW call,
         Shape(s, sc, call), NEW f \in Frame, Len(s) > 1 \/ f.tool = call
  PROVE  /\ [s EXCEPT ![Len(s)] = f] \in Seq(Frame)
         /\ Shape([s EXCEPT ![Len(s)] = f], sc, call)
<1>. DEFINE t == [s EXCEPT ![Len(s)] = f]
<1>1. Len(s) \in 1 .. Len(s)
  BY DEF Shape
<1>2. /\ t \in Seq(Frame) /\ Len(t) = Len(s)
      /\ \A i \in 1 .. Len(s) : t[i] = IF i = Len(s) THEN f ELSE s[i]
  BY <1>1, ExceptSeq
<1>. HIDE DEF t
<1>4. Scoped(t, sc)
  <2>1. \A i \in 1 .. Len(sc) - 1 : t[i] = s[i]
    BY <1>2 DEF Shape
  <2>2. \A i \in 1 .. Len(sc) : sc[i] = sc[i]
    OBVIOUS
  <2>3. Len(sc) \in Nat /\ Len(sc) <= Len(sc) /\ Scoped(s, sc) /\ Len(sc) = Len(sc)
    BY DEF Shape
  <2>. QED
    BY <2>1, <2>2, <2>3, ScopesKept, Zenon
<1>5. Len(t) >= 1 /\ t[1].tool = call
  <2>1. CASE Len(s) = 1
    <3>1. t[1] = f /\ f.tool = call
      BY <1>2, <2>1
    <3>. QED
      BY <1>2, <2>1, <3>1
  <2>2. CASE Len(s) > 1
    BY <1>2, <2>2 DEF Shape
  <2>3. Len(s) \in Nat /\ Len(s) >= 1
    BY LenProperties DEF Shape
  <2>4. \A n \in Nat : n >= 1 => n = 1 \/ n > 1
    OBVIOUS
  <2>5. Len(s) = 1 \/ Len(s) > 1
    BY <2>3, <2>4, Zenon
  <2>. QED
    BY <2>1, <2>2, <2>5, Zenon
<1>6. \A i \in 1 .. Len(t) - 1 : t[i].tool \in Agents
  BY <1>2 DEF Shape
<1>7. Shape(t, sc, call)
  BY <1>2, <1>4, <1>5, <1>6 DEF Shape
<1>. QED
  BY <1>2, <1>7 DEF t

(* Nobody is at a level, or the branch is executed from the outside again. *)
LEMMA Unwound ==
  ASSUME NEW s \in Seq(Frame), NEW sc, NEW call, Shape(s, sc, call)
  PROVE  Shape(s, <<>>, call) /\ Shape(s, <<FALSE>>, call)
<1>1. Len(<<>>) = 0 /\ Len(<<FALSE>>) = 1 /\ <<FALSE>>[1] = FALSE
  OBVIOUS
<1>2. ~ Under(s, 1)
  BY DEF Under
<1>3. Scoped(s, <<>>)
  BY <1>1 DEF Scoped
<1>4. ASSUME NEW only, Len(only) = 1, only[1] = FALSE
      PROVE  Scoped(s, only)
  <2>1. \A d \in 1 .. Len(only) : d = 1
    BY <1>4
  <2>. QED
    BY <1>2, <1>4, <2>1 DEF Scoped
<1>5. Scoped(s, <<FALSE>>)
  BY <1>1, <1>4
<1>6. Len(s) \in Nat /\ Len(s) >= 1
  BY LenProperties DEF Shape
<1>. QED
  BY <1>1, <1>3, <1>5, <1>6 DEF Shape
-----------------------------------------------------------------------------
(* The invariant                                                           *)

ActSet == [tool : Functions, told : Seq({"yes", "no"}), under : SUBSET Tools]

LEMMA InitIInv == Init => IInv
<1>. SUFFICES ASSUME Init PROVE IInv
  OBVIOUS
<1>1. \A b \in Branches : Calls[b] \in Tools /\ CallOf(Calls[b], 0) \in Frame
                           /\ CallOf(Calls[b], 0).tool = Calls[b]
  BY AgentsAssumption, CallOfType
<1>2. /\ stack \in [Branches -> Seq(Frame)]
      /\ scopes \in [Branches -> Seq(BOOLEAN)]
  BY <1>1 DEF Init
<1>3. /\ st \in [Branches -> {"running", "asked", "done"}]
      /\ out \in [Branches -> Outcome]
      /\ ended \in [Branches -> Status \cup {"none"}]
      /\ acts = {}
  BY DEF Init, Outcome
<1>4. ASSUME NEW b \in Branches
      PROVE  /\ Shape(stack[b], scopes[b], Calls[b])
             /\ st[b] = "running" /\ Len(scopes[b]) >= 1
  <2>1. stack[b] = <<CallOf(Calls[b], 0)>> /\ scopes[b] = <<FALSE>> /\ st[b] = "running"
    BY DEF Init
  <2>2. Shape(stack[b], <<>>, Calls[b])
    <3>1. Len(stack[b]) = 1 /\ stack[b][1].tool = Calls[b] /\ Len(<<>>) = 0
      BY <1>1, <2>1
    <3>. QED
      BY <3>1 DEF Shape, Scoped
  <2>. QED
    BY <1>2, <2>1, <2>2, Unwound
<1>. QED
  BY <1>2, <1>3, <1>4 DEF IInv, TypeOK, EntersAsAllowed, SingleWriter, CallsAreApproved

(* Where a branch that is running is.                                      *)
LEMMA AtLevel ==
  ASSUME IInv, NEW b \in Branches, st[b] = "running"
  PROVE  /\ stack[b] \in Seq(Frame) /\ scopes[b] \in Seq(BOOLEAN)
         /\ Depth(b) \in 1 .. Len(scopes[b]) /\ Depth(b) \in 1 .. Len(stack[b])
         /\ Top(b) \in Frame /\ InScope(b) \in BOOLEAN
         /\ InScope(b) = TRUE <=> Under(stack[b], Depth(b))
         /\ Shape(stack[b], scopes[b], Calls[b])
         /\ Calls[b] \in Tools /\ Depth(b) = Len(scopes[b])
<1>1. /\ stack[b] \in Seq(Frame) /\ scopes[b] \in Seq(BOOLEAN)
      /\ Shape(stack[b], scopes[b], Calls[b]) /\ Len(scopes[b]) >= 1
  BY DEF IInv, TypeOK
<1>2. Len(scopes[b]) \in Nat /\ Len(stack[b]) \in Nat /\ Len(scopes[b]) <= Len(stack[b])
  BY <1>1, LenProperties DEF Shape
<1>3. Depth(b) \in 1 .. Len(scopes[b]) /\ Depth(b) \in 1 .. Len(stack[b])
  BY <1>1, <1>2 DEF Depth
<1>4. Top(b) \in Frame
  BY <1>1, <1>3, ElementOfSeq DEF Top
<1>5. InScope(b) \in BOOLEAN
  BY <1>1, <1>3, ElementOfSeq DEF InScope
<1>6. InScope(b) = TRUE <=> Under(stack[b], Depth(b))
  BY <1>1, <1>3 DEF InScope, Shape, Scoped
<1>. QED
  BY <1>1, <1>3, <1>4, <1>5, <1>6, AgentsAssumption DEF Depth

(* One branch changes in any way that keeps its shape.                     *)
LEMMA OneBranch ==
  ASSUME IInv, NEW b \in Branches,
         NEW s \in Seq(Frame), NEW sc \in Seq(BOOLEAN),
         NEW q \in {"running", "asked", "done"}, NEW o \in Outcome,
         NEW e \in Status \cup {"none"},
         stack' = [stack EXCEPT ![b] = s], scopes' = [scopes EXCEPT ![b] = sc],
         st' = [st EXCEPT ![b] = q], out' = [out EXCEPT ![b] = o],
         ended' = [ended EXCEPT ![b] = e],
         Shape(s, sc, Calls[b]), q = "running" => Len(sc) >= 1,
         q = "done" => Read(Calls[b], o, e),
         acts' \subseteq ActSet, EntersAsAllowed'
  PROVE  IInv'
<1>1. /\ stack \in [Branches -> Seq(Frame)] /\ scopes \in [Branches -> Seq(BOOLEAN)]
      /\ st \in [Branches -> {"running", "asked", "done"}]
      /\ out \in [Branches -> Outcome] /\ ended \in [Branches -> Status \cup {"none"}]
  BY DEF IInv, TypeOK
<1>2. TypeOK'
  <2>1. stack' \in [Branches -> Seq(Frame)] /\ scopes' \in [Branches -> Seq(BOOLEAN)]
    BY <1>1
  <2>2. /\ st' \in [Branches -> {"running", "asked", "done"}]
        /\ out' \in [Branches -> Outcome] /\ ended' \in [Branches -> Status \cup {"none"}]
    BY <1>1
  <2>. QED
    BY <2>1, <2>2 DEF TypeOK, ActSet
<1>3. ASSUME NEW c \in Branches
      PROVE  /\ Shape(stack'[c], scopes'[c], Calls[c])
             /\ st'[c] = "running" => Len(scopes'[c]) >= 1
             /\ st'[c] = "done" => Read(Calls[c], out'[c], ended'[c])
  <2>1. CASE c = b
    BY <1>1, <2>1
  <2>2. CASE c # b
    <3>1. /\ stack'[c] = stack[c] /\ scopes'[c] = scopes[c] /\ st'[c] = st[c]
          /\ out'[c] = out[c] /\ ended'[c] = ended[c]
      BY <1>1, <2>2
    <3>. QED
      BY <3>1 DEF IInv
  <2>. QED
    BY <2>1, <2>2
<1>4. IInv' <=> /\ TypeOK' /\ EntersAsAllowed'
                /\ \A c \in Branches :
                     /\ Shape(stack'[c], scopes'[c], Calls[c])
                     /\ st'[c] = "running" => Len(scopes'[c]) >= 1
                     /\ st'[c] = "done" => Read(Calls[c], out'[c], ended'[c])
  BY DEF IInv, Shape, Scoped, Under, Read, Matches, IsInstance
<1>. QED
  BY <1>2, <1>3, <1>4
-----------------------------------------------------------------------------
(* The steps                                                               *)

(* A call at some level is over.                                           *)
LEMMA Returning ==
  ASSUME IInv, NEW b \in Branches, st[b] = "running", NEW d \in 1 .. Depth(b),
         NEW o \in Outcome, NEW e \in Status \cup {"none"},
         Return(b, d, o), ended' = [ended EXCEPT ![b] = e],
         d = 1 => Read(Calls[b], o, e),
         acts' \subseteq ActSet, EntersAsAllowed'
  PROVE  IInv'
<1>1. /\ stack[b] \in Seq(Frame) /\ scopes[b] \in Seq(BOOLEAN)
      /\ Shape(stack[b], scopes[b], Calls[b]) /\ Len(scopes[b]) >= 1
      /\ Depth(b) = Len(scopes[b]) /\ d \in 1 .. Len(scopes[b])
  BY AtLevel DEF IInv
<1>2. CASE d = 1
  <2>1. /\ SubSeq(stack[b], 1, 1) \in Seq(Frame) /\ SubSeq(scopes[b], 1, 1) \in Seq(BOOLEAN)
        /\ Shape(SubSeq(stack[b], 1, 1), SubSeq(scopes[b], 1, 1), Calls[b])
    BY <1>1, OutermostReturns
  <2>2. /\ stack' = [stack EXCEPT ![b] = SubSeq(stack[b], 1, 1)]
        /\ scopes' = [scopes EXCEPT ![b] = SubSeq(scopes[b], 1, 1)]
        /\ st' = [st EXCEPT ![b] = "done"] /\ out' = [out EXCEPT ![b] = o]
    BY <1>2 DEF Return
  <2>. QED
    BY <1>2, <2>1, <2>2, OneBranch
<1>3. CASE d # 1
  <2>. DEFINE s == Append(SubSeq(stack[b], 1, d - 1), CallOf("none", stack[b][d].steps))
              sc == SubSeq(scopes[b], 1, d)
  <2>1. d \in 2 .. Len(scopes[b])
    BY <1>1, <1>3
  <2>2. s \in Seq(Frame) /\ sc \in Seq(BOOLEAN) /\ Shape(s, sc, Calls[b])
    BY <1>1, <2>1, InnerReturns
  <2>3. stack' = [stack EXCEPT ![b] = s] /\ scopes' = [scopes EXCEPT ![b] = sc]
    BY <1>3 DEF Return
  <2>4. st' = [st EXCEPT ![b] = "running"] /\ out' = [out EXCEPT ![b] = out[b]]
    BY <1>3 DEF Return, IInv, TypeOK
  <2>5. Len(sc) >= 1
    <3>1. d \in 0 .. Len(scopes[b])
      BY <2>1
    <3>2. Len(sc) = d
      BY <1>1, <3>1, Front
    <3>. QED
      BY <2>1, <3>2
  <2>6. out[b] \in Outcome
    BY DEF IInv, TypeOK
  <2>. HIDE DEF s, sc
  <2>. QED
    BY <2>2, <2>3, <2>4, <2>5, <2>6, OneBranch
<1>. QED
  BY <1>2, <1>3

(* An interrupt unwinds the branch.                                        *)
LEMMA Asking ==
  ASSUME IInv, NEW b \in Branches, st[b] = "running", Asks(b), UNCHANGED stack,
         acts' \subseteq ActSet, EntersAsAllowed'
  PROVE  IInv'
<1>1. stack[b] \in Seq(Frame) /\ Shape(stack[b], <<>>, Calls[b])
  BY AtLevel, Unwound
<1>2. /\ stack' = [stack EXCEPT ![b] = stack[b]] /\ scopes' = [scopes EXCEPT ![b] = <<>>]
      /\ st' = [st EXCEPT ![b] = "asked"] /\ out' = [out EXCEPT ![b] = out[b]]
      /\ ended' = [ended EXCEPT ![b] = ended[b]]
      /\ out[b] \in Outcome /\ ended[b] \in Status \cup {"none"}
  BY DEF Asks, IInv, TypeOK
<1>3. <<>> \in Seq(BOOLEAN)
  OBVIOUS
<1>4. \A q \in {"asked"} : q \in {"running", "asked", "done"} /\ q # "running" /\ q # "done"
  OBVIOUS
<1>. QED
  BY <1>1, <1>2, <1>3, <1>4, OneBranch

(* What a function entered through the gate adds to the record.            *)
LEMMA Acting ==
  ASSUME IInv, NEW b \in Branches, Passes(b, Functions), GateOpen(Top(b)),
         acts' = acts \cup {Entry(b)}
  PROVE  acts' \subseteq ActSet /\ EntersAsAllowed'
<1>1. st[b] = "running" /\ Top(b).tool \in Functions
  BY DEF Passes, Calling
<1>2. Top(b) \in Frame /\ InScope(b) \in BOOLEAN
  BY <1>1, AtLevel
<1>3. /\ Depth(b) \in 1 .. Len(stack[b]) /\ stack[b] \in Seq(Frame)
      /\ Shape(stack[b], scopes[b], Calls[b])
      /\ InScope(b) = TRUE <=> Under(stack[b], Depth(b))
  BY <1>1, AtLevel
<1>4. /\ Entry(b).tool = Top(b).tool /\ Entry(b).told = Top(b).told
      /\ Entry(b).under = {stack[b][i].tool : i \in 1 .. Depth(b) - 1}
  BY DEF Entry
<1>5. \A i \in 1 .. Depth(b) - 1 : stack[b][i].tool \in Agents
  BY <1>3 DEF Shape
<1>6. Entry(b) \in ActSet
  <2>1. Top(b).told \in Seq({"yes", "no"})
    BY <1>2 DEF Frame
  <2>2. {stack[b][i].tool : i \in 1 .. Depth(b) - 1} \in SUBSET Tools
    BY <1>5 DEF Tools
  <2>. QED
    BY <1>1, <2>1, <2>2 DEF ActSet, Entry
<1>7. Entry(b).tool \in Writing => Entry(b).under \cap ReadOnly = {}
  <2>1. Top(b).tool \in Writing => ~ InScope(b)
    BY DEF Passes
  <2>2. Top(b).tool \in Writing => ~ Under(stack[b], Depth(b))
    BY <1>2, <1>3, <2>1
  <2>. QED
    BY <1>4, <2>2 DEF Under
<1>8. Entry(b).tool \in Gated => Entry(b).told # <<>> /\ Entry(b).told[1] = "yes"
  BY <1>4 DEF GateOpen
<1>9. acts \subseteq ActSet /\ SingleWriter /\ CallsAreApproved
  BY DEF IInv, TypeOK, EntersAsAllowed, ActSet
<1>10. SingleWriter'
  BY <1>7, <1>9 DEF SingleWriter
<1>11. CallsAreApproved'
  BY <1>8, <1>9 DEF CallsAreApproved
<1>. QED
  BY <1>6, <1>9, <1>10, <1>11 DEF EntersAsAllowed

(* The record is left alone.                                               *)
LEMMA NotActing ==
  ASSUME IInv, UNCHANGED acts
  PROVE  acts' \subseteq ActSet /\ EntersAsAllowed'
BY DEF IInv, TypeOK, ActSet, EntersAsAllowed, SingleWriter, CallsAreApproved

LEMMA OutcomesTyped ==
  /\ Failure \in Outcome /\ Denied \in Outcome /\ Text \in Outcome
  /\ Failure.kind # "value" /\ Denied.kind # "value"
  /\ \A v \in Results : Value(v) \in Outcome
BY DEF Outcome, Failure, Denied

(* What a sub-agent's run leaves may be read as Read says.                 *)
LEMMA ReadsWell ==
  ASSUME NEW a \in Agents, NEW status \in Status, NEW v \in Results
  PROVE  /\ AgentReturns(a, status, v) \in Outcome
         /\ Read(a, AgentReturns(a, status, v), status)
<1>1. CASE status # "ok" \/ (a \in DOMAIN Schema /\ ~ Matches(Schema[a], v))
  <2>1. AgentReturns(a, status, v) = Failure
    BY <1>1 DEF AgentReturns
  <2>. QED
    BY <2>1, OutcomesTyped DEF Read
<1>2. CASE status = "ok" /\ a \notin DOMAIN Schema
  <2>1. AgentReturns(a, status, v) = Text
    BY <1>2 DEF AgentReturns
  <2>. QED
    BY <1>2, <2>1, OutcomesTyped DEF Read
<1>3. CASE status = "ok" /\ a \in DOMAIN Schema /\ Matches(Schema[a], v)
  <2>1. AgentReturns(a, status, v) = Value(v)
    BY <1>3 DEF AgentReturns
  <2>2. Value(v).value = v
    BY DEF Value
  <2>. QED
    BY <1>3, <2>1, <2>2, OutcomesTyped DEF Read
<1>. QED
  BY <1>1, <1>2, <1>3

(* Each step of a branch keeps the invariant.                              *)
LEMMA BranchSteps ==
  ASSUME IInv, NEW b \in Branches, BranchStep(b)
  PROVE  IInv'
<1>1. st[b] = "running"
  BY DEF BranchStep, Refused, GateAsks, GateDenies, FunctionAsks, FunctionReturns,
         AgentEntered, NoQuery, AgentCalls, AgentEnds, Passes, Calling
<1>2. /\ stack[b] \in Seq(Frame) /\ scopes[b] \in Seq(BOOLEAN)
      /\ Depth(b) \in 1 .. Len(scopes[b]) /\ Depth(b) \in 1 .. Len(stack[b])
      /\ Top(b) \in Frame /\ Depth(b) = Len(scopes[b])
      /\ Shape(stack[b], scopes[b], Calls[b]) /\ Calls[b] \in Tools
  BY <1>1, AtLevel
<1>3. /\ out[b] \in Outcome /\ ended[b] \in Status \cup {"none"}
      /\ out' = out => out' = [out EXCEPT ![b] = out[b]]
      /\ ended' = ended => ended' = [ended EXCEPT ![b] = ended[b]]
      /\ st' = st => st' = [st EXCEPT ![b] = "running"]
      /\ stack' = stack => stack' = [stack EXCEPT ![b] = stack[b]]
      /\ scopes' = scopes => scopes' = [scopes EXCEPT ![b] = scopes[b]]
  BY <1>1 DEF IInv, TypeOK
<1>4. ASSUME NEW o \in Outcome, Return(b, Depth(b), o), UNCHANGED ended,
             o.kind # "value" \/ Top(b).tool \notin Agents,
             acts' \subseteq ActSet, EntersAsAllowed'
      PROVE  IInv'
  <2>1. Depth(b) \in 1 .. Depth(b)
    BY <1>2
  <2>2. Depth(b) = 1 => Top(b).tool = Calls[b]
    BY <1>2 DEF Top, Shape
  <2>3. Depth(b) = 1 => Read(Calls[b], o, ended[b])
    BY <1>4, <2>2 DEF Read
  <2>. QED
    BY <1>1, <1>3, <1>4, <2>1, <2>3, Returning
<1>5. CASE Refused(b)
  BY <1>4, <1>5, NotActing, OutcomesTyped DEF Refused
<1>6. CASE GateAsks(b)
  BY <1>1, <1>6, NotActing, Asking DEF GateAsks
<1>7. CASE GateDenies(b)
  BY <1>4, <1>7, NotActing, OutcomesTyped DEF GateDenies
<1>8. CASE FunctionAsks(b)
  BY <1>1, <1>8, Acting, Asking DEF FunctionAsks
<1>9. CASE FunctionReturns(b)
  <2>1. acts' \subseteq ActSet /\ EntersAsAllowed'
    BY <1>9, Acting DEF FunctionReturns
  <2>2. Top(b).tool \notin Agents
    BY <1>9, AgentsAssumption DEF FunctionReturns, Passes, Calling
  <2>. QED
    BY <1>4, <1>9, <2>1, <2>2, OutcomesTyped DEF FunctionReturns
<1>10. CASE AgentEntered(b)
  <2>. DEFINE sc == Append(scopes[b], ScopeInside(b))
              s == IF Len(stack[b]) > Depth(b) THEN stack[b]
                   ELSE Append(stack[b], CallOf("none", 0))
  <2>1. Top(b).tool \in Agents /\ stack[b][Len(scopes[b])].tool \in Agents
    BY <1>2, <1>10 DEF AgentEntered, Passes, Calling, Top
  <2>2. ScopeInside(b) \in BOOLEAN
    BY DEF ScopeInside
  <2>3. ScopeInside(b) = TRUE <=>
          scopes[b][Len(scopes[b])] = TRUE \/ stack[b][Len(scopes[b])].tool \in ReadOnly
    <3>1. scopes[b][Len(scopes[b])] \in BOOLEAN
      BY <1>2, ElementOfSeq
    <3>2. ScopeInside(b) <=>
            scopes[b][Len(scopes[b])] \/ stack[b][Len(scopes[b])].tool \in ReadOnly
      BY <1>2, Zenon DEF ScopeInside, InScope, Top
    <3>. QED
      BY <2>2, <3>1, <3>2, Zenon
  <2>4. s = IF Len(stack[b]) > Len(scopes[b]) THEN stack[b]
            ELSE Append(stack[b], CallOf("none", 0))
    BY <1>2
  <2>5. Len(scopes[b]) >= 1
    BY <1>2
  <2>. HIDE DEF s
  <2>6. s \in Seq(Frame) /\ sc \in Seq(BOOLEAN) /\ Shape(s, sc, Calls[b])
    BY <1>2, <2>1, <2>2, <2>3, <2>4, <2>5, Entering
  <2>7. Len(sc) >= 1
    <3>1. Len(sc) = Len(scopes[b]) + 1
      BY <1>2, <2>2, AppendProperties
    <3>. QED
      BY <2>5, <3>1
  <2>. HIDE DEF sc
  <2>8. stack' = [stack EXCEPT ![b] = s] /\ scopes' = [scopes EXCEPT ![b] = sc]
    BY <1>3, <1>10 DEF AgentEntered, s, sc
  <2>9. UNCHANGED <<st, out, ended, acts>>
    BY <1>10 DEF AgentEntered
  <2>. QED
    BY <1>1, <1>3, <2>6, <2>7, <2>8, <2>9, NotActing, OneBranch
<1>11. CASE NoQuery(b)
  BY <1>4, <1>11, NotActing, OutcomesTyped DEF NoQuery
<1>12. Top(b).tool = "none" => /\ Depth(b) = Len(stack[b]) /\ Depth(b) >= 2
                               /\ Agent(b) \in Agents /\ Agent(b) = stack[b][Depth(b) - 1].tool
  <2>. SUFFICES ASSUME Top(b).tool = "none"
                PROVE  /\ Depth(b) = Len(stack[b]) /\ Depth(b) >= 2
                       /\ Agent(b) \in Agents /\ Agent(b) = stack[b][Depth(b) - 1].tool
    OBVIOUS
  <2>1. "none" \notin Tools /\ "none" \notin Agents
    BY AgentsAssumption DEF Tools
  <2>2. Depth(b) # 1
    BY <1>2, <2>1 DEF Top, Shape
  <2>3. ~ (Depth(b) \in 1 .. Len(stack[b]) - 1)
    BY <1>2, <2>1 DEF Top, Shape
  <2>4. Depth(b) - 1 \in 1 .. Len(stack[b]) - 1
    <3>1. Len(stack[b]) \in Nat /\ Len(scopes[b]) \in Nat
      BY <1>2, LenProperties
    <3>2. \A d, n \in Nat : d \in 1 .. n /\ d # 1 => d - 1 \in 1 .. n - 1
      OBVIOUS
    <3>. QED
      BY <1>2, <2>2, <3>1, <3>2
  <2>. QED
    BY <1>2, <2>2, <2>3, <2>4 DEF Agent, Shape
<1>13. CASE AgentCalls(b)
  <2>1. Top(b).tool = "none"
    BY <1>13 DEF AgentCalls, Calling
  <2>2. PICK tool \in Offers[Agent(b)] :
          stack' = [stack EXCEPT ![b][Depth(b)] = CallOf(tool, Top(b).steps + 1)]
    BY <1>2, <1>13 DEF AgentCalls, Top, IInv, TypeOK
  <2>3. CallOf(tool, Top(b).steps + 1) \in Frame
    <3>1. tool \in Tools
      BY <1>12, <2>1, AgentsAssumption
    <3>2. Top(b).steps + 1 \in Nat
      BY <1>2 DEF Frame
    <3>. QED
      BY <3>1, <3>2, CallOfType
  <2>. DEFINE s == [stack[b] EXCEPT ![Len(stack[b])] = CallOf(tool, Top(b).steps + 1)]
  <2>4. Len(stack[b]) > 1
    BY <1>2, <1>12, <2>1
  <2>5. s \in Seq(Frame) /\ Shape(s, scopes[b], Calls[b])
    BY <1>2, <2>3, <2>4, LastChanges
  <2>6. stack' = [stack EXCEPT ![b] = s]
    BY <1>12, <2>1, <2>2 DEF IInv, TypeOK
  <2>7. UNCHANGED <<scopes, st, out, ended, acts>>
    BY <1>13 DEF AgentCalls
  <2>8. Len(scopes[b]) >= 1
    BY <1>2
  <2>. HIDE DEF s
  <2>. QED
    BY <1>1, <1>2, <1>3, <2>5, <2>6, <2>7, <2>8, NotActing, OneBranch
<1>14. CASE AgentEnds(b)
  <2>1. Top(b).tool = "none"
    BY <1>14 DEF AgentEnds, Calling
  <2>2. PICK status \in Status, v \in Results :
          /\ Return(b, Depth(b) - 1, AgentReturns(Agent(b), status, v))
          /\ ended' = IF Depth(b) = 2 THEN [ended EXCEPT ![b] = status] ELSE ended
    BY <1>14 DEF AgentEnds
  <2>3. /\ AgentReturns(Agent(b), status, v) \in Outcome
        /\ Read(Agent(b), AgentReturns(Agent(b), status, v), status)
    BY <1>12, <2>1, ReadsWell
  <2>4. Depth(b) - 1 \in 1 .. Depth(b)
    BY <1>2, <1>12, <2>1
  <2>5. Depth(b) - 1 = 1 => Agent(b) = Calls[b] /\ Depth(b) = 2
    <3>1. Len(scopes[b]) \in Nat
      BY <1>2, LenProperties
    <3>2. stack[b][1].tool = Calls[b]
      BY <1>2 DEF Shape
    <3>3. Depth(b) \in Nat
      BY <1>2, <3>1
    <3>4. \A d \in Nat : d - 1 = 1 => d = 2
      OBVIOUS
    <3>. QED
      BY <1>12, <2>1, <3>2, <3>3, <3>4
  <2>6. UNCHANGED acts
    BY <1>14 DEF AgentEnds
  <2>7. CASE Depth(b) = 2
    BY <1>1, <2>2, <2>3, <2>4, <2>5, <2>6, <2>7, NotActing, Returning
  <2>8. CASE Depth(b) # 2
    <3>1. ended' = [ended EXCEPT ![b] = ended[b]]
      BY <1>3, <2>2, <2>8
    <3>2. Depth(b) - 1 # 1
      BY <1>2, <2>8
    <3>. QED
      BY <1>1, <1>3, <2>2, <2>3, <2>4, <2>6, <3>1, <3>2, NotActing, Returning
  <2>. QED
    BY <2>7, <2>8
<1>. QED
  BY <1>5, <1>6, <1>7, <1>8, <1>9, <1>10, <1>11, <1>13, <1>14 DEF BranchStep

(* The human answers every branch that asked.                              *)
LEMMA AnswerStep ==
  ASSUME IInv, NEW says \in [Asked -> {"yes", "no"}], Answer(says)
  PROVE  IInv'
<1>1. /\ stack \in [Branches -> Seq(Frame)] /\ scopes \in [Branches -> Seq(BOOLEAN)]
      /\ st \in [Branches -> {"running", "asked", "done"}]
  BY DEF IInv, TypeOK
<1>2. UNCHANGED <<out, ended, acts>>
  BY DEF Answer
<1>3. ASSUME NEW c \in Branches
      PROVE  /\ stack'[c] \in Seq(Frame) /\ scopes'[c] \in Seq(BOOLEAN)
             /\ st'[c] \in {"running", "asked", "done"}
             /\ Shape(stack'[c], scopes'[c], Calls[c])
             /\ st'[c] = "running" => Len(scopes'[c]) >= 1
             /\ st'[c] = "done" => st[c] = "done"
  <2>0. stack[c] \in Seq(Frame) /\ Shape(stack[c], scopes[c], Calls[c])
    BY DEF IInv, TypeOK
  <2>1. CASE c \in Asked
    <3>. DEFINE last == stack[c][Len(stack[c])]
                f == [last EXCEPT !.told = Append(@, says[c])]
                s == [stack[c] EXCEPT ![Len(stack[c])] = f]
    <3>1. Len(stack[c]) \in Nat /\ Len(stack[c]) >= 1
      BY <2>0, LenProperties DEF Shape
    <3>2. last \in Frame
      <4>1. Len(stack[c]) \in 1 .. Len(stack[c])
        BY <3>1
      <4>. QED
        BY <2>0, <4>1, ElementOfSeq
    <3>3. f \in Frame /\ f.tool = last.tool
      <4>1. says[c] \in {"yes", "no"}
        BY <2>1
      <4>2. Append(last.told, says[c]) \in Seq({"yes", "no"})
        BY <3>2, <4>1, AppendProperties DEF Frame
      <4>. QED
        BY <3>2, <4>2 DEF Frame
    <3>4. Len(stack[c]) > 1 \/ f.tool = Calls[c]
      <4>1. stack[c][1].tool = Calls[c]
        BY <2>0 DEF Shape
      <4>. QED
        BY <3>1, <3>3, <4>1
    <3>5. stack'[c] = s
      BY <2>1 DEF Answer
    <3>6. scopes'[c] = <<FALSE>> /\ st'[c] = "running"
      BY <2>1 DEF Answer
    <3>. HIDE DEF f
    <3>7. s \in Seq(Frame) /\ Shape(s, scopes[c], Calls[c])
      BY <1>1, <2>0, <3>3, <3>4, LastChanges
    <3>. HIDE DEF s
    <3>8. Shape(s, <<FALSE>>, Calls[c])
      BY <3>7, Unwound
    <3>9. <<FALSE>> \in Seq(BOOLEAN) /\ Len(<<FALSE>>) = 1
      OBVIOUS
    <3>. QED
      BY <3>5, <3>6, <3>7, <3>8, <3>9
  <2>2. CASE c \notin Asked
    <3>1. stack'[c] = stack[c] /\ scopes'[c] = scopes[c] /\ st'[c] = st[c]
      BY <2>2 DEF Answer
    <3>. QED
      BY <1>1, <2>0, <3>1 DEF IInv
  <2>. QED
    BY <2>1, <2>2
<1>4. TypeOK'
  <2>1. /\ stack' \in [Branches -> Seq(Frame)] /\ scopes' \in [Branches -> Seq(BOOLEAN)]
        /\ st' \in [Branches -> {"running", "asked", "done"}]
    BY <1>3 DEF Answer
  <2>. QED
    BY <1>2, <2>1 DEF IInv, TypeOK
<1>5. EntersAsAllowed'
  BY <1>2, NotActing
<1>6. ASSUME NEW c \in Branches
      PROVE  st'[c] = "done" => Read(Calls[c], out'[c], ended'[c])
  BY <1>2, <1>3 DEF IInv
<1>7. IInv' <=> /\ TypeOK' /\ EntersAsAllowed'
                /\ \A c \in Branches :
                     /\ Shape(stack'[c], scopes'[c], Calls[c])
                     /\ st'[c] = "running" => Len(scopes'[c]) >= 1
                     /\ st'[c] = "done" => Read(Calls[c], out'[c], ended'[c])
  BY DEF IInv, Shape, Scoped, Under, Read, Matches, IsInstance
<1>. QED
  BY <1>3, <1>4, <1>5, <1>6, <1>7

LEMMA NextIInv == IInv /\ [Next]_vars => IInv'
<1>. SUFFICES ASSUME IInv, [Next]_vars PROVE IInv'
  OBVIOUS
<1>1. CASE UNCHANGED vars
  BY <1>1 DEF vars, IInv, TypeOK, EntersAsAllowed, SingleWriter, CallsAreApproved, Shape,
     Scoped, Under, Read, Matches, IsInstance
<1>. QED
  BY <1>1, BranchSteps, AnswerStep DEF Next, Machine, Human

LEMMA Invariant == Spec => []IInv
BY InitIInv, NextIInv, PTL DEF Spec
-----------------------------------------------------------------------------
(* Theorems                                                                *)

(* Whatever agents call whatever agents: frames, scopes, results and the   *)
(* record of what was entered have their types.                            *)
THEOREM TypeCorrect == Spec => []TypeOK
<1>1. IInv => TypeOK
  BY DEF IInv
<1>. QED
  BY Invariant, <1>1, PTL

(* At any depth, and however often the levels above are entered again for  *)
(* an answer: no tool with side effects under a read-only agent, and no    *)
(* gated tool without a yes to this call (read_only_scope, execute_tool).  *)
THEOREM NestedCallsAllowed == Spec => []EntersAsAllowed
<1>1. IInv => EntersAsAllowed
  BY DEF IInv
<1>. QED
  BY Invariant, <1>1, PTL

(* For every schema: the answer a caller reads is from a run that came to  *)
(* its end and has the required keys with the types declared for them      *)
(* (AgentTool.run, schema_mismatch).                                       *)
THEOREM ReadAsDeclared == Spec => []NoStandIn
<1>1. IInv => NoStandIn
  <2>. SUFFICES ASSUME IInv, NEW b \in Branches,
                       st[b] = "done", Calls[b] \in Agents, out[b].kind = "value"
                PROVE  /\ ended[b] = "ok"
                       /\ Calls[b] \in DOMAIN Schema /\ Schema[Calls[b]].type = "object" =>
                            LET s == Schema[Calls[b]] IN
                            \A k \in s.required \cap DOMAIN s.properties :
                              /\ k \in DOMAIN out[b].value.fields
                              /\ out[b].value.fields[k] \in
                                   (IF s.properties[k] = "number" THEN {"number", "integer"}
                                    ELSE {s.properties[k]})
    BY DEF NoStandIn
  <2>1. Read(Calls[b], out[b], ended[b])
    BY DEF IInv
  <2>2. ended[b] = "ok" /\ (Calls[b] \in DOMAIN Schema => Matches(Schema[Calls[b]], out[b].value))
    BY <2>1 DEF Read
  <2>3. ASSUME Calls[b] \in DOMAIN Schema, Schema[Calls[b]].type = "object",
               NEW k \in Schema[Calls[b]].required \cap DOMAIN Schema[Calls[b]].properties
        PROVE  /\ k \in DOMAIN out[b].value.fields
               /\ out[b].value.fields[k] \in
                    (IF Schema[Calls[b]].properties[k] = "number" THEN {"number", "integer"}
                     ELSE {Schema[Calls[b]].properties[k]})
    <3>1. out[b].value.type = "object"
      BY <2>2, <2>3 DEF Matches, IsInstance
    <3>2. k \in DOMAIN out[b].value.fields
      BY <2>2, <2>3, <3>1 DEF Matches
    <3>3. /\ IsInstance(out[b].value.fields[k], Schema[Calls[b]].properties[k])
          /\ Schema[Calls[b]].properties[k] \in {"number", "integer"} =>
               out[b].value.fields[k] # "boolean"
      BY <2>2, <2>3, <3>1, <3>2 DEF Matches
    <3>. QED
      BY <3>2, <3>3 DEF IsInstance
  <2>. QED
    BY <2>2, <2>3
<1>. QED
  BY Invariant, <1>1, PTL
=============================================================================
