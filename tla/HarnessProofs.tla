----------------------------- MODULE HarnessProofs -----------------------------
(***************************************************************************)
(* Proofs about what surrounds the agents: the registries of patterns and  *)
(* tools (Setup), the command-line runs over one file of checkpoints       *)
(* (Sessions), and the reading of observations that are too long for a     *)
(* prompt (Reading). Init, Next, Spec, TypeOK and vars are those of Setup. *)
(***************************************************************************)
EXTENDS Setup, Sessions, Reading, FiniteSetTheorems, SequenceTheorems, TLAPS

-----------------------------------------------------------------------------
(* Registries: any patterns and tools, registered by any number of threads *)
(* at once, in any order with the lookups and the import                   *)

(* A pattern a thread registers, or that the table has.                    *)
Live(s) ==
  \/ \E t \in Threads : doing[t].spec = s
  \/ s.name \in DOMAIN table /\ table[s.name] = s

(* What is written for a pattern's keys is its own.                        *)
Owns(s) ==
  /\ \A k \in Keys(s) \cap DOMAIN table : k = s.name /\ table[k] = s
  /\ \A k \in Keys(s) \cap DOMAIN aliases : k \in AliasesOf(s) /\ aliases[k] = s.name
  /\ \A a \in DOMAIN aliases : aliases[a] = s.name => a \in AliasesOf(s)

NoDangling == \A a \in DOMAIN aliases : aliases[a] \in DOMAIN table

WrittenSoFar ==
  \A t \in Threads : Busy(t) /\ doing[t].wrote > 0 =>
    /\ doing[t].spec.name \in DOMAIN table
    /\ \A j \in 1 .. doing[t].wrote - 1 : doing[t].spec.aliases[j] \in DOMAIN aliases

TableWhole ==
  \A n \in DOMAIN table :
    (\E t \in Threads : doing[t].spec = table[n]) \/ Keys(table[n]) \subseteq Choices

RivalsClash ==
  \A t \in Threads, s \in Specs :
    Busy(t) /\ Live(s) /\ s # doing[t].spec /\ Keys(s) \cap Keys(doing[t].spec) # {} =>
      s \in clashed /\ doing[t].spec \in clashed

OwnKeys == \A s \in Specs \ clashed : Live(s) => Owns(s)

(* The built-in patterns the import has registered.                        *)
Imported ==
  IF next # 0 THEN 1 .. next - 1
  ELSE IF loaded /\ ~ failed THEN DOMAIN Builtins ELSE {}

ImportedWhole ==
  \A i \in Imported : Builtins[i] \notin clashed =>
    \A k \in Keys(Builtins[i]) : Resolve(k) = Builtins[i]

ImportFits ==
  /\ failed => loaded
  /\ next # 0 => loaded /\ ~ failed
  /\ \A t \in Threads : Importing(t) /\ Busy(t) => doing[t].spec = Builtins[next]

TablesInv == NoDangling /\ WrittenSoFar /\ TableWhole /\ RivalsClash /\ OwnKeys

IInv == TypeOK /\ TablesInv /\ ImportedWhole /\ ImportFits
-----------------------------------------------------------------------------
LEMMA BuiltinsAre ==
  /\ DOMAIN Builtins = 1 .. 7 /\ Len(Builtins) = 7
  /\ \A i \in 1 .. 7 : Builtins[i] \in Specs
BY DEF Builtins, Specs

LEMMA SpecsAre ==
  ASSUME NEW s \in Specs
  PROVE  /\ s # Unknown
         /\ Keys(s) \subseteq AllKeys /\ s.name \in Keys(s) /\ AliasesOf(s) \subseteq Keys(s)
         /\ Len(s.aliases) \in Nat /\ DOMAIN s.aliases = 1 .. Len(s.aliases)
         /\ AliasesOf(s) = {s.aliases[j] : j \in 1 .. Len(s.aliases)}
<1>1. s # Unknown /\ \E S : s.aliases \in Seq(S)
  <2>1. CASE s \in UserSpecs
    BY <2>1, SetupAssumption
  <2>2. ASSUME NEW i \in DOMAIN Builtins, s = Builtins[i]
        PROVE  s # Unknown /\ \E S : s.aliases \in Seq(S)
    <3>1. i \in 1 .. 7
      BY BuiltinsAre
    <3>2. /\ s.name # "unknown"
          /\ s.aliases \in {<<>>, <<"plan">>, <<"chain">>, <<"parallelization">>,
                           <<"evaluator">>, <<"orchestrator">>}
      BY <2>2, <3>1 DEF Builtins
    <3>3. s # Unknown
      BY <3>2 DEF Unknown
    <3>4. \A x : <<>> \in Seq({x}) /\ <<x>> \in Seq({x})
      OBVIOUS
    <3>5. \E S : s.aliases \in Seq(S)
      BY <3>2, <3>4
    <3>. QED
      BY <3>3, <3>5
  <2>. QED
    BY <2>1, <2>2 DEF Specs
<1>. QED
  BY <1>1 DEF Keys, AllKeys, AliasesOf

(* Whoever is in the table or being registered when s begins shares no key *)
(* with it that is in the tables already.                                  *)
LEMMA BeginFindsNone ==
  ASSUME TypeOK, TablesInv, NEW s \in Specs, ~ Taken(s),
         NEW q \in Specs, Live(q), q # s, Keys(q) \cap Keys(s) # {}
  PROVE  q \in Rivals(s)
<1>1. CASE \E t \in Threads : doing[t].spec = q
  BY <1>1, SpecsAre DEF Rivals
<1>2. CASE /\ q.name \in DOMAIN table /\ table[q.name] = q
           /\ \A t \in Threads : doing[t].spec # q
  <2>1. Keys(q) \subseteq Choices
    BY <1>2 DEF TablesInv, TableWhole
  <2>. QED
    BY <2>1 DEF Taken
<1>. QED
  BY <1>1, <1>2 DEF Live

LEMMA BeginKeeps ==
  ASSUME TypeOK, TablesInv, NEW t \in Threads, NEW s \in Specs, Begin(t, s)
  PROVE  /\ TablesInv'
         /\ doing' \in [Threads -> [spec : Specs \cup {Unknown}, wrote : Nat]]
         /\ \A u \in Threads : doing'[u].wrote <= Len(doing'[u].spec.aliases)
         /\ clashed' \subseteq Specs
<1>1. /\ ~ Busy(t) /\ ~ Taken(s) /\ UNCHANGED <<table, aliases>>
      /\ doing'[t] = [spec |-> s, wrote |-> 0]
      /\ \A u \in Threads \ {t} : doing'[u] = doing[u]
      /\ clashed \subseteq clashed' /\ Rivals(s) \subseteq clashed'
      /\ Rivals(s) # {} => s \in clashed'
  BY DEF Begin, TypeOK
<1>2. doing' \in [Threads -> [spec : Specs \cup {Unknown}, wrote : Nat]]
  BY DEF Begin, TypeOK
<1>3. \A u \in Threads : doing'[u].wrote <= Len(doing'[u].spec.aliases)
  BY <1>1, SpecsAre DEF TypeOK
<1>4. clashed' \subseteq Specs
  BY DEF Begin, TypeOK, Rivals
<1>5. \A q \in Specs : Live(q)' <=> Live(q) \/ q = s
  BY <1>1, SpecsAre DEF Live, Busy
<1>6. WrittenSoFar' /\ NoDangling'
  BY <1>1 DEF TablesInv, WrittenSoFar, NoDangling, Busy
<1>7. TableWhole'
  <2>. SUFFICES ASSUME NEW n \in DOMAIN table, ~ (Keys(table[n]) \subseteq Choices)
                PROVE  \E u \in Threads : doing'[u].spec = table[n]
    BY <1>1 DEF TableWhole, Choices
  <2>1. PICK u \in Threads : doing[u].spec = table[n]
    BY DEF TablesInv, TableWhole
  <2>2. u # t
    BY <1>1, <2>1, SpecsAre DEF Busy, TypeOK
  <2>. QED
    BY <1>1, <2>1, <2>2
<1>8. RivalsClash'
  <2>. SUFFICES ASSUME NEW u \in Threads, NEW q \in Specs, Busy(u)', Live(q)',
                       q # doing'[u].spec, Keys(q) \cap Keys(doing'[u].spec) # {}
                PROVE  q \in clashed' /\ doing'[u].spec \in clashed'
    BY DEF RivalsClash
  <2>1. CASE u = t
    <3>1. Live(q) /\ doing'[u].spec = s
      BY <1>1, <1>5, <2>1
    <3>2. q \in Rivals(s)
      BY <1>1, <3>1, BeginFindsNone
    <3>. QED
      BY <1>1, <3>1, <3>2
  <2>2. CASE u # t /\ q = s
    <3>1. doing'[u].spec = doing[u].spec /\ doing[u].spec \in Specs /\ Live(doing[u].spec)
      BY <1>1, <2>2 DEF TypeOK, Busy, Live
    <3>2. doing[u].spec \in Rivals(s)
      BY <1>1, <2>2, <3>1, BeginFindsNone
    <3>. QED
      BY <1>1, <2>2, <3>1, <3>2
  <2>3. CASE u # t /\ q # s
    BY <1>1, <1>5, <2>3 DEF TablesInv, RivalsClash, Busy
  <2>. QED
    BY <2>1, <2>2, <2>3
<1>9. OwnKeys'
  <2>. SUFFICES ASSUME NEW q \in Specs \ clashed', Live(q)' PROVE Owns(q)'
    BY DEF OwnKeys
  <2>1. CASE Live(q)
    BY <1>1, <2>1 DEF TablesInv, OwnKeys, Owns
  <2>2. CASE q = s
    <3>1. Keys(s) \cap DOMAIN table = {} /\ Keys(s) \cap DOMAIN aliases = {}
      BY <1>1 DEF Taken, Choices
    <3>2. \A a \in DOMAIN aliases : aliases[a] # s.name
      BY <3>1, SpecsAre DEF TablesInv, NoDangling
    <3>. QED
      BY <1>1, <2>2, <3>1, <3>2 DEF Owns
  <2>. QED
    BY <1>5, <2>1, <2>2
<1>. QED
  BY <1>2, <1>3, <1>4, <1>6, <1>7, <1>8, <1>9 DEF TablesInv
-----------------------------------------------------------------------------
(* A thread that has written a key goes on to the next or is done.         *)
LEMMA WroteMoves ==
  ASSUME TypeOK, NEW t \in Threads, Wrote(t)
  PROVE  /\ Busy(t) /\ doing[t].spec \in Specs /\ UNCHANGED clashed
         /\ \A u \in Threads \ {t} : doing'[u] = doing[u]
         /\ \/ doing'[t] = Idle /\ doing[t].wrote = Len(doing[t].spec.aliases)
            \/ /\ doing'[t] = [spec |-> doing[t].spec, wrote |-> doing[t].wrote + 1]
               /\ doing[t].wrote < Len(doing[t].spec.aliases)
         /\ doing' \in [Threads -> [spec : Specs \cup {Unknown}, wrote : Nat]]
         /\ \A u \in Threads : doing'[u].wrote <= Len(doing'[u].spec.aliases)
<1>1. /\ Busy(t) /\ doing[t].spec \in Specs /\ doing[t] \in [spec : Specs, wrote : Nat]
      /\ UNCHANGED clashed /\ doing[t].wrote <= Len(doing[t].spec.aliases)
      /\ Len(doing[t].spec.aliases) \in Nat
  BY SpecsAre DEF Wrote, TypeOK, Busy
<1>2. CASE WroteAll(t)
  <2>1. doing' = [doing EXCEPT ![t] = Idle]
    BY <1>2 DEF Wrote
  <2>2. doing[t].wrote = Len(doing[t].spec.aliases)
    BY <1>1, <1>2 DEF WroteAll
  <2>3. Idle \in [spec : Specs \cup {Unknown}, wrote : Nat] /\ Idle.wrote <= Len(Idle.spec.aliases)
    BY DEF Idle, Unknown
  <2>. QED
    BY <1>1, <2>1, <2>2, <2>3 DEF TypeOK
<1>3. CASE ~ WroteAll(t)
  <2>1. doing' = [doing EXCEPT ![t].wrote = @ + 1]
    BY <1>3 DEF Wrote
  <2>2. doing[t].wrote < Len(doing[t].spec.aliases)
    BY <1>1, <1>3 DEF WroteAll
  <2>3. doing'[t] = [spec |-> doing[t].spec, wrote |-> doing[t].wrote + 1]
    BY <1>1, <2>1 DEF TypeOK
  <2>4. \A u \in Threads \ {t} : doing'[u] = doing[u]
    BY <2>1 DEF TypeOK
  <2>5. doing'[t] \in [spec : Specs \cup {Unknown}, wrote : Nat]
    BY <1>1, <2>3
  <2>6. doing' \in [Threads -> [spec : Specs \cup {Unknown}, wrote : Nat]]
    BY <2>1, <2>4, <2>5 DEF TypeOK
  <2>. QED
    BY <1>1, <2>2, <2>3, <2>4, <2>6 DEF TypeOK
<1>. QED
  BY <1>2, <1>3

(* What a write puts into the tables: a key of the pattern at hand, under  *)
(* that pattern, so that it has all keys written it has gone past.         *)
Puts(t) ==
  LET q == doing[t].spec
      w == doing[t].wrote IN
  \/ /\ w = 0 /\ UNCHANGED aliases
     /\ DOMAIN table' = DOMAIN table \cup {q.name} /\ table'[q.name] = q
     /\ \A n \in DOMAIN table \ {q.name} : table'[n] = table[n]
  \/ /\ w > 0 /\ UNCHANGED table
     /\ q.aliases[w] \in AliasesOf(q)
     /\ DOMAIN aliases' = DOMAIN aliases \cup {q.aliases[w]}
     /\ aliases'[q.aliases[w]] = q.name
     /\ \A a \in DOMAIN aliases \ {q.aliases[w]} : aliases'[a] = aliases[a]

LEMMA WritesPut ==
  ASSUME TypeOK, NEW t \in Threads, WriteName(t) \/ WriteAlias(t)
  PROVE  Wrote(t) /\ Puts(t)
<1>1. CASE WriteName(t)
  BY <1>1 DEF WriteName, Enter, Puts
<1>2. CASE WriteAlias(t)
  <2>. DEFINE q == doing[t].spec
              w == doing[t].wrote
  <2>1. Wrote(t) /\ w > 0 /\ UNCHANGED table /\ EnterAlias(q.aliases[w], q.name)
    BY <1>2 DEF WriteAlias
  <2>2. q \in Specs /\ w \in Nat /\ w <= Len(q.aliases)
    BY <2>1, WroteMoves DEF TypeOK
  <2>3. w \in 1 .. Len(q.aliases)
    BY <2>1, <2>2, SpecsAre
  <2>4. q.aliases[w] \in AliasesOf(q)
    BY <2>2, <2>3, SpecsAre
  <2>. QED
    BY <2>1, <2>4 DEF EnterAlias, Puts
<1>. QED
  BY <1>1, <1>2

(* Every pattern in the table or being registered was so before the write; *)
(* what is its own stays its own.                                          *)
LEMMA PutsKeepOwn ==
  ASSUME TypeOK, TablesInv, NEW t \in Threads, Wrote(t), Puts(t), NEW s \in Specs
  PROVE  /\ Live(s)' => Live(s)
         /\ Live(s) /\ s \notin clashed => Owns(s)'
<1>. DEFINE q == doing[t].spec
            w == doing[t].wrote
<1>1. q \in Specs /\ Busy(t) /\ Live(q)
  BY WroteMoves DEF Live
<1>2. Live(s)' => Live(s)
  <2>1. \A u \in Threads : doing'[u].spec \in {doing[u].spec, Unknown}
    <3>. SUFFICES ASSUME NEW u \in Threads PROVE doing'[u].spec \in {doing[u].spec, Unknown}
      OBVIOUS
    <3>1. CASE u = t
      <4>1. Idle.spec = Unknown
        BY DEF Idle
      <4>2. doing'[t] \in {Idle, [spec |-> doing[t].spec, wrote |-> doing[t].wrote + 1]}
        BY WroteMoves
      <4>. QED
        BY <3>1, <4>1, <4>2
    <3>2. CASE u # t
      BY <3>2, WroteMoves
    <3>. QED
      BY <3>1, <3>2
  <2>2. s.name \in DOMAIN table' /\ table'[s.name] = s => Live(s)
    BY <1>1 DEF Puts, Live
  <2>. QED
    BY <2>1, <2>2, SpecsAre DEF Live
<1>3. ASSUME Live(s), s \notin clashed PROVE Owns(s)'
  <2>1. Owns(s)
    BY <1>3 DEF TablesInv, OwnKeys
  <2>2. CASE s = q
    BY <2>1, <2>2 DEF Puts, Owns
  <2>3. CASE s # q
    <3>1. Keys(s) \cap Keys(q) = {}
      BY <1>1, <1>3, <2>3 DEF TablesInv, RivalsClash
    <3>2. q.name \in Keys(q) /\ AliasesOf(q) \subseteq Keys(q) /\ s.name \in Keys(s)
      BY <1>1, SpecsAre
    <3>. QED
      BY <2>1, <3>1, <3>2 DEF Puts, Owns
  <2>. QED
    BY <2>2, <2>3
<1>. QED
  BY <1>2, <1>3

LEMMA WriteKeeps ==
  ASSUME TypeOK, TablesInv, NEW t \in Threads, Wrote(t), Puts(t)
  PROVE  /\ TablesInv'
         /\ DOMAIN table' \subseteq AllKeys
         /\ \A k \in DOMAIN table' : table'[k] \in Specs /\ table'[k].name = k
         /\ DOMAIN aliases' \subseteq AllKeys
         /\ \A k \in DOMAIN aliases' : aliases'[k] \in AllKeys
<1>. DEFINE q == doing[t].spec
            w == doing[t].wrote
<1>1. q \in Specs /\ Busy(t) /\ q.name \in Keys(q) /\ AliasesOf(q) \subseteq Keys(q)
      /\ Keys(q) \subseteq AllKeys /\ w \in Nat
  BY WroteMoves, SpecsAre DEF TypeOK
<1>2. DOMAIN table \subseteq DOMAIN table' /\ DOMAIN aliases \subseteq DOMAIN aliases'
  BY DEF Puts
<1>3. /\ DOMAIN table' \subseteq AllKeys
      /\ \A k \in DOMAIN table' : table'[k] \in Specs /\ table'[k].name = k
      /\ DOMAIN aliases' \subseteq AllKeys
      /\ \A k \in DOMAIN aliases' : aliases'[k] \in AllKeys
  BY <1>1 DEF TypeOK, Puts
<1>4. q.name \in DOMAIN table'
  BY <1>1 DEF TablesInv, WrittenSoFar, Puts
<1>5. ASSUME NEW j \in 1 .. w PROVE q.aliases[j] \in DOMAIN aliases'
  <2>1. CASE j = w
    BY <1>1, <2>1 DEF Puts
  <2>2. CASE j # w
    <3>1. j \in 1 .. w - 1 /\ w > 0
      BY <1>1, <2>2
    <3>. QED
      BY <1>1, <1>2, <3>1 DEF TablesInv, WrittenSoFar
  <2>. QED
    BY <2>1, <2>2
<1>6. NoDangling'
  BY <1>2, <1>4 DEF TablesInv, NoDangling, Puts
<1>7. WrittenSoFar'
  <2>. SUFFICES ASSUME NEW u \in Threads, Busy(u)', doing'[u].wrote > 0
                PROVE  /\ doing'[u].spec.name \in DOMAIN table'
                       /\ \A j \in 1 .. doing'[u].wrote - 1 :
                            doing'[u].spec.aliases[j] \in DOMAIN aliases'
    BY DEF WrittenSoFar
  <2>1. CASE u # t
    <3>1. doing'[u] = doing[u] /\ Busy(u)
      BY <2>1, WroteMoves DEF Busy
    <3>2. /\ doing[u].spec.name \in DOMAIN table
          /\ \A j \in 1 .. doing[u].wrote - 1 : doing[u].spec.aliases[j] \in DOMAIN aliases
      BY <3>1 DEF TablesInv, WrittenSoFar
    <3>. QED
      BY <1>2, <3>1, <3>2
  <2>2. CASE u = t
    <3>1. doing'[t].spec = q /\ doing'[t].wrote = w + 1
      <4>1. doing'[t] # Idle
        BY <2>2 DEF Busy, Idle
      <4>2. doing'[t] = [spec |-> q, wrote |-> w + 1]
        BY <4>1, WroteMoves
      <4>. QED
        BY <4>2
    <3>2. doing'[t].wrote - 1 = w
      BY <1>1, <3>1
    <3>. QED
      BY <1>4, <1>5, <2>2, <3>1, <3>2
  <2>. QED
    BY <2>1, <2>2
<1>8. TableWhole'
  <2>. SUFFICES ASSUME NEW n \in DOMAIN table', \A u \in Threads : doing'[u].spec # table'[n]
                PROVE  Keys(table'[n]) \subseteq Choices'
    BY DEF TableWhole
  <2>1. CASE table'[n] = q
    <3>1. doing'[t] = Idle /\ w = Len(q.aliases)
      <4>1. doing'[t] # [spec |-> q, wrote |-> w + 1]
        BY <2>1
      <4>. QED
        BY <4>1, WroteMoves
    <3>2. AliasesOf(q) = {q.aliases[j] : j \in 1 .. w}
      BY <1>1, <3>1, SpecsAre
    <3>. QED
      BY <1>4, <1>5, <2>1, <3>2 DEF Choices, Keys
  <2>2. CASE table'[n] # q
    <3>1. n \in DOMAIN table /\ table'[n] = table[n]
      BY <2>2 DEF Puts
    <3>2. \A u \in Threads : doing[u].spec # table[n]
      BY <2>2, <3>1, WroteMoves
    <3>3. Keys(table[n]) \subseteq Choices
      BY <3>1, <3>2 DEF TablesInv, TableWhole
    <3>. QED
      BY <1>2, <3>1, <3>3 DEF Choices
  <2>. QED
    BY <2>1, <2>2
<1>9. RivalsClash'
  <2>. SUFFICES ASSUME NEW u \in Threads, NEW s \in Specs, Busy(u)', Live(s)',
                       s # doing'[u].spec, Keys(s) \cap Keys(doing'[u].spec) # {}
                PROVE  s \in clashed' /\ doing'[u].spec \in clashed'
    BY DEF RivalsClash
  <2>1. Live(s) /\ UNCHANGED clashed
    BY PutsKeepOwn, WroteMoves
  <2>2. doing'[u].spec = doing[u].spec /\ Busy(u)
    <3>1. CASE u # t
      BY <3>1, WroteMoves DEF Busy
    <3>2. CASE u = t
      <4>1. doing'[t] # Idle
        BY <3>2 DEF Busy, Idle
      <4>2. doing'[t] = [spec |-> q, wrote |-> w + 1]
        BY <4>1, WroteMoves
      <4>. QED
        BY <1>1, <3>2, <4>2
    <3>. QED
      BY <3>1, <3>2
  <2>. QED
    BY <2>1, <2>2 DEF TablesInv, RivalsClash
<1>10. OwnKeys'
  BY PutsKeepOwn, WroteMoves DEF OwnKeys
<1>. QED
  BY <1>3, <1>6, <1>7, <1>8, <1>9, <1>10 DEF TablesInv

(* A key that leads to a pattern registered without a clash goes on to     *)
(* lead there, whoever writes.                                             *)
LEMMA PutsKeepResolve ==
  ASSUME TypeOK, TablesInv, NEW t \in Threads, Wrote(t), Puts(t),
         NEW k, NEW s, s = Resolve(k), s # Unknown, s \notin clashed
  PROVE  Resolve(k)' = s
<1>. DEFINE name == IF k \in DOMAIN aliases THEN aliases[k] ELSE k
<1>1. name \in DOMAIN table /\ s = table[name] /\ s \in Specs /\ s.name = name
  BY DEF Resolve, TypeOK
<1>2. Live(s) /\ Owns(s)
  BY <1>1 DEF Live, TablesInv, OwnKeys
<1>3. k \in Keys(s) /\ s.name \in Keys(s)
  <2>1. CASE k \in DOMAIN aliases
    BY <1>1, <1>2, <2>1 DEF Owns, Keys
  <2>2. CASE k \notin DOMAIN aliases
    BY <1>1, <2>2 DEF Keys
  <2>. QED
    BY <2>1, <2>2
<1>4. Owns(s)'
  BY <1>1, <1>2, PutsKeepOwn
<1>5. s.name \in DOMAIN table' /\ table'[s.name] = s
  <2>1. s.name \in DOMAIN table'
    BY <1>1 DEF Puts
  <2>. QED
    BY <1>3, <1>4, <2>1 DEF Owns
<1>6. k \in DOMAIN aliases' => aliases'[k] = s.name
  BY <1>3, <1>4 DEF Owns
<1>7. k \notin DOMAIN aliases' => k = s.name
  <2>1. k \notin DOMAIN aliases' => k \notin DOMAIN aliases
    BY DEF Puts
  <2>. QED
    BY <1>1, <2>1
<1>. QED
  BY <1>5, <1>6, <1>7 DEF Resolve
-----------------------------------------------------------------------------
LEMMA InitIInv == Init => IInv
<1>. SUFFICES ASSUME Init PROVE IInv
  OBVIOUS
<1>1. /\ DOMAIN table = {} /\ DOMAIN aliases = {} /\ DOMAIN registry = {} /\ agents = {}
      /\ \A t \in Threads : doing[t] = Idle
      /\ doing \in [Threads -> {Idle}]
      /\ loaded = FALSE /\ next = 0 /\ failed = FALSE /\ importer = "none"
      /\ clashed = {}
  BY DEF Init
<1>2. next \in 0 .. Len(Builtins)
  BY <1>1, BuiltinsAre
<1>3. /\ Idle \in [spec : Specs \cup {Unknown}, wrote : Nat]
      /\ Idle.wrote <= Len(Idle.spec.aliases) /\ Idle.spec = Unknown
  BY DEF Idle, Unknown
<1>4. TypeOK
  BY <1>1, <1>2, <1>3 DEF TypeOK
<1>5. \A t \in Threads : ~ Busy(t)
  BY <1>1, <1>3 DEF Busy
<1>6. \A s \in Specs : ~ Live(s)
  BY <1>1, <1>3, SpecsAre DEF Live
<1>7. TablesInv
  BY <1>1, <1>5, <1>6
     DEF TablesInv, NoDangling, WrittenSoFar, TableWhole, RivalsClash, OwnKeys
<1>8. Imported = {}
  BY <1>1 DEF Imported
<1>. QED
  BY <1>1, <1>4, <1>5, <1>7, <1>8 DEF IInv, ImportedWhole, ImportFits

(* What the import has done is not undone, whoever writes.                 *)
LEMMA ImportedStays ==
  ASSUME IInv, NEW t \in Threads, Wrote(t), Puts(t),
         NEW i \in Imported, Builtins[i] \notin clashed, NEW k \in Keys(Builtins[i])
  PROVE  Resolve(k)' = Builtins[i]
<1>1. i \in 1 .. 7
  BY BuiltinsAre DEF Imported, IInv, TypeOK
<1>2. Builtins[i] \in Specs /\ Builtins[i] # Unknown
  BY <1>1, BuiltinsAre, SpecsAre
<1>3. Resolve(k) = Builtins[i]
  BY DEF IInv, ImportedWhole
<1>. QED
  BY <1>2, <1>3, PutsKeepResolve DEF IInv

LEMMA WriteIInv ==
  ASSUME IInv, NEW t \in Threads, WriteName(t) \/ WriteAlias(t)
  PROVE  IInv'
<1>. DEFINE q == doing[t].spec
            w == doing[t].wrote
<1>1. TypeOK /\ TablesInv /\ Wrote(t) /\ Puts(t)
  BY WritesPut DEF IInv
<1>2. /\ UNCHANGED <<loaded, importer, failed, clashed, registry, agents>>
      /\ q \in Specs /\ Busy(t)
  BY <1>1, WroteMoves DEF Wrote, toolVars
<1>3. \/ next' = next
      \/ /\ Importing(t) /\ WroteAll(t) /\ doing'[t] = Idle
         /\ next' = IF next = 7 THEN 0 ELSE next + 1
  <2>1. CASE WroteAll(t)
    BY <1>1, <2>1, BuiltinsAre DEF Wrote, TypeOK
  <2>2. CASE ~ WroteAll(t)
    BY <1>1, <2>2 DEF Wrote
  <2>. QED
    BY <2>1, <2>2
<1>4. next \in 0 .. 7 /\ next' \in 0 .. 7
  BY <1>1, <1>3, BuiltinsAre DEF TypeOK, Importing
<1>5. TypeOK'
  <2>1. /\ DOMAIN table' \subseteq AllKeys
        /\ \A k \in DOMAIN table' : table'[k] \in Specs /\ table'[k].name = k
        /\ DOMAIN aliases' \subseteq AllKeys
        /\ \A k \in DOMAIN aliases' : aliases'[k] \in AllKeys
    BY <1>1, WriteKeeps
  <2>2. /\ doing' \in [Threads -> [spec : Specs \cup {Unknown}, wrote : Nat]]
        /\ \A u \in Threads : doing'[u].wrote <= Len(doing'[u].spec.aliases)
    BY <1>1, WroteMoves
  <2>. QED
    BY <1>1, <1>2, <1>4, <2>1, <2>2, BuiltinsAre DEF TypeOK
<1>6. TablesInv'
  BY <1>1, WriteKeeps
<1>7. ImportFits'
  <2>1. /\ failed' => loaded'
        /\ next' # 0 => loaded' /\ ~ failed'
    BY <1>2, <1>3 DEF IInv, ImportFits, Importing
  <2>2. ASSUME NEW u \in Threads, Importing(u)', Busy(u)'
        PROVE  doing'[u].spec = Builtins[next']
    <3>1. CASE next' = next
      <4>1. Importing(u)
        BY <1>2, <2>2, <3>1 DEF Importing
      <4>2. doing'[u].spec = doing[u].spec /\ Busy(u)
        <5>1. CASE u # t
          BY <1>1, <2>2, <5>1, WroteMoves DEF Busy
        <5>2. CASE u = t
          <6>1. doing'[t] # Idle
            BY <2>2, <5>2 DEF Busy, Idle
          <6>2. doing'[t] = [spec |-> q, wrote |-> w + 1]
            BY <1>1, <6>1, WroteMoves
          <6>. QED
            BY <1>2, <5>2, <6>2
        <5>. QED
          BY <5>1, <5>2
      <4>. QED
        BY <3>1, <4>1, <4>2 DEF IInv, ImportFits
    <3>2. CASE next' # next
      <4>1. Importing(t) /\ doing'[t] = Idle /\ u = t
        BY <1>2, <1>3, <2>2, <3>2 DEF Importing
      <4>. QED
        BY <2>2, <4>1 DEF Busy, Idle
    <3>. QED
      BY <3>1, <3>2
  <2>. QED
    BY <2>1, <2>2 DEF ImportFits
<1>8. ImportedWhole'
  <2>. SUFFICES ASSUME NEW i \in Imported', Builtins[i] \notin clashed, NEW k \in Keys(Builtins[i])
                PROVE  Resolve(k)' = Builtins[i]
    BY <1>2 DEF ImportedWhole
  <2>1. CASE i \in Imported
    BY <1>1, <2>1, ImportedStays
  <2>2. CASE i \notin Imported
    <3>1. next' # next
      BY <1>2, <2>2 DEF Imported
    <3>2. Importing(t) /\ WroteAll(t) /\ doing'[t] = Idle /\ next \in 1 .. 7
      BY <1>3, <1>4, <3>1 DEF Importing
    <3>3. i = next
      <4>1. Imported = 1 .. next - 1
        BY <3>2 DEF Imported
      <4>2. Imported' = 1 .. next
        <5>1. CASE next = 7
          BY <1>2, <1>3, <3>1, <5>1, BuiltinsAre DEF Imported, IInv, ImportFits
        <5>2. CASE next # 7
          BY <1>3, <3>1, <3>2, <5>2 DEF Imported
        <5>. QED
          BY <5>1, <5>2
      <4>. QED
        BY <2>2, <3>2, <4>1, <4>2
    <3>4. q = Builtins[i] /\ Live(q)
      BY <1>2, <3>2, <3>3 DEF IInv, ImportFits, Live
    <3>5. Owns(Builtins[i])'
      BY <1>1, <1>2, <3>4, PutsKeepOwn
    <3>6. w = Len(q.aliases) /\ w \in Nat
      <4>1. w >= Len(q.aliases) /\ w <= Len(q.aliases) /\ w \in Nat
        BY <1>1, <3>2 DEF WroteAll, TypeOK
      <4>. QED
        BY <1>2, <4>1, SpecsAre
    <3>7. q.name \in DOMAIN table' /\ AliasesOf(q) \subseteq DOMAIN aliases'
      <4>1. q.name \in DOMAIN table'
        BY <1>1, <1>2, <3>6 DEF TablesInv, WrittenSoFar, Puts
      <4>2. ASSUME NEW j \in 1 .. w PROVE q.aliases[j] \in DOMAIN aliases'
        <5>1. CASE j = w
          BY <1>1, <3>6, <5>1 DEF Puts
        <5>2. CASE j # w
          <6>1. j \in 1 .. w - 1 /\ w > 0
            BY <3>6, <5>2
          <6>2. q.aliases[j] \in DOMAIN aliases
            BY <1>1, <1>2, <6>1 DEF TablesInv, WrittenSoFar
          <6>. QED
            BY <1>1, <6>2 DEF Puts
        <5>. QED
          BY <5>1, <5>2
      <4>. QED
        BY <1>2, <3>6, <4>1, <4>2, SpecsAre
    <3>. DEFINE b == Builtins[i]
    <3>8. /\ b.name \in Keys(b) /\ AliasesOf(b) \subseteq Keys(b)
          /\ b.name \in DOMAIN table' /\ AliasesOf(b) \subseteq DOMAIN aliases'
          /\ k \in {b.name} \cup AliasesOf(b)
      BY <1>2, <3>4, <3>7, SpecsAre DEF Keys
    <3>9. table'[b.name] = b
      BY <3>5, <3>8 DEF Owns
    <3>10. k \in DOMAIN aliases' => aliases'[k] = b.name
      BY <3>5, <3>8 DEF Owns
    <3>11. k \notin DOMAIN aliases' => k = b.name
      BY <3>8
    <3>. QED
      BY <3>8, <3>9, <3>10, <3>11 DEF Resolve
  <2>. QED
    BY <2>1, <2>2
<1>. QED
  BY <1>5, <1>6, <1>7, <1>8 DEF IInv

LEMMA BeginIInv ==
  ASSUME IInv, NEW t \in Threads, NEW s \in Specs, Begin(t, s),
         Importing(t) => s = Builtins[next]
  PROVE  IInv'
<1>1. /\ UNCHANGED <<table, aliases, loaded, importer, next, failed, registry, agents>>
      /\ \A u \in Threads \ {t} : doing'[u] = doing[u]
      /\ doing'[t].spec = s /\ clashed \subseteq clashed'
  BY DEF Begin, toolVars, IInv, TypeOK
<1>2. TypeOK'
  BY <1>1, BeginKeeps DEF IInv, TypeOK
<1>3. TablesInv'
  BY BeginKeeps DEF IInv
<1>4. ImportedWhole' /\ ImportFits'
  BY <1>1 DEF IInv, ImportedWhole, ImportFits, Imported, Resolve, Importing, Busy
<1>. QED
  BY <1>2, <1>3, <1>4 DEF IInv

LEMMA NextIInv == IInv /\ [Next]_vars => IInv'
<1>. SUFFICES ASSUME IInv, [Next]_vars PROVE IInv'
  OBVIOUS
<1>1. ASSUME UNCHANGED <<table, aliases, doing, clashed>> PROVE TablesInv'
  BY <1>1 DEF IInv, TablesInv, NoDangling, WrittenSoFar, TableWhole, RivalsClash, OwnKeys,
              Live, Owns, Busy, Choices
<1>2. ASSUME UNCHANGED patternVars, TypeOK' PROVE IInv'
  BY <1>1, <1>2
     DEF patternVars, IInv, ImportedWhole, ImportFits, Imported, Importing, Resolve, Busy
<1>3. CASE UNCHANGED vars
  BY <1>2, <1>3 DEF vars, patternVars, toolVars, IInv, TypeOK
<1>4. ASSUME NEW t \in Threads, NEW s \in UserSpecs, Register(t, s) PROVE IInv'
  BY <1>4, BeginIInv DEF Register, Specs
<1>5. ASSUME NEW t \in Threads, WriteName(t) \/ WriteAlias(t) PROVE IInv'
  BY <1>5, WriteIInv
<1>6. ASSUME NEW t \in Threads, FirstLookup(t) PROVE IInv'
  <2>1. /\ UNCHANGED <<table, aliases, doing, failed, clashed, registry, agents>>
        /\ loaded' = TRUE /\ importer' = t /\ next' = 1 /\ ~ loaded /\ ~ Busy(t)
    BY <1>6 DEF FirstLookup, toolVars
  <2>2. TypeOK' /\ TablesInv'
    BY <1>1, <2>1, BuiltinsAre DEF IInv, TypeOK
  <2>3. Imported' = {}
    BY <2>1 DEF Imported
  <2>4. ImportFits'
    BY <2>1 DEF IInv, ImportFits, Importing, Busy
  <2>. QED
    BY <2>2, <2>3, <2>4 DEF IInv, ImportedWhole
<1>7. ASSUME NEW t \in Threads, ImportNext(t) PROVE IInv'
  <2>1. Importing(t) /\ Begin(t, Builtins[next]) /\ next \in 1 .. 7
    BY <1>7, BuiltinsAre DEF ImportNext, Importing, IInv, TypeOK
  <2>. QED
    BY <2>1, BuiltinsAre, BeginIInv
<1>8. ASSUME NEW t \in Threads, ImportRaises(t) PROVE IInv'
  <2>1. /\ UNCHANGED <<table, aliases, doing, loaded, importer, clashed, registry, agents>>
        /\ next' = 0 /\ failed' = TRUE /\ next # 0
    BY <1>8 DEF ImportRaises, Importing, toolVars
  <2>2. TypeOK' /\ TablesInv'
    BY <1>1, <2>1, BuiltinsAre DEF IInv, TypeOK
  <2>3. Imported' = {} /\ loaded'
    BY <2>1 DEF Imported, IInv, ImportFits
  <2>4. ImportFits'
    BY <2>1, <2>3 DEF IInv, ImportFits, Importing
  <2>. QED
    BY <2>2, <2>3, <2>4 DEF IInv, ImportedWhole
<1>9. ASSUME NEW t \in Tools, Add(t) PROVE IInv'
  <2>1. TypeOK'
    BY <1>9 DEF Add, patternVars, IInv, TypeOK
  <2>. QED
    BY <1>2, <1>9, <2>1 DEF Add
<1>10. ASSUME NEW p \in Policies, Build(p) PROVE IInv'
  <2>1. HarnessTools(p) \subseteq HarnessToolNames
    BY DEF HarnessTools
  <2>2. TypeOK'
    BY <1>10, <2>1 DEF Build, patternVars, IInv, TypeOK
  <2>. QED
    BY <1>2, <1>10, <2>2 DEF Build
<1>. QED
  BY <1>3, <1>4, <1>5, <1>6, <1>7, <1>8, <1>9, <1>10 DEF Next

LEMMA Invariant == Spec => []IInv
BY InitIInv, NextIInv, PTL DEF Spec
-----------------------------------------------------------------------------
(* Theorems                                                                *)

(* The tables, the registry and the agents have their types.               *)
THEOREM TypeCorrect == Spec => []TypeOK
<1>1. IInv => TypeOK
  BY DEF IInv
<1>. QED
  BY Invariant, <1>1, PTL

(* However many threads register whatever, key by key, before, during and  *)
(* after the import: every alias leads to a pattern in the table, which    *)
(* claims it unless its registration overlapped with one that claims a key *)
(* of its own (register).                                                  *)
THEOREM AliasesLead == Spec => []AliasesResolve
<1>1. IInv => AliasesResolve
  <2>. SUFFICES ASSUME IInv, NEW a \in DOMAIN aliases
                PROVE  /\ aliases[a] \in DOMAIN table
                       /\ table[aliases[a]] \notin clashed => a \in AliasesOf(table[aliases[a]])
                       /\ a \in DOMAIN table /\ table[a] \notin clashed => aliases[a] = a
    BY DEF AliasesResolve
  <2>1. aliases[a] \in DOMAIN table
    BY DEF IInv, TablesInv, NoDangling
  <2>2. \A n \in DOMAIN table : table[n] \notin clashed => Owns(table[n]) /\ table[n].name = n
    BY DEF IInv, TablesInv, OwnKeys, TypeOK, Live
  <2>. QED
    BY <2>1, <2>2 DEF Owns, Keys
<1>. QED
  BY Invariant, <1>1, PTL

(* An import that did not raise has made every name and alias of the       *)
(* built-in patterns lead to its pattern, whatever other threads were      *)
(* registering meanwhile, and nothing changes that (builtin.py,            *)
(* registry.get).                                                          *)
THEOREM ImportIsWhole == Spec => []BuiltinsWhole
<1>1. IInv => BuiltinsWhole
  BY DEF IInv, ImportedWhole, Imported, BuiltinsWhole
<1>. QED
  BY Invariant, <1>1, PTL

(* So no key is ever left without its pattern.                             *)
THEOREM TablesStand == Spec => []TablesWhole
<1>1. AliasesResolve /\ BuiltinsWhole => TablesWhole
  BY DEF TablesWhole
<1>. QED
  BY AliasesLead, ImportIsWhole, <1>1, PTL

(* What a key leads to is not changed by a registration of any thread, at  *)
(* any of its writes, unless it clashed with the pattern's own (register,  *)
(* get).                                                                   *)
THEOREM NamesKeep == Spec => PatternsStay
<1>1. ASSUME IInv, [Next]_vars, NEW k \in AllKeys, Resolve(k) \notin {Unknown} \cup clashed
      PROVE  Resolve(k)' = Resolve(k)
  <2>1. ASSUME UNCHANGED <<table, aliases>> PROVE Resolve(k)' = Resolve(k)
    BY <2>1 DEF Resolve
  <2>2. ASSUME NEW t \in Threads, WriteName(t) \/ WriteAlias(t) PROVE Resolve(k)' = Resolve(k)
    BY <1>1, <2>2, WritesPut, PutsKeepResolve DEF IInv
  <2>. QED
    BY <1>1, <2>1, <2>2
       DEF Next, vars, patternVars, Register, Begin, FirstLookup, ImportNext, ImportRaises, Add, Build
<1>2. IInv /\ [Next]_vars =>
        \A k \in AllKeys : Resolve(k) \notin {Unknown} \cup clashed => Resolve(k)' = Resolve(k)
  BY <1>1
<1>. QED
  BY <1>2, Invariant, PTL DEF Spec, PatternsStay

(* An agent goes on running the same thing for a tool name, whatever tools *)
(* and agents are added (build_react_agent, ToolRegistry.add).             *)
THEOREM CallsKeep == Spec => CallsStay
<1>1. ASSUME [Next]_vars, NEW a \in agents, NEW name, Runs(a, name) # "unknown"
      PROVE  Runs(a, name)' = Runs(a, name)
  <2>1. ASSUME UNCHANGED registry PROVE Runs(a, name)' = Runs(a, name)
    BY <2>1 DEF Runs, HarnessOf
  <2>2. ASSUME NEW t \in Tools, Add(t) PROVE Runs(a, name)' = Runs(a, name)
    BY <1>1, <2>2 DEF Add, Runs, HarnessOf
  <2>. QED
    BY <1>1, <2>1, <2>2
       DEF Next, vars, toolVars, Register, Begin, WriteName, WriteAlias, Wrote, FirstLookup,
           ImportNext, ImportRaises, Build
<1>2. [Next]_vars =>
        \A a \in agents : \A name \in HarnessToolNames \cup {t.name : t \in Tools} :
          Runs(a, name) # "unknown" => Runs(a, name)' = Runs(a, name)
  BY <1>1
<1>. QED
  BY <1>2, PTL DEF Spec, CallsStay

-----------------------------------------------------------------------------
(* A non-empty set of naturals has a least element.                        *)
LEMMA LeastElement ==
  ASSUME NEW S \in SUBSET Nat, S # {}
  PROVE  \E m \in S : \A k \in S : m <= k
<1>. DEFINE Upto(m) == {k \in S : k <= m}
            R == StrictSubsetOrdering(S)
            T == {Upto(m) : m \in S}
<1>1. IsWellFoundedOn(R, FiniteSubsetsOf(S))
  BY FS_StrictSubsetOrderingWellFounded
<1>2. T \subseteq FiniteSubsetsOf(S)
  <2>. SUFFICES ASSUME NEW m \in S PROVE Upto(m) \in FiniteSubsetsOf(S)
    OBVIOUS
  <2>1. IsFiniteSet(Upto(m))
    BY FS_BoundedSetOfNaturals
  <2>. QED
    BY <2>1 DEF FiniteSubsetsOf
<1>3. T # {}
  OBVIOUS
<1>4. ASSUME NEW k \in S, NEW m \in S, k < m
      PROVE  <<Upto(k), Upto(m)>> \in R
  <2>0. k \in Nat /\ m \in Nat /\ \A x \in S : x \in Nat
    OBVIOUS
  <2>1. m \in Upto(m) /\ m \notin Upto(k)
    BY <1>4, <2>0
  <2>3. \A x \in S : x <= k => x <= m
    BY <1>4, <2>0
  <2>4. Upto(k) \subseteq Upto(m)
    BY <2>3
  <2>2. Upto(k) \subseteq S /\ Upto(m) \subseteq S
    OBVIOUS
  <2>. HIDE DEF Upto
  <2>. QED
    BY <2>1, <2>2, <2>4 DEF StrictSubsetOrdering
<1>. HIDE DEF R, T
<1>5. PICK A \in T : \A B \in T : ~ (<<B, A>> \in R)
  BY <1>1, <1>2, <1>3, WFMin
<1>6. PICK m \in S : A = Upto(m)
  BY DEF T
<1>7. \A k \in S : Upto(k) \in T
  BY DEF T
<1>. HIDE DEF Upto
<1>8. \A k \in S : ~ (k < m)
  BY <1>4, <1>5, <1>6, <1>7
<1>. QED
  BY <1>8

-----------------------------------------------------------------------------
(* Command-line runs: any number of them, with any steps and branches,     *)
(* over one file of checkpoints                                            *)

(* What the driver of a thread is doing.                                   *)
Drives == {"running", "asking", "sending"}

(* A thread has one driver at a time: its own process, or, once that is    *)
(* dead, the one program that took it over.                                *)
OneDriver ==
  /\ \A p \in Processes : on[p] = p /\ pc[p] # "idle"
  /\ \A r \in Resumers :
       /\ on[r] = "none" <=> pc[r] = "idle"
       /\ pc[r] \notin {"new", "refused"}
       /\ on[r] # "none" => on[r] \in Processes /\ pc[on[r]] = "dead"
       /\ \A s \in Resumers : on[r] # "none" /\ on[s] = on[r] => s = r

(* How far a thread is, and its branches.                                  *)
StepsFit ==
  \A p \in Processes :
    /\ step[p] \in 0 .. Len(Steps[p]) + 1
    /\ step[p] = 0 <=> pc[p] \in {"new", "refused"}
    /\ step[p] = 0 => latest[p] = 0
    /\ \A b \in Now(p) : at[p][b] <= Len(Asks(p)[b]) + 1

(* A go runs branches that are not done, and every one that has not paused.*)
GoesFit ==
  \A a \in Actors :
    /\ pc[a] = "running" =>
         /\ todo[a] \cap ran[a] = {}
         /\ todo[a] \cup ran[a] \subseteq Now(on[a]) \ Done(on[a])
         /\ Fresh(on[a]) \subseteq todo[a] \cup ran[a]
    /\ pc[a] # "running" => ran[a] = {}

(* A step is resumed once all its branches have paused, or known as torn.  *)
Whole(th) == Fresh(th) = {} \/ <<th, step[th]>> \in torn

(* Who asks shows what the thread asks; a verdict is to what a branch that *)
(* has not run since asks.                                                 *)
VerdictsFit ==
  \A a \in Actors :
    /\ pc[a] = "asking" =>
         shown[a] = Interrupts(on[a]) /\ shown[a] # {} /\ Whole(on[a])
    /\ pc[a] \in {"sending", "running"} =>
         /\ DOMAIN verdicts[a] # {} => Whole(on[a])
         /\ \A b \in DOMAIN verdicts[a] :
              pc[a] = "sending" \/ b \in todo[a] => verdicts[a][b].to = Question(on[a], b)

Questions ==
  {q \in [thread : Processes, step : Nat, branch : Branches, nth : Nat \ {0}] :
     q.step \in 1 .. Len(Steps[q.thread]) /\ q.branch \in Members(q.thread, q.step)}

(* What was taken: by the driver of the thread, once, for a question it    *)
(* has in the file or is about to write.                                   *)
TookFits ==
  /\ \A e \in took :
       /\ e.by \in Actors /\ e.asked \in Questions /\ on[e.by] = e.asked.thread
       /\ pc[e.by] \notin {"new", "refused", "idle"}
       /\ <<e.asked.thread, e.asked.step>> \notin torn => e.to = e.asked /\ Rightly(e)
       /\ pc[e.by] \in Drives =>
            \/ Answered(e.asked)
            \/ e.asked.branch \in ran[e.by] /\ e.asked = Question(on[e.by], e.asked.branch)
  /\ \A e, f \in took : e.by = f.by /\ e.asked = f.asked => e = f

(* What was kept: one for each question answered.                          *)
KeptFits ==
  /\ \A e \in kept : Answered(e.asked)
  /\ \A e, f \in kept : e.asked = f.asked => e = f
  /\ \A q \in Questions :
       Answered(q) /\ q.nth \in DOMAIN Steps[q.thread][q.step][q.branch] =>
         \E e \in kept : e.asked = q

Rows == {p \in Processes : latest[p] # 0}
Begun == {p \in Processes : pc[p] \notin {"new", "refused"}}

IdsDiffer == \A p, q \in Rows : latest[p] = latest[q] => p = q

(* Once every run that began has listed the threads, some listing was the  *)
(* last: beyond what it found surplus there are no more rows than Keep.    *)
Settled == \A p \in Processes : pc[p] \in {"new", "refused", "pruning", "ended"}

ListedLast ==
  Settled /\ Rows # {} =>
    \E q \in Processes :
      /\ pc[q] \in {"pruning", "ended"} /\ Cardinality(Rows \ doomed[q]) <= Keep
      /\ pc[q] = "ended" => Rows \cap doomed[q] = {}

(* While no more runs than Keep have begun, nothing is surplus.            *)
NothingSurplus ==
  Cardinality(Begun) <= Keep =>
    /\ \A p \in Processes : doomed[p] = {}
    /\ \A p \in Begun : latest[p] # 0
    /\ \A a \in Actors : pc[a] # "lost"

SessionsIInv ==
  /\ SessionsTypeOK /\ OneDriver /\ StepsFit /\ GoesFit /\ VerdictsFit
  /\ TookFits /\ KeptFits
  /\ IdsDiffer /\ ListedLast /\ NothingSurplus
-----------------------------------------------------------------------------
(* A run's own process, and the programs that resume.                      *)
LEMMA ActorsAre ==
  /\ Processes \subseteq Actors /\ Resumers \subseteq Actors /\ "none" \notin Processes
  /\ \A a \in Actors : a \in Processes <=> a \notin Resumers
BY SessionsAssumption DEF Actors

(* The steps of a run: each has branches, and each of these asks.          *)
LEMMA StepsAre ==
  \A p \in Processes :
    /\ Len(Steps[p]) \in Nat /\ DOMAIN Steps[p] = 1 .. Len(Steps[p])
    /\ \A k \in 1 .. Len(Steps[p]) :
         /\ DOMAIN Steps[p][k] # {} /\ IsFiniteSet(DOMAIN Steps[p][k])
         /\ DOMAIN Steps[p][k] \subseteq Branches
         /\ \A b \in DOMAIN Steps[p][k] :
              /\ Len(Steps[p][k][b]) \in Nat \ {0}
              /\ DOMAIN Steps[p][k][b] = 1 .. Len(Steps[p][k][b])
<1>1. ASSUME NEW p \in Processes
      PROVE  Len(Steps[p]) \in Nat /\ DOMAIN Steps[p] = 1 .. Len(Steps[p])
  BY SessionsAssumption, LenProperties
<1>2. ASSUME NEW p \in Processes, NEW k \in 1 .. Len(Steps[p])
      PROVE  /\ DOMAIN Steps[p][k] # {} /\ IsFiniteSet(DOMAIN Steps[p][k])
             /\ DOMAIN Steps[p][k] \subseteq Branches
             /\ \A b \in DOMAIN Steps[p][k] :
                  /\ Len(Steps[p][k][b]) \in Nat \ {0}
                  /\ DOMAIN Steps[p][k][b] = 1 .. Len(Steps[p][k][b])
  <2>1. Steps[p][k] \in StepsOf
    BY <1>1 DEF StepsOf, Range
  <2>2. DOMAIN Steps[p][k] # {} /\ IsFiniteSet(DOMAIN Steps[p][k])
        /\ \A b \in DOMAIN Steps[p][k] : Steps[p][k][b] \in Seq(Asked) /\ Steps[p][k][b] # <<>>
    BY <2>1, SessionsAssumption
  <2>3. DOMAIN Steps[p][k] \subseteq Branches
    BY <2>1 DEF Branches
  <2>. QED
    BY <2>2, <2>3, LenProperties, EmptySeq
<1>. QED
  BY <1>1, <1>2

(* The branches of the step a thread is at.                                *)
LEMMA BranchesAre ==
  ASSUME SessionsTypeOK, NEW th \in Processes
  PROVE  /\ Now(th) \subseteq Branches /\ IsFiniteSet(Now(th))
         /\ \A k : Members(th, k) \subseteq Branches
         /\ Now(th) # {} => step[th] \in 1 .. Len(Steps[th])
         /\ step[th] \in 1 .. Len(Steps[th]) => Now(th) = DOMAIN Asks(th) /\ Now(th) # {}
         /\ \A b \in Now(th) : at[th][b] \in Nat /\ Len(Asks(th)[b]) \in Nat \ {0}
         /\ Done(th) \subseteq Now(th) /\ Fresh(th) \subseteq Now(th)
         /\ Done(th) \cap Fresh(th) = {}
<1>1. \A k : Members(th, k) \subseteq Branches
  BY StepsAre DEF Members
<1>2. Now(th) # {} => step[th] \in 1 .. Len(Steps[th])
  BY StepsAre DEF Now, Members
<1>3. step[th] \in 1 .. Len(Steps[th]) => Now(th) = DOMAIN Asks(th) /\ Now(th) # {}
  BY StepsAre DEF Now, Members, Asks
<1>4. IsFiniteSet(Now(th))
  BY StepsAre, FS_EmptySet DEF Now, Members
<1>5. \A b \in Now(th) : at[th][b] \in Nat /\ Len(Asks(th)[b]) \in Nat \ {0}
  BY <1>1, <1>2, <1>3, StepsAre DEF SessionsTypeOK, Asks, Now
<1>6. Done(th) \cap Fresh(th) = {}
  BY <1>5 DEF Done, Fresh
<1>. QED
  BY <1>1, <1>2, <1>3, <1>4, <1>5, <1>6 DEF Now, Done, Fresh

(* All that is said of a thread is a matter of its step and branches.      *)
LEMMA ThreadStays ==
  ASSUME NEW th, step'[th] = step[th], at'[th] = at[th]
  PROVE  /\ Now(th)' = Now(th) /\ Asks(th)' = Asks(th) /\ Done(th)' = Done(th)
         /\ Fresh(th)' = Fresh(th) /\ Waiting(th)' = Waiting(th)
         /\ \A b : Question(th, b)' = Question(th, b)
         /\ Interrupts(th)' = Interrupts(th)
<1>1. Now(th)' = Now(th) /\ Asks(th)' = Asks(th)
  BY DEF Now, Asks
<1>2. Done(th)' = Done(th) /\ Fresh(th)' = Fresh(th)
  BY <1>1 DEF Done, Fresh
<1>3. Waiting(th)' = Waiting(th)
  BY <1>1, <1>2 DEF Waiting
<1>4. \A b : Question(th, b)' = Question(th, b)
  BY DEF Question
<1>. QED
  BY <1>1, <1>2, <1>3, <1>4 DEF Interrupts

(* Who drives a thread drives one that has begun, alone.                   *)
LEMMA Alone ==
  ASSUME SessionsTypeOK, OneDriver, NEW a \in Actors, pc[a] \in Drives
  PROVE  /\ on[a] \in Processes
         /\ pc[on[a]] \in Drives \cup {"dead"}
         /\ a \in Processes => on[a] = a
         /\ a \in Resumers => pc[on[a]] = "dead"
         /\ \A b \in Actors : b # a /\ pc[b] \in Drives => on[b] # on[a]
<1>1. a \in Processes => on[a] = a
  BY DEF OneDriver
<1>2. a \in Resumers => on[a] \in Processes /\ pc[on[a]] = "dead"
  BY DEF OneDriver, Drives
<1>3. a \in Processes \/ a \in Resumers
  BY DEF Actors
<1>4. ASSUME NEW b \in Actors, b # a, pc[b] \in Drives, on[b] = on[a]
      PROVE  FALSE
  <2>1. b \in Processes => on[b] = b
    BY DEF OneDriver
  <2>2. b \in Resumers => on[b] \in Processes /\ pc[on[b]] = "dead"
    BY <1>4 DEF OneDriver, Drives
  <2>3. b \in Processes \/ b \in Resumers
    BY DEF Actors
  <2>4. a \in Resumers /\ b \in Resumers => a = b
    BY <1>2, <1>4, ActorsAre DEF OneDriver
  <2>. QED
    BY <1>1, <1>2, <1>3, <1>4, <2>1, <2>2, <2>3, <2>4 DEF Drives
<1>. QED
  BY <1>1, <1>2, <1>3, <1>4

LEMMA TypesKeep == SessionsIInv /\ SessionsNext => SessionsTypeOK'
<1>. SUFFICES ASSUME SessionsIInv, SessionsNext PROVE SessionsTypeOK'
  OBVIOUS
<1>0. SessionsTypeOK /\ OneDriver
  BY DEF SessionsIInv
<1>. USE ActorsAre DEF SessionsTypeOK, disk, history, Goes, Doing
<1>1. ASSUME NEW p \in Processes, Refuse(p) \/ Die(p) \/ ListThreads(p)
      PROVE  SessionsTypeOK'
  <2>1. Surplus \in SUBSET Processes
    BY DEF Surplus
  <2>. QED
    BY <1>0, <1>1, <2>1 DEF Refuse, Die, ListThreads
<1>2. ASSUME NEW a \in Actors, on[a] \in Processes, Checkpointed(a)
      PROVE  /\ latest' \in [Processes -> 0 .. clock'] /\ clock' \in Nat
             /\ step' \in [Processes -> Nat] /\ at' \in [Processes -> [Branches -> Nat]]
             /\ todo' \in [Actors -> SUBSET Branches] /\ DOMAIN verdicts' = Actors
  <2>1. Members(on[a], step[on[a]] + 1) \in SUBSET Branches
    BY <1>0, <1>2, BranchesAre
  <2>2. latest' \in [Processes -> 0 .. clock'] /\ clock' \in Nat
    BY <1>0, <1>2 DEF Checkpointed
  <2>3. step' \in [Processes -> Nat] /\ at' \in [Processes -> [Branches -> Nat]]
    BY <1>0, <1>2 DEF Checkpointed
  <2>. QED
    BY <1>0, <1>2, <2>1, <2>2, <2>3 DEF Checkpointed
<1>3. ASSUME NEW p \in Processes, Start(p)
      PROVE  SessionsTypeOK'
  <2>1. p \in Actors /\ on[p] = p
    BY <1>0 DEF OneDriver
  <2>2. Checkpointed(p) /\ UNCHANGED <<on, ran, shown, doomed, took, kept, torn>>
        /\ pc' = [pc EXCEPT ![p] = "running"]
    BY <1>3 DEF Start
  <2>. QED
    BY <1>0, <1>2, <2>1, <2>2
<1>4. ASSUME NEW p \in Processes, DeleteThreads(p)
      PROVE  SessionsTypeOK'
  BY <1>0, <1>4 DEF DeleteThreads
<1>5. ASSUME NEW a \in Actors, NEW b \in Branches, RunBranch(a, b)
      PROVE  SessionsTypeOK'
  <2>1. took \subseteq took' /\ DOMAIN verdicts' = Actors
    BY <1>0, <1>5 DEF RunBranch
  <2>2. UNCHANGED <<latest, clock, step, at, pc, on, shown, doomed, kept, torn>>
        /\ todo' = [todo EXCEPT ![a] = @ \ {b}] /\ ran' = [ran EXCEPT ![a] = @ \cup {b}]
    BY <1>5 DEF RunBranch
  <2>. QED
    BY <1>0, <2>1, <2>2
<1>6. ASSUME NEW a \in Actors, NEW b \in Branches, WriteBranch(a, b)
      PROVE  SessionsTypeOK'
  <2>1. on[a] \in Processes
    BY <1>0, <1>6, Alone DEF WriteBranch, Drives
  <2>2. Question(on[a], b).nth + (IF Had(a, b) = {} THEN 0 ELSE 1) \in Nat
    BY <1>0, <2>1 DEF Question
  <2>3. Had(a, b) \subseteq took
    BY DEF Had
  <2>4. at' \in [Processes -> [Branches -> Nat]]
    BY <1>0, <1>6, <2>1, <2>2 DEF WriteBranch
  <2>. QED
    BY <1>0, <1>6, <2>3, <2>4 DEF WriteBranch
<1>7. ASSUME NEW a \in Actors, Pause(a) \/ Finish(a) \/ ResumeFails(a) \/ Answer(a)
      PROVE  SessionsTypeOK'
  <2>1. /\ UNCHANGED <<latest, clock, step, at, on, todo, ran, doomed, took, kept, torn>>
        /\ \E to \in Doing : pc' = [pc EXCEPT ![a] = to]
        /\ DOMAIN shown' = Actors /\ DOMAIN verdicts' = Actors
    BY <1>0, <1>7 DEF Pause, Finish, ResumeFails, Answer
  <2>. QED
    BY <1>0, <2>1
<1>8. ASSUME NEW a \in Actors, StepDone(a)
      PROVE  SessionsTypeOK'
  <2>1. on[a] \in Processes
    BY <1>0, <1>8, Alone DEF StepDone, Drives
  <2>2. Checkpointed(a) /\ UNCHANGED <<pc, on, ran, shown, doomed, took, kept, torn>>
    BY <1>8 DEF StepDone
  <2>. QED
    BY <1>0, <1>2, <2>1, <2>2
<1>9. ASSUME NEW a \in Actors, Resume(a)
      PROVE  SessionsTypeOK'
  <2>1. on[a] \in Processes
    BY <1>0, <1>9, Alone DEF Resume, Drives
  <2>2. Now(on[a]) \ Done(on[a]) \subseteq Branches
    BY <1>0, <2>1, BranchesAre
  <2>. QED
    BY <1>0, <1>9, <2>2 DEF Resume
<1>10. ASSUME NEW r \in Resumers, NEW p \in Processes, TakeOver(r, p)
       PROVE  SessionsTypeOK'
  BY <1>0, <1>10 DEF TakeOver
<1>. QED
  BY <1>1, <1>3, <1>4, <1>5, <1>6, <1>7, <1>8, <1>9, <1>10 DEF SessionsNext

LEMMA DriversKeep == SessionsIInv /\ SessionsNext => OneDriver'
<1>. SUFFICES ASSUME SessionsIInv, SessionsNext PROVE OneDriver'
  OBVIOUS
<1>0. SessionsTypeOK /\ OneDriver
  BY DEF SessionsIInv
<1>. USE <1>0, ActorsAre DEF SessionsTypeOK, Goes, Doing, OneDriver
<1>1. ASSUME NEW p \in Processes,
             Refuse(p) \/ Start(p) \/ Die(p) \/ ListThreads(p) \/ DeleteThreads(p)
      PROVE  OneDriver'
  BY <1>1 DEF Refuse, Start, Die, ListThreads, DeleteThreads
<1>2. ASSUME NEW a \in Actors, NEW b \in Branches, RunBranch(a, b) \/ WriteBranch(a, b)
      PROVE  OneDriver'
  BY <1>2 DEF RunBranch, WriteBranch
<1>3. ASSUME NEW a \in Actors,
             \/ Pause(a) \/ StepDone(a) \/ Finish(a) \/ Answer(a) \/ Resume(a)
             \/ ResumeFails(a)
      PROVE  OneDriver'
  BY <1>3 DEF Pause, StepDone, Finish, Answer, Resume, ResumeFails
<1>4. ASSUME NEW r \in Resumers, NEW p \in Processes, TakeOver(r, p)
      PROVE  OneDriver'
  BY <1>4 DEF TakeOver
<1>. QED
  BY <1>1, <1>2, <1>3, <1>4 DEF SessionsNext
(* The steps of one actor.                                                 *)
Acts(a) ==
  \/ a \in Processes /\ (Refuse(a) \/ Start(a) \/ Die(a) \/ ListThreads(a) \/ DeleteThreads(a))
  \/ \E b \in Branches : RunBranch(a, b) \/ WriteBranch(a, b)
  \/ Pause(a) \/ StepDone(a) \/ Finish(a) \/ Answer(a) \/ Resume(a) \/ ResumeFails(a)
  \/ a \in Resumers /\ \E p \in Processes : TakeOver(a, p)

LEMMA SomeoneActs == SessionsNext => \E a \in Actors : Acts(a)
BY ActorsAre DEF SessionsNext, Acts

(* Nobody else's doings change.                                            *)
LEMMA DoingsStay ==
  ASSUME SessionsTypeOK, NEW a \in Actors, Acts(a), NEW c \in Actors \ {a}
  PROVE  /\ pc'[c] = pc[c] /\ on'[c] = on[c] /\ todo'[c] = todo[c] /\ ran'[c] = ran[c]
         /\ shown'[c] = shown[c] /\ verdicts'[c] = verdicts[c]
         /\ torn \subseteq torn'
<1>0. /\ DOMAIN pc = Actors /\ DOMAIN on = Actors /\ DOMAIN todo = Actors /\ DOMAIN ran = Actors
      /\ DOMAIN shown = Actors /\ DOMAIN verdicts = Actors
  BY DEF SessionsTypeOK
<1>. USE <1>0 DEF Goes, disk, history
<1>1. CASE Refuse(a) \/ Start(a) \/ Die(a) \/ ListThreads(a) \/ DeleteThreads(a)
  BY <1>1 DEF Refuse, Start, Checkpointed, Die, ListThreads, DeleteThreads
<1>2. CASE \E b \in Branches : RunBranch(a, b) \/ WriteBranch(a, b)
  <2>1. PICK b \in Branches : RunBranch(a, b) \/ WriteBranch(a, b)
    BY <1>2
  <2>2. CASE WriteBranch(a, b)
    BY <2>2 DEF WriteBranch
  <2>3. CASE RunBranch(a, b)
    <3>1. /\ UNCHANGED <<pc, on, shown, torn>>
          /\ todo' = [todo EXCEPT ![a] = @ \ {b}] /\ ran' = [ran EXCEPT ![a] = @ \cup {b}]
      BY <2>3 DEF RunBranch
    <3>2. verdicts'[c] = verdicts[c]
      BY <2>3 DEF RunBranch
    <3>. QED
      BY <3>1, <3>2
  <2>. QED
    BY <2>1, <2>2, <2>3
<1>3. CASE Pause(a) \/ StepDone(a) \/ Finish(a)
  BY <1>3 DEF Pause, StepDone, Finish, Checkpointed
<1>4. CASE Answer(a)
  <2>1. UNCHANGED <<on, todo, ran, shown, torn>> /\ pc' = [pc EXCEPT ![a] = "sending"]
        /\ \E x : verdicts' = [verdicts EXCEPT ![a] = x]
    BY <1>4 DEF Answer
  <2>. QED
    BY <2>1
<1>5. CASE Resume(a) \/ ResumeFails(a)
  BY <1>5 DEF Resume, ResumeFails
<1>6. CASE \E p \in Processes : TakeOver(a, p)
  <2>1. /\ UNCHANGED <<todo, ran, verdicts>> /\ torn \subseteq torn'
        /\ \E x : pc' = [pc EXCEPT ![a] = x]
        /\ \E x : on' = [on EXCEPT ![a] = x]
        /\ \E x : shown' = [shown EXCEPT ![a] = x]
    BY <1>6 DEF TakeOver
  <2>. QED
    BY <2>1
<1>. QED
  BY <1>1, <1>2, <1>3, <1>4, <1>5, <1>6 DEF Acts

(* Nor do the threads others drive.                                        *)
LEMMA OthersStay ==
  ASSUME SessionsTypeOK, OneDriver, NEW a \in Actors, Acts(a), NEW c \in Actors \ {a},
         pc[c] \in Drives
  PROVE  step'[on[c]] = step[on[c]] /\ at'[on[c]] = at[on[c]] /\ on[c] \in Processes
<1>. USE ActorsAre DEF Goes, disk, history
<1>1. on[c] \in Processes
  BY Alone
<1>0. DOMAIN step = Processes /\ DOMAIN at = Processes
  BY DEF SessionsTypeOK
<1>2. CASE Start(a) /\ a \in Processes
  <2>1. on[a] = a /\ pc[a] = "new"
    BY <1>2 DEF OneDriver, Start
  <2>2. c \in Processes => on[c] = c
    BY DEF OneDriver
  <2>3. c \in Resumers => pc[on[c]] = "dead"
    BY Alone
  <2>4. on[c] # on[a]
    BY <2>1, <2>2, <2>3
  <2>. QED
    BY <1>0, <1>1, <1>2, <2>4 DEF Start, Checkpointed
<1>3. CASE StepDone(a) \/ \E b \in Branches : WriteBranch(a, b)
  <2>0. pc[a] \in Drives
    BY <1>3 DEF StepDone, WriteBranch, Drives
  <2>1. on[c] # on[a]
    BY <2>0, Alone
  <2>. QED
    BY <1>0, <1>1, <1>3, <2>1 DEF StepDone, WriteBranch, Checkpointed
<1>4. CASE UNCHANGED <<step, at>>
  BY <1>1, <1>4
<1>. QED
  BY <1>2, <1>3, <1>4
     DEF Acts, Refuse, Die, ListThreads, DeleteThreads, RunBranch, Pause, Finish, Answer,
         Resume, ResumeFails, TakeOver

(* A new checkpoint, of the thread a drives.                               *)
LEMMA Checkpoints ==
  ASSUME SessionsTypeOK, NEW a \in Actors, NEW th \in Processes, th = on[a], Checkpointed(a)
  PROVE  /\ step'[th] = step[th] + 1 /\ at'[th] = [b \in Branches |-> 0]
         /\ latest'[th] = clock + 1 /\ clock' = clock + 1
         /\ \A p \in Processes \ {th} :
              step'[p] = step[p] /\ at'[p] = at[p] /\ latest'[p] = latest[p]
         /\ Now(th)' = Members(th, step[th] + 1) /\ todo'[a] = Members(th, step[th] + 1)
         /\ Done(th)' = {} /\ DOMAIN verdicts'[a] = {}
<1>0. /\ DOMAIN step = Processes /\ DOMAIN at = Processes /\ DOMAIN latest = Processes
      /\ DOMAIN todo = Actors /\ DOMAIN verdicts = Actors
  BY DEF SessionsTypeOK
<1>1. /\ step'[th] = step[th] + 1 /\ at'[th] = [b \in Branches |-> 0]
      /\ latest'[th] = clock + 1 /\ clock' = clock + 1
      /\ \A p \in Processes \ {th} :
           step'[p] = step[p] /\ at'[p] = at[p] /\ latest'[p] = latest[p]
  BY <1>0 DEF Checkpointed
<1>2. todo'[a] = Members(th, step[th] + 1) /\ verdicts'[a] = <<>>
  BY <1>0 DEF Checkpointed
<1>3. Now(th)' = Members(th, step[th] + 1)
  BY <1>1 DEF Now, Members
<1>4. \A b \in Members(th, step[th] + 1) :
        b \in Branches /\ Len(Steps[th][step[th] + 1][b]) \in Nat
  BY StepsAre DEF Members
<1>5. Done(th)' = {}
  BY <1>1, <1>3, <1>4 DEF Done, Asks
<1>. QED
  BY <1>1, <1>2, <1>3, <1>5

LEMMA StepsKeep == SessionsIInv /\ SessionsNext => StepsFit'
<1>. SUFFICES ASSUME SessionsIInv, SessionsNext PROVE StepsFit'
  OBVIOUS
<1>0. SessionsTypeOK /\ OneDriver /\ StepsFit /\ GoesFit /\ SessionsTypeOK'
  BY TypesKeep DEF SessionsIInv
<1>. USE ActorsAre DEF Goes, disk, history
<1>1. ASSUME UNCHANGED <<step, at>>,
             \A p \in Processes : latest'[p] # 0 => latest[p] # 0,
             \A p \in Processes : pc'[p] \in {"new", "refused"} <=> pc[p] \in {"new", "refused"}
      PROVE  StepsFit'
  <2>1. \A p \in Processes : Now(p)' = Now(p) /\ Asks(p)' = Asks(p)
    BY <1>1, ThreadStays
  <2>. QED
    BY <1>0, <1>1, <2>1 DEF StepsFit
<1>2. ASSUME NEW a \in Actors, NEW th \in Processes, th = on[a], Checkpointed(a),
             step[th] <= Len(Steps[th]), pc'[th] \notin {"new", "refused"},
             \A p \in Processes \ {th} :
               (pc'[p] \in {"new", "refused"} <=> pc[p] \in {"new", "refused"})
      PROVE  StepsFit'
  <2>. SUFFICES ASSUME NEW p \in Processes
                PROVE  /\ step'[p] \in 0 .. Len(Steps[p]) + 1
                       /\ step'[p] = 0 <=> pc'[p] \in {"new", "refused"}
                       /\ step'[p] = 0 => latest'[p] = 0
                       /\ \A b \in Now(p)' : at'[p][b] <= Len(Asks(p)'[b]) + 1
    BY DEF StepsFit
  <2>1. CASE p # th
    <3>1. step'[p] = step[p] /\ at'[p] = at[p] /\ latest'[p] = latest[p]
      BY <1>0, <1>2, <2>1, Checkpoints
    <3>2. Now(p)' = Now(p) /\ Asks(p)' = Asks(p)
      BY <3>1, ThreadStays
    <3>. QED
      BY <1>0, <1>2, <2>1, <3>1, <3>2 DEF StepsFit
  <2>2. CASE p = th
    <3>1. /\ step'[p] = step[p] + 1 /\ at'[p] = [b \in Branches |-> 0]
          /\ Now(p)' = Members(p, step[p] + 1)
      BY <1>0, <1>2, <2>2, Checkpoints
    <3>2. \A b \in Members(p, step[p] + 1) :
            b \in Branches /\ Len(Steps[p][step[p] + 1][b]) \in Nat
      BY StepsAre DEF Members
    <3>3. \A b \in Now(p)' : at'[p][b] <= Len(Asks(p)'[b]) + 1
      BY <3>1, <3>2 DEF Asks
    <3>4. step[p] \in 0 .. Len(Steps[p]) /\ Len(Steps[p]) \in Nat
      BY <1>0, <1>2, <2>2, StepsAre DEF StepsFit
    <3>. QED
      BY <1>2, <2>2, <3>1, <3>3, <3>4
  <2>. QED
    BY <2>1, <2>2
<1>3. ASSUME NEW p \in Processes,
             Refuse(p) \/ Die(p) \/ ListThreads(p) \/ DeleteThreads(p)
      PROVE  StepsFit'
  BY <1>0, <1>1, <1>3 DEF Refuse, Die, ListThreads, DeleteThreads, SessionsTypeOK
<1>4. ASSUME NEW p \in Processes, Start(p)
      PROVE  StepsFit'
  <2>1. on[p] = p /\ pc[p] = "new" /\ Checkpointed(p) /\ pc' = [pc EXCEPT ![p] = "running"]
    BY <1>0, <1>4 DEF Start, OneDriver
  <2>2. step[p] = 0
    BY <1>0, <2>1 DEF StepsFit
  <2>3. step[p] <= Len(Steps[p])
    BY <2>2, StepsAre
  <2>4. pc'[p] \notin {"new", "refused"} /\ \A q \in Processes \ {p} : pc'[q] = pc[q]
    BY <1>0, <2>1 DEF SessionsTypeOK
  <2>. QED
    BY <1>2, <2>1, <2>3, <2>4
<1>5. ASSUME NEW a \in Actors, StepDone(a)
      PROVE  StepsFit'
  <2>1. on[a] \in Processes /\ pc[on[a]] \in Drives \cup {"dead"}
    BY <1>0, <1>5, Alone DEF StepDone, Drives
  <2>2. step[on[a]] <= Len(Steps[on[a]])
    BY <1>0, <1>5, <2>1, BranchesAre, StepsAre DEF StepDone
  <2>3. pc' = pc /\ Checkpointed(a)
    BY <1>5 DEF StepDone
  <2>. QED
    BY <1>2, <2>1, <2>2, <2>3 DEF Drives
<1>6. ASSUME NEW a \in Actors, NEW b \in Branches, WriteBranch(a, b)
      PROVE  StepsFit'
  <2>. DEFINE th == on[a]
  <2>1. th \in Processes
    BY <1>0, <1>6, Alone DEF WriteBranch, Drives
  <2>2. UNCHANGED <<step, latest, pc>>
        /\ at' = [at EXCEPT ![th][b] = Question(th, b).nth + (IF Had(a, b) = {} THEN 0 ELSE 1)]
    BY <1>6 DEF WriteBranch
  <2>3. b \in Now(th) \ Done(th)
    BY <1>0, <1>6 DEF WriteBranch, GoesFit
  <2>. HIDE DEF th
  <2>4. /\ at[th][b] \in Nat /\ Len(Asks(th)[b]) \in Nat \ {0} /\ at[th][b] <= Len(Asks(th)[b])
    BY <1>0, <2>1, <2>3, BranchesAre DEF Done
  <2>5. /\ at'[th][b] <= Len(Asks(th)[b]) + 1
        /\ \A p \in Processes, c \in Branches : <<p, c>> # <<th, b>> => at'[p][c] = at[p][c]
    BY <1>0, <2>1, <2>2, <2>4 DEF Question, SessionsTypeOK
  <2>6. \A p \in Processes : Now(p)' = Now(p) /\ Asks(p)' = Asks(p)
    BY <2>2 DEF Now, Asks
  <2>7. \A p \in Processes : Now(p) \subseteq Branches
    BY <1>0, BranchesAre
  <2>. QED
    BY <1>0, <2>2, <2>5, <2>6, <2>7 DEF StepsFit
<1>7. ASSUME NEW a \in Actors,
             \/ Pause(a) \/ Finish(a) \/ Answer(a) \/ Resume(a) \/ ResumeFails(a)
      PROVE  StepsFit'
  <2>1. /\ UNCHANGED <<step, at, latest>>
        /\ pc[a] \in {"running", "asking", "sending"}
        /\ \E x \in {"asking", "finished", "ended", "sending", "running", "lost"} :
             pc' = [pc EXCEPT ![a] = x]
    BY <1>7 DEF Pause, Finish, Answer, Resume, ResumeFails
  <2>2. \A p \in Processes : pc'[p] \in {"new", "refused"} <=> pc[p] \in {"new", "refused"}
    BY <1>0, <2>1 DEF SessionsTypeOK
  <2>. QED
    BY <1>1, <2>1, <2>2
<1>8. ASSUME NEW a \in Actors, NEW b \in Branches, RunBranch(a, b)
      PROVE  StepsFit'
  BY <1>1, <1>8 DEF RunBranch
<1>9. ASSUME NEW r \in Resumers, NEW p \in Processes, TakeOver(r, p)
      PROVE  StepsFit'
  BY <1>0, <1>1, <1>9 DEF TakeOver, SessionsTypeOK
<1>. QED
  BY <1>3, <1>4, <1>5, <1>6, <1>7, <1>8, <1>9 DEF SessionsNext

(* A go runs branches of its thread that are not done.                     *)
GoFits(a, th) ==
  /\ pc[a] = "running" =>
       /\ todo[a] \cap ran[a] = {}
       /\ todo[a] \cup ran[a] \subseteq Now(th) \ Done(th)
       /\ Fresh(th) \subseteq todo[a] \cup ran[a]
  /\ pc[a] # "running" => ran[a] = {}

LEMMA GoKeeps ==
  ASSUME SessionsTypeOK, OneDriver, NEW a \in Actors, Acts(a), NEW th, th = on[a],
         GoFits(a, th), NEW new, new = on'[a]
  PROVE  GoFits(a, new)'
<1>. USE ActorsAre DEF Goes, disk, history
<1>0. /\ DOMAIN pc = Actors /\ DOMAIN todo = Actors /\ DOMAIN ran = Actors
      /\ DOMAIN step = Processes
  BY DEF SessionsTypeOK
<1>1. ASSUME pc'[a] # "running", ran'[a] = {}
      PROVE  GoFits(a, new)'
  BY <1>1 DEF GoFits
<1>2. ASSUME th \in Processes, on' = on, UNCHANGED <<step, at>>,
             todo'[a] \cap ran'[a] = {}, pc'[a] = "running",
             todo'[a] \cup ran'[a] \subseteq Now(th) \ Done(th),
             Fresh(th) \subseteq todo'[a] \cup ran'[a]
      PROVE  GoFits(a, new)'
  <2>1. new = th
    BY <1>2
  <2>2. Now(th)' = Now(th) /\ Done(th)' = Done(th) /\ Fresh(th)' = Fresh(th)
    BY <1>2, ThreadStays
  <2>. QED
    BY <1>2, <2>1, <2>2 DEF GoFits
<1>3. CASE a \in Processes /\ (Refuse(a) \/ Die(a) \/ ListThreads(a) \/ DeleteThreads(a))
  <2>1. pc'[a] # "running" /\ ran'[a] = {}
    BY <1>0, <1>3 DEF Refuse, Die, ListThreads, DeleteThreads, GoFits
  <2>. QED
    BY <1>1, <2>1
<1>4. CASE (a \in Processes /\ Start(a)) \/ StepDone(a)
  <2>1. th \in Processes
    BY <1>4, Alone DEF Start, StepDone, OneDriver, Drives
  <2>2. ran'[a] = {} /\ pc'[a] = "running" /\ Checkpointed(a) /\ new = th
    BY <1>0, <1>4 DEF Start, StepDone, Settles, GoFits
  <2>3. Now(th)' = todo'[a] /\ Done(th)' = {}
    BY <2>1, <2>2, Checkpoints
  <2>4. Fresh(th)' \subseteq Now(th)'
    BY DEF Fresh
  <2>. QED
    BY <2>2, <2>3, <2>4 DEF GoFits
<1>5. ASSUME NEW b \in Branches, RunBranch(a, b)
      PROVE  GoFits(a, new)'
  <2>1. /\ pc[a] = "running" /\ b \in todo[a] /\ UNCHANGED <<step, at, pc, on>>
        /\ todo'[a] = todo[a] \ {b} /\ ran'[a] = ran[a] \cup {b}
    BY <1>0, <1>5 DEF RunBranch
  <2>2. th \in Processes
    BY <2>1, Alone DEF Drives
  <2>. QED
    BY <1>2, <2>1, <2>2 DEF GoFits
<1>6. ASSUME NEW b \in Branches, WriteBranch(a, b)
      PROVE  GoFits(a, new)'
  <2>1. /\ pc[a] = "running" /\ b \in ran[a] /\ UNCHANGED <<step, todo, pc, on>>
        /\ ran'[a] = ran[a] \ {b}
        /\ at' = [at EXCEPT ![th][b] = Question(th, b).nth + (IF Had(a, b) = {} THEN 0 ELSE 1)]
    BY <1>0, <1>6 DEF WriteBranch
  <2>2. th \in Processes /\ new = th
    BY <2>1, Alone DEF Drives
  <2>3. /\ todo[a] \cap ran[a] = {} /\ todo[a] \cup ran[a] \subseteq Now(th) \ Done(th)
        /\ Fresh(th) \subseteq todo[a] \cup ran[a]
    BY <2>1 DEF GoFits
  <2>4. at[th][b] \in Nat /\ Now(th) \subseteq Branches
    BY <2>2, BranchesAre DEF SessionsTypeOK
  <2>5. Question(th, b).nth + (IF Had(a, b) = {} THEN 0 ELSE 1) \in Nat \ {0}
    BY <2>4 DEF Question
  <2>6. at'[th][b] # 0 /\ \A d \in Branches \ {b} : at'[th][d] = at[th][d]
    BY <2>1, <2>2, <2>5 DEF SessionsTypeOK
  <2>7. Now(th)' = Now(th) /\ Asks(th)' = Asks(th)
    BY <2>1 DEF Now, Asks
  <2>8. Done(th)' \subseteq Done(th) \cup {b}
    BY <2>4, <2>6, <2>7 DEF Done
  <2>9. Fresh(th)' \subseteq Fresh(th) \ {b}
    BY <2>4, <2>6, <2>7 DEF Fresh
  <2>. QED
    BY <2>1, <2>2, <2>3, <2>7, <2>8, <2>9 DEF GoFits
<1>7. CASE Pause(a)
  BY <1>0, <1>1, <1>7 DEF Pause, Settles
<1>8. CASE Finish(a)
  <2>1. ran[a] = {}
    BY <1>8 DEF Finish, GoFits
  <2>. QED
    BY <1>0, <1>1, <1>8, <2>1 DEF Finish
<1>9. CASE Answer(a) \/ ResumeFails(a)
  <2>1. ran'[a] = {} /\ pc'[a] # "running"
    BY <1>0, <1>9 DEF Answer, ResumeFails, GoFits
  <2>. QED
    BY <1>1, <2>1
<1>10. CASE Resume(a)
  <2>1. th \in Processes
    BY <1>10, Alone DEF Resume, Drives
  <2>2. /\ UNCHANGED <<step, at, on>> /\ pc'[a] = "running" /\ ran'[a] = {}
        /\ todo'[a] = Now(th) \ Done(th)
    BY <1>0, <1>10 DEF Resume, GoFits
  <2>3. Fresh(th) \subseteq Now(th) \ Done(th)
    BY <2>1, BranchesAre
  <2>. QED
    BY <1>2, <2>1, <2>2, <2>3
<1>11. CASE \E p \in Processes : TakeOver(a, p)
  <2>1. ran'[a] = {} /\ pc'[a] # "running"
    BY <1>0, <1>11 DEF TakeOver, GoFits
  <2>. QED
    BY <1>1, <2>1
<1>. QED
  BY <1>3, <1>4, <1>5, <1>6, <1>7, <1>8, <1>9, <1>10, <1>11 DEF Acts

LEMMA GoesKeep == SessionsIInv /\ SessionsNext => GoesFit'
<1>. SUFFICES ASSUME SessionsIInv, SessionsNext, NEW c \in Actors, NEW new, new = on'[c]
              PROVE  GoFits(c, new)'
  BY DEF GoesFit, GoFits, Now, Done, Fresh, Asks
<1>1. PICK a \in Actors : Acts(a)
  BY SomeoneActs
<1>2. PICK th : th = on[c]
  OBVIOUS
<1>3. SessionsTypeOK /\ OneDriver /\ GoFits(c, th)
  BY <1>2 DEF SessionsIInv, GoesFit, GoFits
<1>4. CASE c = a
  BY <1>1, <1>2, <1>3, <1>4, GoKeeps
<1>5. CASE c # a
  <2>1. pc'[c] = pc[c] /\ new = th /\ todo'[c] = todo[c] /\ ran'[c] = ran[c]
    BY <1>1, <1>2, <1>3, <1>5, DoingsStay
  <2>2. CASE pc[c] # "running"
    BY <1>3, <2>1, <2>2 DEF GoFits
  <2>3. CASE pc[c] = "running"
    <3>1. step'[th] = step[th] /\ at'[th] = at[th]
      BY <1>1, <1>2, <1>3, <1>5, <2>3, OthersStay DEF Drives
    <3>2. Now(th)' = Now(th) /\ Done(th)' = Done(th) /\ Fresh(th)' = Fresh(th)
      BY <3>1, ThreadStays
    <3>. QED
      BY <1>3, <2>1, <2>3, <3>2 DEF GoFits
  <2>. QED
    BY <2>2, <2>3
<1>. QED
  BY <1>4, <1>5

(* What a thread asks, as one question a branch.                           *)
LEMMA InterruptsAre ==
  ASSUME SessionsTypeOK, NEW th \in Processes
  PROVE  /\ IsFiniteSet(Interrupts(th))
         /\ \A q \in Interrupts(th) : q = Question(th, q.branch)
         /\ \A b : Question(th, b).branch = b
<1>1. IsFiniteSet(Waiting(th))
  BY BranchesAre, FS_Subset DEF Waiting
<1>. DEFINE f == [b \in Waiting(th) |-> Question(th, b)]
<1>2. f \in Surjection(Waiting(th), Interrupts(th))
  BY DEF Surjection, Interrupts
<1>3. IsFiniteSet(Interrupts(th))
  BY <1>1, <1>2, FS_Surjection
<1>4. \A b : Question(th, b).branch = b
  BY DEF Question
<1>. QED
  BY <1>3, <1>4 DEF Interrupts

(* An answer is sent to the interrupt it was given to.                     *)
LEMMA AnswersReach ==
  ASSUME SessionsTypeOK, NEW th \in Processes,
         NEW given, DOMAIN given = Interrupts(th), NEW q \in Interrupts(th)
  PROVE  AnswerTo(given, q) = q
<1>1. /\ IsFiniteSet(DOMAIN given) /\ q \in DOMAIN given
      /\ \A s \in DOMAIN given : s = Question(th, s.branch)
  BY InterruptsAre
<1>2. CASE Cardinality(DOMAIN given) = 1
  <2>1. \E s : DOMAIN given = {s}
    BY <1>1, <1>2, FS_Singleton
  <2>2. \A s \in DOMAIN given : s = q
    BY <1>1, <2>1
  <2>. QED
    BY <1>1, <1>2, <2>2 DEF AnswerTo
<1>3. CASE Cardinality(DOMAIN given) # 1
  <2>1. \A s \in DOMAIN given : s.branch = q.branch => s = q
    BY <1>1
  <2>2. AnswerTo(given, q) = CHOOSE s \in DOMAIN given : s.branch = q.branch
    BY <1>3 DEF AnswerTo
  <2>. QED
    BY <1>1, <2>1, <2>2
<1>. QED
  BY <1>2, <1>3

(* Who asks shows what its thread asks, and so on for its verdicts.        *)
HasFit(a, th) ==
  /\ pc[a] = "asking" => shown[a] = Interrupts(th) /\ shown[a] # {} /\ Whole(th)
  /\ pc[a] \in {"sending", "running"} =>
       /\ DOMAIN verdicts[a] # {} => Whole(th)
       /\ \A b \in DOMAIN verdicts[a] :
            pc[a] = "sending" \/ b \in todo[a] => verdicts[a][b].to = Question(th, b)

LEMMA HasKeep ==
  ASSUME SessionsTypeOK, OneDriver, NEW a \in Actors, Acts(a), NEW th, th = on[a],
         GoFits(a, th), HasFit(a, th), NEW new, new = on'[a]
  PROVE  HasFit(a, new)'
<1>. USE ActorsAre DEF Goes, disk, history
<1>0. /\ DOMAIN pc = Actors /\ DOMAIN todo = Actors /\ DOMAIN shown = Actors
      /\ DOMAIN verdicts = Actors /\ DOMAIN step = Processes /\ DOMAIN on = Actors
  BY DEF SessionsTypeOK
<1>1. ASSUME pc'[a] \notin {"asking", "sending", "running"}
      PROVE  HasFit(a, new)'
  BY <1>1 DEF HasFit
<1>2. CASE a \in Processes /\ (Refuse(a) \/ Die(a) \/ ListThreads(a) \/ DeleteThreads(a))
  BY <1>0, <1>1, <1>2 DEF Refuse, Die, ListThreads, DeleteThreads
<1>3. CASE Finish(a) \/ ResumeFails(a)
  BY <1>0, <1>1, <1>3 DEF Finish, ResumeFails
<1>4. CASE (a \in Processes /\ Start(a)) \/ StepDone(a)
  <2>1. th \in Processes
    BY <1>4, Alone DEF Start, StepDone, OneDriver, Drives
  <2>2. pc'[a] = "running" /\ Checkpointed(a)
    BY <1>0, <1>4 DEF Start, StepDone
  <2>3. DOMAIN verdicts'[a] = {}
    BY <2>1, <2>2, Checkpoints
  <2>. QED
    BY <2>2, <2>3 DEF HasFit
<1>5. ASSUME NEW b \in Branches, RunBranch(a, b)
      PROVE  HasFit(a, new)'
  <2>1. pc[a] = "running" /\ UNCHANGED <<step, at, pc, on, torn>> /\ todo'[a] \subseteq todo[a]
    BY <1>0, <1>5 DEF RunBranch
  <2>2. verdicts'[a] = verdicts[a] \/ verdicts'[a] = <<>>
    BY <1>0, <1>5 DEF RunBranch
  <2>3. Fresh(th)' = Fresh(th) /\ \A d : Question(th, d)' = Question(th, d)
    BY <2>1, ThreadStays
  <2>4. Whole(th) => Whole(th)'
    BY <2>1, <2>3 DEF Whole
  <2>5. DOMAIN <<>> = {}
    OBVIOUS
  <2>6. new = th
    BY <2>1
  <2>. QED
    BY <2>1, <2>2, <2>3, <2>4, <2>5, <2>6 DEF HasFit
<1>6. ASSUME NEW b \in Branches, WriteBranch(a, b)
      PROVE  HasFit(a, new)'
  <2>1. /\ pc[a] = "running" /\ b \in ran[a] /\ UNCHANGED <<step, todo, verdicts, pc, on, torn>>
        /\ at' = [at EXCEPT ![th][b] = Question(th, b).nth + (IF Had(a, b) = {} THEN 0 ELSE 1)]
    BY <1>0, <1>6 DEF WriteBranch
  <2>2. th \in Processes /\ new = th
    BY <2>1, Alone DEF Drives
  <2>3. b \notin todo[a] /\ todo[a] \subseteq Now(th)
    BY <2>1 DEF GoFits
  <2>4. at[th][b] \in Nat /\ Now(th) \subseteq Branches
    BY <2>2, BranchesAre DEF SessionsTypeOK
  <2>5. Question(th, b).nth + (IF Had(a, b) = {} THEN 0 ELSE 1) \in Nat \ {0}
    BY <2>4 DEF Question
  <2>6. at'[th][b] # 0 /\ \A d \in Branches \ {b} : at'[th][d] = at[th][d]
    BY <2>1, <2>2, <2>5 DEF SessionsTypeOK
  <2>7. \A d \in todo[a] : Question(th, d)' = Question(th, d)
    BY <2>1, <2>3, <2>4, <2>6 DEF Question
  <2>8. Now(th)' = Now(th)
    BY <2>1 DEF Now
  <2>9. Fresh(th)' \subseteq Fresh(th)
    BY <2>4, <2>6, <2>8 DEF Fresh
  <2>10. Whole(th) => Whole(th)'
    BY <2>1, <2>9 DEF Whole
  <2>. QED
    BY <2>1, <2>2, <2>7, <2>10 DEF HasFit
<1>7. CASE Pause(a)
  <2>1. /\ pc[a] = "running" /\ pc'[a] = "asking" /\ shown'[a] = Interrupts(th)
        /\ Waiting(th) # {} /\ todo[a] = {} /\ ran[a] = {} /\ UNCHANGED <<step, at, on, torn>>
    BY <1>0, <1>7 DEF Pause, Settles
  <2>2. Fresh(th) = {} /\ Interrupts(th) # {}
    BY <2>1 DEF GoFits, Interrupts
  <2>3. Fresh(th)' = Fresh(th) /\ Interrupts(th)' = Interrupts(th)
    BY <2>1, ThreadStays
  <2>. QED
    BY <2>1, <2>2, <2>3 DEF HasFit, Whole
<1>8. CASE Answer(a)
  <2>1. /\ pc[a] = "asking" /\ pc'[a] = "sending" /\ UNCHANGED <<step, at, on, torn>>
        /\ \E given \in [shown[a] -> UNION {[Text(q).items -> Says] : q \in shown[a]}] :
             verdicts'[a] =
               [b \in {q.branch : q \in Pending(th)} |->
                  [to |-> AnswerTo(given, Question(th, b)),
                   raw |-> given[AnswerTo(given, Question(th, b))]]]
    BY <1>0, <1>8 DEF Answer
  <2>2. th \in Processes
    BY <2>1, Alone DEF Drives
  <2>3. shown[a] = Interrupts(th) /\ Whole(th)
    BY <2>1 DEF HasFit
  <2>4. PICK given : /\ DOMAIN given = Interrupts(th)
                     /\ verdicts'[a] =
                          [b \in {q.branch : q \in Pending(th)} |->
                             [to |-> AnswerTo(given, Question(th, b)),
                              raw |-> given[AnswerTo(given, Question(th, b))]]]
    BY <2>1, <2>3
  <2>5. ASSUME NEW b \in DOMAIN verdicts'[a]
        PROVE  verdicts'[a][b].to = Question(th, b)
    <3>1. PICK q \in Pending(th) : b = q.branch
      BY <2>4
    <3>2. q \in Interrupts(th)
      BY DEF Pending
    <3>3. Question(th, b) = q
      BY <2>2, <3>1, <3>2, InterruptsAre
    <3>4. AnswerTo(given, q) = q
      BY <2>2, <2>4, <3>2, AnswersReach
    <3>5. verdicts'[a][b].to = AnswerTo(given, Question(th, b))
      BY <2>4
    <3>. QED
      BY <3>3, <3>4, <3>5
  <2>6. Fresh(th)' = Fresh(th) /\ \A d : Question(th, d)' = Question(th, d)
    BY <2>1, ThreadStays
  <2>7. Whole(th)'
    BY <2>1, <2>3, <2>6 DEF Whole
  <2>8. new = th
    BY <2>1
  <2>9. pc'[a] = "sending"
    BY <2>1
  <2>10. \A d \in DOMAIN verdicts'[a] : verdicts'[a][d].to = Question(new, d)'
    BY <2>5, <2>6, <2>8
  <2>. QED
    BY <2>7, <2>8, <2>9, <2>10 DEF HasFit
<1>9. CASE Resume(a)
  <2>1. pc[a] = "sending" /\ pc'[a] = "running" /\ UNCHANGED <<step, at, on, verdicts, torn>>
    BY <1>0, <1>9 DEF Resume
  <2>2. Fresh(th)' = Fresh(th) /\ \A d : Question(th, d)' = Question(th, d)
    BY <2>1, ThreadStays
  <2>3. Whole(th) => Whole(th)'
    BY <2>1, <2>2 DEF Whole
  <2>4. new = th
    BY <2>1
  <2>. QED
    BY <2>1, <2>2, <2>3, <2>4 DEF HasFit
<1>10. ASSUME NEW p \in Processes, TakeOver(a, p)
       PROVE  HasFit(a, new)'
  <2>1. /\ pc'[a] = "asking" /\ on'[a] = p /\ shown'[a] = Pending(p) /\ Pending(p) # {}
        /\ torn' = torn \cup {<<p, step[p]>> : b \in Fresh(p)} /\ UNCHANGED <<step, at>>
    BY <1>0, <1>10 DEF TakeOver
  <2>2. shown'[a] = Interrupts(p)
    BY <2>1 DEF Pending
  <2>3. Fresh(p)' = Fresh(p) /\ Interrupts(p)' = Interrupts(p)
    BY <2>1, ThreadStays
  <2>4. Whole(p)'
    BY <2>1, <2>3 DEF Whole
  <2>. QED
    BY <2>1, <2>2, <2>3, <2>4 DEF HasFit
<1>. QED
  BY <1>2, <1>3, <1>4, <1>5, <1>6, <1>7, <1>8, <1>9, <1>10 DEF Acts

LEMMA VerdictsKeep == SessionsIInv /\ SessionsNext => VerdictsFit'
<1>. SUFFICES ASSUME SessionsIInv, SessionsNext, NEW c \in Actors, NEW new, new = on'[c]
              PROVE  HasFit(c, new)'
  BY DEF VerdictsFit, HasFit, Whole, Interrupts, Waiting, Now, Done, Fresh, Asks, Question
<1>1. PICK a \in Actors : Acts(a)
  BY SomeoneActs
<1>2. PICK th : th = on[c]
  OBVIOUS
<1>3. SessionsTypeOK /\ OneDriver /\ GoFits(c, th) /\ HasFit(c, th)
  BY <1>2 DEF SessionsIInv, GoesFit, GoFits, VerdictsFit, HasFit
<1>4. CASE c = a
  BY <1>1, <1>2, <1>3, <1>4, HasKeep
<1>5. CASE c # a
  <2>1. /\ pc'[c] = pc[c] /\ new = th /\ todo'[c] = todo[c]
        /\ shown'[c] = shown[c] /\ verdicts'[c] = verdicts[c] /\ torn \subseteq torn'
    BY <1>1, <1>2, <1>3, <1>5, DoingsStay
  <2>2. CASE pc[c] \notin Drives
    BY <2>1, <2>2 DEF HasFit, Drives
  <2>3. CASE pc[c] \in Drives
    <3>1. step'[th] = step[th] /\ at'[th] = at[th]
      BY <1>1, <1>2, <1>3, <1>5, <2>3, OthersStay
    <3>2. /\ Fresh(th)' = Fresh(th) /\ Interrupts(th)' = Interrupts(th)
          /\ \A d : Question(th, d)' = Question(th, d)
      BY <3>1, ThreadStays
    <3>3. Whole(th) => Whole(th)'
      BY <2>1, <3>1, <3>2 DEF Whole
    <3>. QED
      BY <1>3, <2>1, <2>3, <3>2, <3>3 DEF HasFit, Drives
  <2>. QED
    BY <2>2, <2>3
<1>. QED
  BY <1>4, <1>5

(* What a write does to its thread: one branch moves on, to the next       *)
(* question if it took the answer, else to the one it now waits at.        *)
LEMMA WritesAre ==
  ASSUME SessionsTypeOK, OneDriver, NEW a \in Actors, NEW th, th = on[a], GoFits(a, th),
         NEW b \in Branches, WriteBranch(a, b)
  PROVE  /\ th \in Processes /\ pc[a] = "running" /\ b \in ran[a] /\ b \in Now(th)
         /\ ran'[a] = ran[a] \ {b} /\ UNCHANGED <<pc, on, step, took, torn>>
         /\ kept' = kept \cup Had(a, b)
         /\ at[th][b] \in Nat /\ Question(th, b).nth \in Nat \ {0} /\ at[th][b] <= Question(th, b).nth
         /\ at'[th][b] = Question(th, b).nth + (IF Had(a, b) = {} THEN 0 ELSE 1)
         /\ \A d \in Branches \ {b} : at'[th][d] = at[th][d]
         /\ \A p \in Processes \ {th} : at'[p] = at[p]
<1>1. /\ pc[a] = "running" /\ b \in ran[a] /\ UNCHANGED <<step, pc, on, took, torn>>
      /\ ran'[a] = ran[a] \ {b} /\ kept' = kept \cup Had(a, b)
      /\ at' = [at EXCEPT ![th][b] = Question(th, b).nth + (IF Had(a, b) = {} THEN 0 ELSE 1)]
  BY DEF WriteBranch, SessionsTypeOK
<1>2. th \in Processes
  BY <1>1, Alone DEF Drives
<1>3. b \in Now(th)
  BY <1>1 DEF GoFits
<1>4. at[th][b] \in Nat
  BY <1>2 DEF SessionsTypeOK
<1>5. Question(th, b).nth \in Nat \ {0} /\ at[th][b] <= Question(th, b).nth
  BY <1>4 DEF Question
<1>6. /\ at'[th][b] = Question(th, b).nth + (IF Had(a, b) = {} THEN 0 ELSE 1)
      /\ \A d \in Branches \ {b} : at'[th][d] = at[th][d]
      /\ \A p \in Processes \ {th} : at'[p] = at[p]
  BY <1>1, <1>2 DEF SessionsTypeOK
<1>. QED
  BY <1>1, <1>2, <1>3, <1>4, <1>5, <1>6

(* The question a branch is at, or about to ask, has no answer yet.        *)
LEMMA NotYet ==
  ASSUME SessionsTypeOK, NEW th \in Processes, NEW b \in Now(th)
  PROVE  Question(th, b) \in Questions /\ ~ Answered(Question(th, b))
<1>1. /\ b \in Branches /\ step[th] \in 1 .. Len(Steps[th]) /\ step[th] \in Nat
      /\ at[th][b] \in Nat
  BY BranchesAre DEF SessionsTypeOK
<1>. QED
  BY <1>1 DEF Question, Questions, Answered, Now

(* A question once answered is answered for good.                          *)
LEMMA AnsweredStays ==
  ASSUME SessionsTypeOK, OneDriver, NEW a \in Actors, Acts(a), NEW th, th = on[a],
         GoFits(a, th), NEW q \in Questions, Answered(q)
  PROVE  Answered(q)'
<1>. USE DEF Goes, disk, history
<1>0. /\ q.thread \in Processes /\ q.step \in Nat /\ q.branch \in Branches /\ q.nth \in Nat
      /\ step[q.thread] \in Nat /\ at[q.thread][q.branch] \in Nat
  BY DEF Questions, SessionsTypeOK
<1>1. CASE UNCHANGED <<step, at>>
  BY <1>1 DEF Answered
<1>2. CASE (a \in Processes /\ Start(a)) \/ StepDone(a)
  <2>1. th \in Processes /\ Checkpointed(a)
    BY <1>2, Alone, ActorsAre DEF Start, StepDone, OneDriver, Drives
  <2>2. /\ step'[th] = step[th] + 1
        /\ \A p \in Processes \ {th} : step'[p] = step[p] /\ at'[p] = at[p]
    BY <2>1, Checkpoints
  <2>. QED
    BY <1>0, <2>2 DEF Answered
<1>3. ASSUME NEW b \in Branches, WriteBranch(a, b)
      PROVE  Answered(q)'
  <2>1. /\ step' = step /\ at[th][b] \in Nat /\ Question(th, b).nth \in Nat
        /\ at[th][b] <= Question(th, b).nth
        /\ at'[th][b] = Question(th, b).nth + (IF Had(a, b) = {} THEN 0 ELSE 1)
        /\ \A d \in Branches \ {b} : at'[th][d] = at[th][d]
        /\ \A p \in Processes \ {th} : at'[p] = at[p]
    BY <1>3, WritesAre
  <2>2. at'[th][b] \in Nat /\ at[th][b] <= at'[th][b]
    BY <2>1
  <2>3. at[q.thread][q.branch] <= at'[q.thread][q.branch] /\ at'[q.thread][q.branch] \in Nat
    BY <1>0, <2>1, <2>2
  <2>. QED
    BY <1>0, <2>1, <2>3 DEF Answered
<1>. QED
  BY <1>1, <1>2, <1>3
     DEF Acts, Refuse, Die, ListThreads, DeleteThreads, RunBranch, Pause, Finish, Answer,
         Resume, ResumeFails, TakeOver

(* An answer that was taken.                                               *)
TookFit(e, th) ==
  /\ e.by \in Actors /\ e.asked \in Questions /\ th = e.asked.thread
  /\ pc[e.by] \notin {"new", "refused", "idle"}
  /\ <<e.asked.thread, e.asked.step>> \notin torn => e.to = e.asked /\ Rightly(e)
  /\ pc[e.by] \in Drives =>
       \/ Answered(e.asked)
       \/ e.asked.branch \in ran[e.by] /\ e.asked = Question(th, e.asked.branch)

(* The driver's own steps.                                                 *)
LEMMA TookKeeps ==
  ASSUME SessionsTypeOK, OneDriver, NEW a \in Actors, Acts(a), NEW th, th = on[a],
         GoFits(a, th), NEW e \in took, e.by = a, TookFit(e, th), NEW new, new = on'[a]
  PROVE  TookFit(e, new)'
<1>. USE ActorsAre DEF Goes, disk, history
<1>0. /\ DOMAIN pc = Actors /\ DOMAIN ran = Actors /\ DOMAIN on = Actors
  BY DEF SessionsTypeOK
<1>1. Answered(e.asked) => Answered(e.asked)'
  BY AnsweredStays DEF TookFit
<1>2. ~ (a \in Processes /\ (Refuse(a) \/ Start(a))) /\ \A p \in Processes : ~ TakeOver(a, p)
  BY DEF TookFit, Refuse, Start, TakeOver
<1>3. ASSUME new = th, torn' = torn, pc'[a] \in Doing \ {"new", "refused", "idle"},
             pc'[a] \in Drives => pc[a] \in Drives /\ UNCHANGED <<step, at>> /\ ran[a] \subseteq ran'[a]
      PROVE  TookFit(e, new)'
  <2>1. Rightly(e)' = Rightly(e)
    BY DEF Rightly, Text, Approved
  <2>2. CASE pc'[a] \notin Drives
    BY <1>3, <2>1, <2>2 DEF TookFit
  <2>3. CASE pc'[a] \in Drives
    <3>1. \A d : Question(th, d)' = Question(th, d)
      BY <1>3, <2>3, ThreadStays
    <3>. QED
      BY <1>1, <1>3, <2>1, <2>3, <3>1 DEF TookFit
  <2>. QED
    BY <2>2, <2>3
<1>4. CASE a \in Processes /\ (Die(a) \/ ListThreads(a) \/ DeleteThreads(a))
  <2>1. new = th /\ torn' = torn /\ pc'[a] \in {"dead", "pruning", "ended"}
    BY <1>0, <1>4 DEF Die, ListThreads, DeleteThreads
  <2>. QED
    BY <1>3, <2>1 DEF Drives, Doing
<1>5. CASE Finish(a) \/ ResumeFails(a)
  <2>1. new = th /\ torn' = torn /\ pc'[a] \in {"finished", "ended", "lost"}
    BY <1>0, <1>5 DEF Finish, ResumeFails
  <2>. QED
    BY <1>3, <2>1 DEF Drives, Doing
<1>6. CASE Pause(a) \/ Answer(a) \/ Resume(a)
  <2>1. /\ new = th /\ torn' = torn /\ pc[a] \in {"running", "asking", "sending"}
        /\ UNCHANGED <<step, at, ran>>
    BY <1>0, <1>6 DEF Pause, Answer, Resume
  <2>2. pc'[a] \in {"running", "asking", "sending"}
    BY <1>0, <1>6 DEF Pause, Answer, Resume
  <2>. QED
    BY <1>3, <2>1, <2>2 DEF Drives, Doing
<1>7. ASSUME NEW b \in Branches, RunBranch(a, b)
      PROVE  TookFit(e, new)'
  <2>1. /\ UNCHANGED <<step, at, pc, on, torn>> /\ pc[a] = "running" /\ ran[a] \subseteq ran'[a]
    BY <1>0, <1>7 DEF RunBranch
  <2>. QED
    BY <1>3, <2>1 DEF Drives, Doing
<1>8. CASE StepDone(a)
  <2>1. /\ UNCHANGED <<pc, on, ran, torn>> /\ ran[a] = {} /\ pc[a] = "running"
    BY <1>8 DEF StepDone, Settles
  <2>2. Answered(e.asked)
    BY <2>1 DEF TookFit, Drives
  <2>3. Rightly(e)' = Rightly(e)
    BY DEF Rightly, Text, Approved
  <2>4. new = th
    BY <2>1
  <2>. QED
    BY <1>1, <2>1, <2>2, <2>3, <2>4 DEF TookFit
<1>9. ASSUME NEW b \in Branches, WriteBranch(a, b)
      PROVE  TookFit(e, new)'
  <2>1. /\ th \in Processes /\ pc[a] = "running" /\ b \in Now(th)
        /\ ran'[a] = ran[a] \ {b} /\ UNCHANGED <<pc, on, step, took, torn>>
        /\ Question(th, b).nth \in Nat \ {0}
        /\ at'[th][b] = Question(th, b).nth + (IF Had(a, b) = {} THEN 0 ELSE 1)
        /\ \A d \in Branches \ {b} : at'[th][d] = at[th][d]
    BY <1>9, WritesAre
  <2>2. Rightly(e)' = Rightly(e)
    BY DEF Rightly, Text, Approved
  <2>3. new = th
    BY <2>1
  <2>4. CASE Answered(e.asked)
    BY <1>1, <2>1, <2>2, <2>3, <2>4 DEF TookFit
  <2>5. CASE e.asked.branch \in ran[a] \ {b} /\ e.asked = Question(th, e.asked.branch)
    <3>1. e.asked.branch \in Branches
      BY DEF TookFit, Questions
    <3>2. Question(th, e.asked.branch)' = Question(th, e.asked.branch)
      BY <2>1, <2>5, <3>1 DEF Question
    <3>. QED
      BY <2>1, <2>2, <2>3, <2>5, <3>2 DEF TookFit
  <2>6. CASE e.asked = Question(th, b)
    <3>1. e \in Had(a, b)
      BY <2>6 DEF Had
    <3>2. at'[th][b] = Question(th, b).nth + 1
      BY <2>1, <3>1
    <3>3. e.asked.thread = th /\ e.asked.step = step[th] /\ e.asked.branch = b
      BY <2>6 DEF Question
    <3>4. Answered(e.asked)'
      BY <2>1, <2>6, <3>2, <3>3 DEF Answered
    <3>. QED
      BY <2>1, <2>2, <2>3, <3>4 DEF TookFit
  <2>. QED
    BY <2>1, <2>4, <2>5, <2>6 DEF TookFit, Drives
<1>. QED
  BY <1>2, <1>4, <1>5, <1>6, <1>7, <1>8, <1>9 DEF Acts

(* A gate's line is a yes where the human agreed.                          *)
LEMMA VerdictFits ==
  ASSUME NEW raw, NEW i \in DOMAIN raw, NEW kind, kind # "question"
  PROVE  Approved(PromptHuman(kind, raw)[i]) <=> raw[i] \in {"", "y", "yes"}
BY DEF PromptHuman, Approved

(* What a branch takes is the answer to its question, unless the step is   *)
(* torn, and nobody has taken one for it in this go.                       *)
LEMMA TakesFit ==
  ASSUME SessionsTypeOK, OneDriver, NEW a \in Actors, NEW th, th = on[a],
         GoFits(a, th), HasFit(a, th), NEW b \in Branches, RunBranch(a, b), NEW c \in For(a, b),
         NEW e, e = Takes(a, b, verdicts[a][c])
  PROVE  /\ TookFit(e, th)' /\ ~ Answered(e.asked) /\ b \notin ran[a]
         /\ e.by = a /\ e.asked = Question(th, b)
<1>. USE ActorsAre DEF Goes, disk, history
<1>1. /\ pc[a] = "running" /\ b \in todo[a] /\ UNCHANGED <<step, at, pc, on, torn>>
      /\ ran'[a] = ran[a] \cup {b}
  BY DEF RunBranch, SessionsTypeOK
<1>2. th \in Processes
  BY <1>1, Alone DEF Drives
<1>3. b \in Now(th) /\ b \notin ran[a]
  BY <1>1 DEF GoFits
<1>4. Question(th, b) \in Questions /\ ~ Answered(Question(th, b))
  BY <1>2, <1>3, NotYet
<1>5. /\ e.by = a /\ e.asked = Question(th, b) /\ e.to = verdicts[a][c].to
      /\ e.raw = verdicts[a][c].raw
      /\ e.verdict = PromptHuman(Text(verdicts[a][c].to).kind, verdicts[a][c].raw)
  BY DEF Takes
<1>6. Question(th, b).thread = th /\ Question(th, b).step = step[th] /\ Question(th, b).branch = b
  BY DEF Question
<1>7. Rightly(e)
  <2>1. e.verdict = PromptHuman(Text(e.to).kind, e.raw)
    BY <1>5
  <2>. SUFFICES ASSUME Text(e.to).kind # "question", NEW i \in DOMAIN e.raw
                PROVE  Approved(e.verdict[i]) <=> e.raw[i] \in {"", "y", "yes"}
    BY DEF Rightly
  <2>2. e.verdict[i] = PromptHuman(Text(e.to).kind, e.raw)[i]
    BY <2>1
  <2>. QED
    BY <2>2, VerdictFits
<1>8. <<th, step[th]>> \notin torn => e.to = e.asked
  <2>1. CASE b \in DOMAIN verdicts[a]
    <3>1. c = b
      BY <2>1 DEF For
    <3>2. verdicts[a][b].to = Question(th, b)
      BY <1>1, <2>1 DEF HasFit
    <3>. QED
      BY <1>5, <3>1, <3>2
  <2>2. CASE b \notin DOMAIN verdicts[a]
    <3>1. b \in Fresh(th) /\ DOMAIN verdicts[a] # {}
      BY <2>2 DEF For
    <3>2. Whole(th)
      BY <1>1, <3>1 DEF HasFit
    <3>. QED
      BY <3>1, <3>2 DEF Whole
  <2>. QED
    BY <2>1, <2>2
<1>9. Rightly(e)' = Rightly(e)
  BY DEF Rightly, Text, Approved
<1>10. Question(th, b)' = Question(th, b)
  BY <1>1, ThreadStays
<1>11. TookFit(e, th)'
  <2>1. e.by \in Actors /\ e.asked \in Questions /\ th = e.asked.thread
    BY <1>4, <1>5, <1>6
  <2>2. <<e.asked.thread, e.asked.step>> \notin torn' => e.to = e.asked /\ Rightly(e)'
    BY <1>1, <1>5, <1>6, <1>7, <1>8, <1>9
  <2>3. e.asked.branch \in ran'[e.by] /\ e.asked = Question(th, e.asked.branch)'
    BY <1>1, <1>5, <1>6, <1>10
  <2>4. pc'[e.by] = "running"
    BY <1>1, <1>5
  <2>. QED
    BY <2>1, <2>2, <2>3, <2>4 DEF TookFit
<1>. QED
  BY <1>3, <1>4, <1>5, <1>11

(* Only a branch that runs takes an answer, and only one.                  *)
LEMMA TakesOne ==
  ASSUME NEW a \in Actors, Acts(a)
  PROVE  \/ took' = took
         \/ \E b \in Branches : RunBranch(a, b) /\ \E c \in For(a, b) :
              took' = took \cup {Takes(a, b, verdicts[a][c])}
BY DEF Acts, Refuse, Start, Die, ListThreads, DeleteThreads, RunBranch, WriteBranch, Pause,
       StepDone, Finish, Answer, Resume, ResumeFails, TakeOver, disk, history

LEMMA TookKeep == SessionsIInv /\ SessionsNext => TookFits'
<1>. SUFFICES ASSUME SessionsIInv, SessionsNext PROVE TookFits'
  OBVIOUS
<1>1. PICK a \in Actors : Acts(a)
  BY SomeoneActs
<1>2. PICK th : th = on[a]
  OBVIOUS
<1>3. /\ SessionsTypeOK /\ OneDriver /\ GoFits(a, th) /\ HasFit(a, th)
      /\ \A e, f \in took : e.by = f.by /\ e.asked = f.asked => e = f
  BY <1>2 DEF SessionsIInv, GoesFit, GoFits, VerdictsFit, HasFit, TookFits
<1>4. \A e \in took : e.by \in Actors /\ TookFit(e, on[e.by])
  BY DEF SessionsIInv, TookFits, TookFit
<1>5. ASSUME NEW e \in took, NEW new, new = on'[e.by]
      PROVE  TookFit(e, new)'
  <2>1. CASE e.by = a
    BY <1>1, <1>2, <1>3, <1>4, <1>5, <2>1, TookKeeps
  <2>2. CASE e.by # a
    <3>1. PICK c : c = e.by
      OBVIOUS
    <3>2. PICK old : old = on[c]
      OBVIOUS
    <3>3. c \in Actors \ {a} /\ TookFit(e, old)
      BY <1>4, <2>2, <3>1, <3>2
    <3>4. pc'[c] = pc[c] /\ new = old /\ ran'[c] = ran[c] /\ torn \subseteq torn'
      BY <1>1, <1>3, <1>5, <3>1, <3>2, <3>3, DoingsStay
    <3>5. Rightly(e)' = Rightly(e)
      BY DEF Rightly, Text, Approved
    <3>6. CASE pc[c] \notin Drives
      BY <3>1, <3>3, <3>4, <3>5, <3>6 DEF TookFit
    <3>7. CASE pc[c] \in Drives
      <4>1. step'[old] = step[old] /\ at'[old] = at[old]
        BY <1>1, <1>3, <3>2, <3>3, <3>7, OthersStay
      <4>2. \A d : Question(old, d)' = Question(old, d)
        BY <4>1, ThreadStays
      <4>3. Answered(e.asked)' = Answered(e.asked)
        BY <3>3, <4>1 DEF TookFit, Answered
      <4>. QED
        BY <3>1, <3>3, <3>4, <3>5, <4>2, <4>3 DEF TookFit
    <3>. QED
      BY <3>6, <3>7
  <2>. QED
    BY <2>1, <2>2
<1>6. CASE took' = took
  <2>1. ASSUME NEW e \in took'
        PROVE  \E new : new = on'[e.by] /\ TookFit(e, new)'
    BY <1>5, <1>6, <2>1
  <2>. QED
    BY <1>3, <1>6, <2>1 DEF TookFits, TookFit
<1>7. ASSUME NEW b \in Branches, RunBranch(a, b), NEW c \in For(a, b),
             took' = took \cup {Takes(a, b, verdicts[a][c])}
      PROVE  TookFits'
  <2>1. PICK x : x = Takes(a, b, verdicts[a][c])
    OBVIOUS
  <2>2. /\ TookFit(x, th)' /\ ~ Answered(x.asked) /\ b \notin ran[a]
        /\ x.by = a /\ x.asked = Question(th, b)
    BY <1>2, <1>3, <1>7, <2>1, TakesFit
  <2>3. on' = on /\ pc[a] = "running"
    BY <1>7 DEF RunBranch
  <2>4. ASSUME NEW e \in took, e.by = x.by, e.asked = x.asked
        PROVE  FALSE
    <3>1. x.asked.branch = b
      BY <2>2 DEF Question
    <3>. QED
      BY <1>2, <1>4, <2>2, <2>3, <2>4, <3>1 DEF TookFit, Drives
  <2>5. ASSUME NEW e \in took'
        PROVE  \E new : new = on'[e.by] /\ TookFit(e, new)'
    <3>1. CASE e \in took
      BY <1>5, <3>1
    <3>2. CASE e = x
      BY <1>2, <2>2, <2>3, <3>2
    <3>. QED
      BY <1>7, <2>1, <3>1, <3>2
  <2>6. \A e, f \in took' : e.by = f.by /\ e.asked = f.asked => e = f
    BY <1>3, <1>7, <2>1, <2>4
  <2>. QED
    BY <2>5, <2>6 DEF TookFits, TookFit
<1>. QED
  BY <1>1, <1>6, <1>7, TakesOne

(* A question is answered when its branch is written with the answer.      *)
LEMMA NewlyAnswered ==
  ASSUME SessionsTypeOK, OneDriver, StepsFit, NEW a \in Actors, Acts(a), NEW th, th = on[a],
         GoFits(a, th), NEW q \in Questions,
         q.nth \in DOMAIN Steps[q.thread][q.step][q.branch], ~ Answered(q), Answered(q)'
  PROVE  \E b \in Branches : WriteBranch(a, b) /\ q = Question(th, b) /\ Had(a, b) # {}
<1>. USE DEF Goes, disk, history
<1>0. /\ q.thread \in Processes /\ q.step \in Nat \ {0} /\ q.branch \in Branches
      /\ q.nth \in Nat \ {0} /\ q.branch \in Members(q.thread, q.step)
      /\ q = [thread |-> q.thread, step |-> q.step, branch |-> q.branch, nth |-> q.nth]
      /\ q.step \in 1 .. Len(Steps[q.thread])
      /\ step[q.thread] \in Nat /\ at[q.thread][q.branch] \in Nat
  BY StepsAre DEF Questions, SessionsTypeOK
<1>1. CASE UNCHANGED <<step, at>>
  BY <1>1 DEF Answered
<1>2. CASE (a \in Processes /\ Start(a)) \/ StepDone(a)
  <2>1. th \in Processes /\ Checkpointed(a)
    BY <1>2, Alone, ActorsAre DEF Start, StepDone, OneDriver, Drives
  <2>2. /\ step'[th] = step[th] + 1 /\ at'[th] = [b \in Branches |-> 0]
        /\ \A p \in Processes \ {th} : step'[p] = step[p] /\ at'[p] = at[p]
    BY <2>1, Checkpoints
  <2>3. q.thread = th /\ q.step = step[th]
    BY <1>0, <2>2 DEF Answered
  <2>4. CASE a \in Processes /\ Start(a)
    BY <1>0, <2>3, <2>4, ActorsAre DEF Start, StepsFit, OneDriver
  <2>5. CASE StepDone(a)
    <3>1. q.branch \in Done(th)
      BY <1>0, <2>3, <2>5 DEF StepDone, Now
    <3>2. at[th][q.branch] > Len(Steps[th][q.step][q.branch])
      BY <2>3, <3>1 DEF Done, Asks
    <3>3. /\ DOMAIN Steps[th][q.step][q.branch] = 1 .. Len(Steps[th][q.step][q.branch])
          /\ Len(Steps[th][q.step][q.branch]) \in Nat
      BY <1>0, <2>3, StepsAre DEF Members
    <3>4. q.nth < at[th][q.branch]
      BY <1>0, <2>3, <3>2, <3>3
    <3>. QED
      BY <2>3, <3>4 DEF Answered
  <2>. QED
    BY <1>2, <2>4, <2>5
<1>3. ASSUME NEW b \in Branches, WriteBranch(a, b)
      PROVE  q = Question(th, b) /\ Had(a, b) # {}
  <2>1. /\ step' = step /\ at[th][b] \in Nat /\ Question(th, b).nth \in Nat
        /\ at[th][b] <= Question(th, b).nth
        /\ at'[th][b] = Question(th, b).nth + (IF Had(a, b) = {} THEN 0 ELSE 1)
        /\ \A d \in Branches \ {b} : at'[th][d] = at[th][d]
        /\ \A p \in Processes \ {th} : at'[p] = at[p]
    BY <1>3, WritesAre
  <2>2. /\ q.thread = th /\ q.branch = b /\ q.step = step[th]
        /\ q.nth < at'[th][b] /\ ~ (q.nth < at[th][b])
    BY <1>0, <2>1 DEF Answered
  <2>3. Question(th, b).nth = IF at[th][b] = 0 THEN 1 ELSE at[th][b]
    BY DEF Question
  <2>4. Had(a, b) # {} /\ q.nth = Question(th, b).nth
    BY <1>0, <2>1, <2>2, <2>3
  <2>5. Question(th, b) =
          [thread |-> th, step |-> step[th], branch |-> b, nth |-> Question(th, b).nth]
    BY DEF Question
  <2>. QED
    BY <1>0, <2>2, <2>4, <2>5
<1>. QED
  BY <1>1, <1>2, <1>3
     DEF Acts, Refuse, Die, ListThreads, DeleteThreads, RunBranch, Pause, Finish, Answer,
         Resume, ResumeFails, TakeOver

LEMMA KeptKeep == SessionsIInv /\ SessionsNext => KeptFits'
<1>. SUFFICES ASSUME SessionsIInv, SessionsNext PROVE KeptFits'
  OBVIOUS
<1>1. PICK a \in Actors : Acts(a)
  BY SomeoneActs
<1>2. PICK th : th = on[a]
  OBVIOUS
<1>3. /\ SessionsTypeOK /\ OneDriver /\ StepsFit /\ GoFits(a, th) /\ KeptFits
      /\ \A e \in took : e.asked \in Questions
      /\ \A e, f \in took : e.by = f.by /\ e.asked = f.asked => e = f
      /\ kept \subseteq took
  BY <1>2 DEF SessionsIInv, GoesFit, GoFits, TookFits, SessionsTypeOK
<1>4. \A e \in kept : Answered(e.asked)'
  BY <1>1, <1>2, <1>3, AnsweredStays DEF KeptFits
<1>5. ASSUME NEW b \in Branches, WriteBranch(a, b)
      PROVE  KeptFits'
  <2>1. /\ th \in Processes /\ b \in Now(th) /\ step' = step
        /\ kept' = kept \cup Had(a, b) /\ Question(th, b).nth \in Nat
        /\ at'[th][b] = Question(th, b).nth + (IF Had(a, b) = {} THEN 0 ELSE 1)
    BY <1>2, <1>3, <1>5, WritesAre
  <2>2. \A e \in Had(a, b) : e \in took /\ e.by = a /\ e.asked = Question(th, b)
    BY <1>2 DEF Had
  <2>3. ~ Answered(Question(th, b))
    BY <1>3, <2>1, NotYet
  <2>4. ASSUME NEW e \in Had(a, b)
        PROVE  Answered(e.asked)'
    <3>1. /\ e.asked.thread = th /\ e.asked.step = step[th] /\ e.asked.branch = b
          /\ e.asked.nth = Question(th, b).nth
      BY <2>2 DEF Question
    <3>2. e.asked.nth < at'[th][b]
      BY <2>1, <2>4, <3>1
    <3>. QED
      BY <2>1, <3>1, <3>2 DEF Answered
  <2>5. \A e, f \in kept' : e.asked = f.asked => e = f
    BY <1>3, <2>1, <2>2, <2>3 DEF KeptFits
  <2>6. \A q \in Questions : Answered(q)' /\ q.nth \in DOMAIN Steps[q.thread][q.step][q.branch] =>
          \E e \in kept' : e.asked = q
    <3>. SUFFICES ASSUME NEW q \in Questions, Answered(q)',
                         q.nth \in DOMAIN Steps[q.thread][q.step][q.branch]
                  PROVE  \E e \in kept' : e.asked = q
      OBVIOUS
    <3>1. CASE Answered(q)
      BY <1>3, <2>1, <3>1 DEF KeptFits
    <3>2. CASE ~ Answered(q)
      <4>1. PICK d \in Branches : WriteBranch(a, d) /\ q = Question(th, d) /\ Had(a, d) # {}
        BY <1>1, <1>2, <1>3, <3>2, NewlyAnswered
      <4>2. kept' = kept \cup Had(a, d)
        BY <4>1 DEF WriteBranch
      <4>. QED
        BY <1>2, <4>1, <4>2 DEF Had
    <3>. QED
      BY <3>1, <3>2
  <2>. QED
    BY <1>4, <2>1, <2>4, <2>5, <2>6 DEF KeptFits
<1>6. CASE \A b \in Branches : ~ WriteBranch(a, b)
  <2>1. kept' = kept
    BY <1>1, <1>6
       DEF Acts, Refuse, Start, Die, ListThreads, DeleteThreads, RunBranch, Pause, StepDone,
           Finish, Answer, Resume, ResumeFails, TakeOver, disk, history
  <2>2. \A q \in Questions : q.nth \in DOMAIN Steps[q.thread][q.step][q.branch] /\ Answered(q)' =>
          Answered(q)
    BY <1>1, <1>2, <1>3, <1>6, NewlyAnswered
  <2>. QED
    BY <1>3, <1>4, <2>1, <2>2 DEF KeptFits
<1>. QED
  BY <1>5, <1>6

-----------------------------------------------------------------------------
(* Pruning                                                                 *)

LEMMA SetsAreFinite ==
  /\ \A T \in SUBSET Processes : IsFiniteSet(T) /\ Cardinality(T) \in Nat
  /\ \A T \in SUBSET Processes : \A U \in SUBSET T : Cardinality(U) <= Cardinality(T)
  /\ Cardinality({}) = 0 /\ Keep \in Nat \ {0}
BY SessionsAssumption, FS_Subset, FS_CardinalityType, FS_EmptySet

(* A listing leaves at most Keep rows: of those it leaves, all but the     *)
(* oldest are newer than that one, and it has fewer than Keep above it.    *)
LEMMA LeavesKeep ==
  ASSUME SessionsTypeOK, IdsDiffer
  PROVE  Cardinality(Rows \ Surplus) <= Keep
<1>. DEFINE Left == Rows \ Surplus
            Ids == {latest[p] : p \in Left}
<1>0. Left \in SUBSET Processes
  BY DEF Rows
<1>1. CASE Left = {}
  BY <1>1, SetsAreFinite
<1>2. CASE Left # {}
  <2>1. Ids \in SUBSET Nat /\ Ids # {} /\ \A p \in Processes : latest[p] \in Nat
    BY <1>0, <1>2 DEF SessionsTypeOK
  <2>2. PICK m \in Left : \A p \in Left : latest[m] <= latest[p]
    <3>1. PICK x \in Ids : \A y \in Ids : x <= y
      <4>. HIDE DEF Ids
      <4>. QED
        BY <2>1, LeastElement
    <3>. QED
      BY <3>1
  <2>3. Left \ {m} \subseteq Newer(m)
    <3>1. \A p \in Left : p # m => latest[p] # latest[m]
      BY <2>2 DEF IdsDiffer
    <3>. QED
      BY <1>0, <2>1, <2>2, <3>1 DEF Newer
  <2>4. Cardinality(Newer(m)) < Keep /\ Newer(m) \in SUBSET Processes
    <3>1. ~ (Cardinality(Newer(m)) >= Keep)
      BY <2>2 DEF Rows, Surplus
    <3>2. Newer(m) \in SUBSET Processes
      BY DEF Newer
    <3>3. Cardinality(Newer(m)) \in Nat
      BY <3>2, SetsAreFinite
    <3>. QED
      BY <3>1, <3>2, <3>3, SetsAreFinite
  <2>5. Cardinality(Left \ {m}) <= Cardinality(Newer(m))
    BY <2>3, <2>4, SetsAreFinite
  <2>6. Cardinality(Left \ {m}) = Cardinality(Left) - 1
    BY <1>0, <2>2, SetsAreFinite, FS_RemoveElement
  <2>. HIDE DEF Left
  <2>7. Cardinality(Left) \in Nat /\ Cardinality(Newer(m)) \in Nat
    BY <1>0, <2>4, SetsAreFinite
  <2>. QED
    BY <2>4, <2>5, <2>6, <2>7, SetsAreFinite DEF Left
<1>. QED
  BY <1>1, <1>2

(* While no more runs than Keep have begun, no row is surplus: the rows    *)
(* newer than one are of the others that have begun.                       *)
LEMMA FewAreKept ==
  ASSUME SessionsTypeOK, StepsFit, Cardinality(Begun) <= Keep
  PROVE  Surplus = {}
<1>. SUFFICES ASSUME NEW th \in Surplus PROVE FALSE
  OBVIOUS
<1>1. th \in Processes /\ latest[th] # 0 /\ Cardinality(Newer(th)) >= Keep
  BY DEF Surplus
<1>2. \A p \in Processes : latest[p] \in Nat /\ (latest[p] # 0 => p \in Begun)
  BY DEF SessionsTypeOK, StepsFit, Begun
<1>3. th \in Begun /\ th \notin Newer(th) /\ Newer(th) \subseteq Begun \ {th}
  BY <1>1, <1>2 DEF Newer
<1>4. Begun \in SUBSET Processes
  BY DEF Begun
<1>5. /\ Cardinality(Begun \ {th}) = Cardinality(Begun) - 1
      /\ Cardinality(Newer(th)) <= Cardinality(Begun \ {th})
  BY <1>3, <1>4, SetsAreFinite, FS_RemoveElement
<1>6. Newer(th) \in SUBSET Processes
  BY DEF Newer
<1>7. Cardinality(Begun) \in Nat /\ Cardinality(Newer(th)) \in Nat /\ Keep \in Nat
  BY <1>4, <1>6, SetsAreFinite
<1>. QED
  BY <1>1, <1>5, <1>7

LEMMA IdsKeep == SessionsIInv /\ SessionsNext => IdsDiffer'
<1>. SUFFICES ASSUME SessionsIInv, SessionsNext PROVE IdsDiffer'
  OBVIOUS
<1>0. SessionsTypeOK /\ OneDriver /\ IdsDiffer
  BY DEF SessionsIInv
<1>1. ASSUME NEW a \in Actors, on[a] \in Processes, Checkpointed(a)
      PROVE  IdsDiffer'
  <2>1. PICK th \in Processes : th = on[a]
    BY <1>1
  <2>2. /\ latest'[th] = clock + 1 /\ \A p \in Processes \ {th} : latest'[p] = latest[p]
        /\ \A p \in Processes : latest[p] \in Nat /\ latest[p] <= clock
        /\ clock \in Nat
    BY <1>0, <1>1, <2>1, Checkpoints DEF SessionsTypeOK
  <2>. QED
    BY <1>0, <2>2 DEF IdsDiffer, Rows
<1>2. ASSUME NEW p \in Processes, Start(p)
      PROVE  IdsDiffer'
  BY <1>0, <1>1, <1>2, ActorsAre DEF Start, OneDriver
<1>3. ASSUME NEW a \in Actors, StepDone(a)
      PROVE  IdsDiffer'
  BY <1>0, <1>1, <1>3, Alone DEF StepDone, Drives
<1>4. ASSUME NEW p \in Processes, DeleteThreads(p)
      PROVE  IdsDiffer'
  BY <1>0, <1>4 DEF DeleteThreads, IdsDiffer, Rows
<1>5. ASSUME latest' = latest
      PROVE  IdsDiffer'
  BY <1>0, <1>5 DEF IdsDiffer, Rows
<1>. QED
  BY <1>2, <1>3, <1>4, <1>5
     DEF SessionsNext, Refuse, Die, ListThreads, RunBranch, WriteBranch, Pause, Finish, Answer,
         Resume, ResumeFails, TakeOver, disk

LEMMA ListedKeep == SessionsIInv /\ SessionsNext => ListedLast'
<1>. SUFFICES ASSUME SessionsIInv, SessionsNext, Settled', Rows' # {} PROVE ListedLast'
  BY DEF ListedLast
<1>. USE DEF Goes
<1>0. SessionsTypeOK /\ OneDriver /\ IdsDiffer /\ ListedLast
  BY DEF SessionsIInv
<1>1. ASSUME NEW q \in Processes, ListThreads(q)
      PROVE  ListedLast'
  <2>1. Cardinality(Rows \ Surplus) <= Keep
    BY <1>0, LeavesKeep
  <2>2. doomed'[q] = Surplus /\ pc'[q] = "pruning" /\ Rows' = Rows
    BY <1>0, <1>1, ActorsAre DEF ListThreads, SessionsTypeOK, disk, Rows
  <2>3. pc'[q] \in {"pruning", "ended"} /\ Cardinality(Rows' \ doomed'[q]) <= Keep
        /\ (pc'[q] = "ended" => Rows' \cap doomed'[q] = {})
    BY <2>1, <2>2
  <2>. QED
    BY <2>3 DEF ListedLast
<1>2. ASSUME NEW p \in Processes, DeleteThreads(p)
      PROVE  ListedLast'
  <2>1. Settled
    BY <1>0, <1>2, ActorsAre DEF DeleteThreads, Settled, SessionsTypeOK
  <2>2. Rows' = Rows \ doomed[p] /\ doomed' = doomed
    BY <1>0, <1>2 DEF DeleteThreads, Rows, SessionsTypeOK
  <2>3. Rows # {}
    BY <2>2
  <2>4. PICK q \in Processes :
          /\ pc[q] \in {"pruning", "ended"} /\ Cardinality(Rows \ doomed[q]) <= Keep
          /\ pc[q] = "ended" => Rows \cap doomed[q] = {}
    BY <1>0, <2>1, <2>3 DEF ListedLast
  <2>5. pc' = [pc EXCEPT ![p] = "ended"]
    BY <1>2 DEF DeleteThreads
  <2>6. Cardinality(Rows' \ doomed'[q]) <= Keep
    <3>1. Rows \ doomed[q] \in SUBSET Processes /\ Rows' \ doomed'[q] \in SUBSET (Rows \ doomed[q])
      BY <2>2 DEF Rows
    <3>. HIDE DEF Settled
    <3>2. /\ Cardinality(Rows' \ doomed'[q]) <= Cardinality(Rows \ doomed[q])
          /\ Cardinality(Rows' \ doomed'[q]) \in Nat /\ Cardinality(Rows \ doomed[q]) \in Nat
          /\ Keep \in Nat
      BY <3>1, SetsAreFinite
    <3>. QED
      BY <2>4, <3>2
  <2>7. pc'[q] \in {"pruning", "ended"} /\ (pc'[q] = "ended" => Rows' \cap doomed'[q] = {})
    BY <1>0, <2>2, <2>4, <2>5, ActorsAre DEF SessionsTypeOK
  <2>. QED
    BY <2>6, <2>7 DEF ListedLast
<1>3. ASSUME NEW p \in Processes, Refuse(p)
      PROVE  ListedLast'
  <2>1. Settled
    BY <1>0, <1>3, ActorsAre DEF Refuse, Settled, SessionsTypeOK
  <2>2. Rows' = Rows /\ doomed' = doomed /\ pc[p] = "new" /\ pc' = [pc EXCEPT ![p] = "refused"]
    BY <1>3 DEF Refuse, Rows, disk
  <2>3. PICK q \in Processes :
          /\ pc[q] \in {"pruning", "ended"} /\ Cardinality(Rows \ doomed[q]) <= Keep
          /\ pc[q] = "ended" => Rows \cap doomed[q] = {}
    BY <1>0, <2>1, <2>2 DEF ListedLast
  <2>4. pc'[q] = pc[q]
    BY <1>0, <2>2, <2>3, ActorsAre DEF SessionsTypeOK
  <2>. QED
    BY <2>2, <2>3, <2>4 DEF ListedLast
<1>4. ASSUME NEW p \in Processes, Start(p) \/ Die(p)
      PROVE  FALSE
  <2>1. pc'[p] \in {"running", "dead"}
    BY <1>0, <1>4, ActorsAre DEF Start, Die, SessionsTypeOK
  <2>. QED
    BY <2>1 DEF Settled
(* A program that drives another's thread drives one whose process died.   *)
<1>5. ASSUME NEW a \in Actors,
             \/ \E b \in Branches : RunBranch(a, b) \/ WriteBranch(a, b)
             \/ Pause(a) \/ StepDone(a) \/ Finish(a) \/ Answer(a) \/ Resume(a)
             \/ ResumeFails(a)
      PROVE  FALSE
  <2>0. pc'[a] \in {"running", "asking", "sending", "lost",
                     IF a \in Processes THEN "finished" ELSE "ended"}
        /\ \A c \in Actors \ {a} : pc'[c] = pc[c]
    BY <1>0, <1>5
       DEF RunBranch, WriteBranch, Pause, StepDone, Finish, Answer, Resume, ResumeFails,
           SessionsTypeOK
  <2>1. pc[a] \in Drives
    BY <1>5
       DEF RunBranch, WriteBranch, Pause, StepDone, Finish, Answer, Resume, ResumeFails, Drives
  <2>2. CASE a \in Processes
    BY <2>0, <2>2 DEF Settled
  <2>3. CASE a \in Resumers
    <3>1. on[a] \in Processes /\ pc[on[a]] = "dead" /\ on[a] # a
      BY <1>0, <2>1, <2>3, Alone, ActorsAre
    <3>2. pc'[on[a]] = "dead"
      BY <2>0, <3>1, ActorsAre
    <3>. QED
      BY <3>1, <3>2 DEF Settled
  <2>. QED
    BY <2>2, <2>3 DEF Actors
<1>6. ASSUME NEW r \in Resumers, NEW p \in Processes, TakeOver(r, p)
      PROVE  FALSE
  <2>1. pc'[p] = "dead"
    BY <1>0, <1>6, ActorsAre DEF TakeOver, SessionsTypeOK
  <2>. QED
    BY <2>1 DEF Settled
<1>. QED
  BY <1>1, <1>2, <1>3, <1>4, <1>5, <1>6 DEF SessionsNext

LEMMA SurplusKeeps == SessionsIInv /\ SessionsNext => NothingSurplus'
<1>. SUFFICES ASSUME SessionsIInv, SessionsNext, Cardinality(Begun') <= Keep
              PROVE  NothingSurplus'
  BY DEF NothingSurplus
<1>. USE DEF Goes
<1>0. SessionsTypeOK /\ OneDriver /\ StepsFit /\ NothingSurplus
  BY DEF SessionsIInv
<1>1. Begun \subseteq Begun'
  <2>1. PICK a \in Actors : Acts(a)
    BY SomeoneActs
  <2>2. DOMAIN pc = Actors
    BY <1>0 DEF SessionsTypeOK
  <2>3. pc'[a] \in {"new", "refused"} => pc[a] \in {"new", "refused"}
    BY <2>1, <2>2
       DEF Acts, Refuse, Start, Die, ListThreads, DeleteThreads, RunBranch, WriteBranch, Pause,
           StepDone, Finish, Answer, Resume, ResumeFails, TakeOver
  <2>4. \A c \in Actors \ {a} : pc'[c] = pc[c]
    BY <1>0, <2>1, DoingsStay
  <2>. QED
    BY <2>3, <2>4, ActorsAre DEF Begun
<1>2. Cardinality(Begun) <= Keep
  <2>1. Begun' \in SUBSET Processes /\ Begun \in SUBSET Begun' /\ Begun \in SUBSET Processes
    BY <1>1 DEF Begun
  <2>2. /\ Cardinality(Begun) <= Cardinality(Begun')
        /\ Cardinality(Begun) \in Nat /\ Cardinality(Begun') \in Nat /\ Keep \in Nat
    BY <2>1, SetsAreFinite
  <2>. QED
    BY <2>2
<1>3. /\ \A p \in Processes : doomed[p] = {}
      /\ \A p \in Begun : latest[p] # 0
      /\ \A a \in Actors : pc[a] # "lost"
  BY <1>0, <1>2 DEF NothingSurplus
<1>4. ASSUME NEW p \in Processes, Refuse(p) \/ Die(p)
      PROVE  NothingSurplus'
  <2>1. /\ latest' = latest /\ doomed' = doomed
        /\ \/ pc[p] = "new" /\ pc' = [pc EXCEPT ![p] = "refused"]
           \/ pc[p] \in {"running", "asking", "sending"} /\ pc' = [pc EXCEPT ![p] = "dead"]
    BY <1>4 DEF Refuse, Die, disk
  <2>2. \A a \in Actors : pc'[a] # "lost"
    BY <1>0, <1>3, <2>1, ActorsAre DEF SessionsTypeOK
  <2>3. Begun' \subseteq Begun
    BY <1>0, <2>1, ActorsAre DEF Begun, SessionsTypeOK
  <2>. QED
    BY <1>3, <2>1, <2>2, <2>3 DEF NothingSurplus
<1>5. ASSUME NEW p \in Processes, Start(p)
      PROVE  NothingSurplus'
  <2>1. on[p] = p /\ p \in Actors
    BY <1>0, ActorsAre DEF OneDriver
  <2>2. Checkpointed(p) /\ doomed' = doomed /\ pc' = [pc EXCEPT ![p] = "running"]
    BY <1>5 DEF Start
  <2>3. /\ latest'[p] = clock + 1 /\ clock \in Nat
        /\ \A q \in Processes \ {p} : latest'[q] = latest[q]
    BY <1>0, <2>1, <2>2, Checkpoints DEF SessionsTypeOK
  <2>4. \A c \in Actors : pc'[c] # "lost" /\ (c # p => pc'[c] = pc[c])
    BY <1>0, <1>3, <2>2 DEF SessionsTypeOK
  <2>5. \A q \in Begun' : latest'[q] # 0
    BY <1>3, <2>3, <2>4, ActorsAre DEF Begun
  <2>. QED
    BY <1>3, <2>2, <2>4, <2>5 DEF NothingSurplus
<1>6. ASSUME NEW p \in Processes, ListThreads(p)
      PROVE  NothingSurplus'
  <2>1. Surplus = {}
    BY <1>0, <1>2, FewAreKept
  <2>. QED
    BY <1>0, <1>3, <1>6, <2>1, ActorsAre
       DEF ListThreads, NothingSurplus, Begun, disk, SessionsTypeOK
<1>7. ASSUME NEW p \in Processes, DeleteThreads(p)
      PROVE  NothingSurplus'
  BY <1>0, <1>3, <1>7, ActorsAre DEF DeleteThreads, NothingSurplus, Begun, SessionsTypeOK
<1>8. ASSUME NEW a \in Actors,
             \/ \E b \in Branches : RunBranch(a, b) \/ WriteBranch(a, b)
             \/ Pause(a) \/ Finish(a) \/ Answer(a) \/ Resume(a)
      PROVE  NothingSurplus'
  <2>1. /\ latest' = latest /\ doomed' = doomed /\ pc[a] \in {"running", "asking", "sending"}
        /\ \/ pc' = pc
           \/ \E to \in {"asking", "finished", "ended", "sending", "running"} :
                pc' = [pc EXCEPT ![a] = to]
    BY <1>8 DEF RunBranch, WriteBranch, Pause, Finish, Answer, Resume, disk
  <2>2. \A c \in Actors : pc'[c] # "lost" /\ (c # a => pc'[c] = pc[c])
    BY <1>0, <1>3, <2>1 DEF SessionsTypeOK
  <2>3. Begun' \subseteq Begun
    BY <2>1, <2>2, ActorsAre DEF Begun
  <2>. QED
    BY <1>3, <2>1, <2>2, <2>3 DEF NothingSurplus
<1>9. ASSUME NEW a \in Actors, StepDone(a)
      PROVE  NothingSurplus'
  <2>1. PICK th \in Processes : th = on[a]
    BY <1>0, <1>9, Alone DEF StepDone, Drives
  <2>2. doomed' = doomed /\ pc' = pc /\ Checkpointed(a)
    BY <1>9 DEF StepDone
  <2>3. /\ latest'[th] = clock + 1 /\ clock \in Nat
        /\ \A p \in Processes \ {th} : latest'[p] = latest[p]
    BY <1>0, <2>1, <2>2, Checkpoints DEF SessionsTypeOK
  <2>. QED
    BY <1>3, <2>2, <2>3 DEF NothingSurplus, Begun
<1>10. ASSUME NEW a \in Actors, ResumeFails(a)
       PROVE  FALSE
  <2>1. on[a] \in Processes /\ on[a] \in Begun /\ latest[on[a]] = 0
    BY <1>0, <1>10, Alone DEF ResumeFails, Begun, Drives
  <2>. QED
    BY <1>3, <2>1
<1>11. ASSUME NEW r \in Resumers, NEW p \in Processes, TakeOver(r, p)
       PROVE  NothingSurplus'
  BY <1>0, <1>3, <1>11, ActorsAre DEF TakeOver, NothingSurplus, Begun, disk, SessionsTypeOK
<1>. QED
  BY <1>4, <1>5, <1>6, <1>7, <1>8, <1>9, <1>10, <1>11 DEF SessionsNext
-----------------------------------------------------------------------------
LEMMA SessionsInitIInv == SessionsInit => SessionsIInv
<1>. SUFFICES ASSUME SessionsInit PROVE SessionsIInv
  OBVIOUS
<1>. USE ActorsAre DEF SessionsInit
<1>1. SessionsTypeOK
  BY DEF SessionsTypeOK, Doing
<1>2. OneDriver
  BY DEF OneDriver
<1>3. \A p \in Processes : Now(p) = {}
  BY StepsAre DEF Now, Members
<1>4. StepsFit
  BY <1>3, StepsAre DEF StepsFit
<1>5. GoesFit /\ VerdictsFit
  BY DEF GoesFit, VerdictsFit
<1>6. TookFits /\ KeptFits
  BY DEF TookFits, KeptFits, Questions, Answered
<1>7. Rows = {}
  BY DEF Rows
<1>8. NothingSurplus
  BY DEF NothingSurplus, Begun
<1>. QED
  BY <1>1, <1>2, <1>4, <1>5, <1>6, <1>7, <1>8 DEF SessionsIInv, IdsDiffer, ListedLast

LEMMA SessionsNextIInv == SessionsIInv /\ [SessionsNext]_sessionVars => SessionsIInv'
<1>. SUFFICES ASSUME SessionsIInv, [SessionsNext]_sessionVars PROVE SessionsIInv'
  OBVIOUS
<1>1. CASE SessionsNext
  BY <1>1, TypesKeep, DriversKeep, StepsKeep, GoesKeep, VerdictsKeep, TookKeep, KeptKeep,
     IdsKeep, ListedKeep, SurplusKeeps DEF SessionsIInv
<1>2. CASE UNCHANGED sessionVars
  <2>. USE <1>2 DEF SessionsIInv, sessionVars, disk, history
  <2>1. SessionsTypeOK' /\ OneDriver'
    BY DEF SessionsTypeOK, OneDriver
  <2>2. StepsFit' /\ GoesFit'
    BY DEF StepsFit, GoesFit, Now, Asks, Done, Fresh
  <2>3. VerdictsFit'
    BY DEF VerdictsFit, Whole, Interrupts, Waiting, Question, Now, Asks, Done, Fresh
  <2>4. TookFits' /\ KeptFits'
    BY DEF TookFits, KeptFits, Answered, Question, Rightly, Text, Approved
  <2>5. IdsDiffer' /\ ListedLast' /\ NothingSurplus'
    BY DEF IdsDiffer, ListedLast, Settled, NothingSurplus, Rows, Begun
  <2>. QED
    BY <2>1, <2>2, <2>3, <2>4, <2>5
<1>. QED
  BY <1>1, <1>2

LEMMA SessionsInvariant == SessionsSpec => []SessionsIInv
<1>. QED
  BY SessionsInitIInv, SessionsNextIInv, PTL DEF SessionsSpec

(* The checkpoint file, the actors and what is taken from the answers keep *)
(* their shapes.                                                           *)
THEOREM SessionsTypes == SessionsSpec => []SessionsTypeOK
<1>1. SessionsIInv => SessionsTypeOK
  BY DEF SessionsIInv
<1>. QED
  BY <1>1, SessionsInvariant, PTL

(* The file has one answer to each question behind a run and none to       *)
(* another, no driver is asked the same twice, and an answer is taken for  *)
(* the question it was given to: for any runs side by side, steps and      *)
(* branches, deaths at any point of a step, also between the resume        *)
(* command and the next checkpoint, programs that resume what is left, and *)
(* prunings in between.                                                    *)
THEOREM AnswersAlwaysFit == SessionsSpec => []AnswersFit
<1>1. SessionsIInv => AnswersFit
  <2>. SUFFICES ASSUME SessionsIInv PROVE AnswersFit
    OBVIOUS
  <2>1. SessionsTypeOK /\ TookFits /\ KeptFits
    BY DEF SessionsIInv
  <2>2. ASSUME NEW q \in Questions, q.nth \in DOMAIN Steps[q.thread][q.step][q.branch]
        PROVE  Cardinality({e \in kept : e.asked = q}) = IF Answered(q) THEN 1 ELSE 0
    <3>1. CASE Answered(q)
      <4>1. PICK e \in kept : e.asked = q
        BY <2>1, <2>2, <3>1 DEF KeptFits
      <4>2. {f \in kept : f.asked = q} = {e}
        BY <2>1, <4>1 DEF KeptFits
      <4>. QED
        BY <3>1, <4>2, FS_Singleton
    <3>2. CASE ~ Answered(q)
      <4>1. {f \in kept : f.asked = q} = {}
        BY <2>1, <3>2 DEF KeptFits
      <4>. QED
        BY <3>2, <4>1, FS_EmptySet
    <3>. QED
      BY <3>1, <3>2
  <2>3. ASSUME NEW th \in Processes, NEW k \in DOMAIN Steps[th], NEW b \in DOMAIN Steps[th][k],
               NEW n \in DOMAIN Steps[th][k][b],
               NEW q, q = [thread |-> th, step |-> k, branch |-> b, nth |-> n]
        PROVE  Cardinality({e \in kept : e.asked = q}) = IF Answered(q) THEN 1 ELSE 0
    <3>1. /\ k \in 1 .. Len(Steps[th]) /\ k \in Nat /\ b \in Branches /\ b \in Members(th, k)
          /\ n \in Nat \ {0}
      BY StepsAre DEF Members
    <3>2. q \in Questions /\ q.nth \in DOMAIN Steps[q.thread][q.step][q.branch]
      BY <2>3, <3>1 DEF Questions
    <3>. QED
      BY <2>2, <3>2
  <2>4. \A e \in took :
          <<e.asked.thread, e.asked.step>> \notin torn => e.to = e.asked /\ Rightly(e)
    BY <2>1 DEF TookFits
  <2>5. \A e, f \in took : e.by = f.by /\ e.asked = f.asked => e = f
    BY <2>1 DEF TookFits
  <2>. QED
    BY <2>3, <2>4, <2>5 DEF AnswersFit
<1>. QED
  BY <1>1, SessionsInvariant, PTL

(* The file ends with at most Keep threads, and no answer is lost while no *)
(* more runs than Keep have begun: for any number of runs, however their   *)
(* listings and deletions overlap.                                         *)
THEOREM PruningAlwaysFits == SessionsSpec => []PruningFits
<1>1. SessionsIInv => PruningFits
  <2>. SUFFICES ASSUME SessionsIInv PROVE PruningFits
    OBVIOUS
  <2>1. PruneBounds
    <3>. SUFFICES ASSUME \A p \in Processes : pc[p] \in {"ended", "refused"}
                  PROVE  Cardinality(Rows) <= Keep
      BY DEF PruneBounds, Rows
    <3>1. CASE Rows = {}
      BY <3>1, SetsAreFinite
    <3>2. CASE Rows # {}
      <4>1. PICK q \in Processes :
              /\ pc[q] \in {"pruning", "ended"} /\ Cardinality(Rows \ doomed[q]) <= Keep
              /\ pc[q] = "ended" => Rows \cap doomed[q] = {}
        BY <3>2 DEF SessionsIInv, ListedLast, Settled
      <4>2. pc[q] = "ended"
        BY <4>1
      <4>3. Rows \ doomed[q] = Rows
        BY <4>1, <4>2
      <4>. QED
        BY <4>1, <4>3
    <3>. QED
      BY <3>1, <3>2
  <2>2. NothingLost
    BY DEF SessionsIInv, NothingSurplus, NothingLost, Begun
  <2>. QED
    BY <2>1, <2>2 DEF PruningFits
<1>. QED
  BY <1>1, SessionsInvariant, PTL

-----------------------------------------------------------------------------
(* Reading: any length of a text, of a window and of a history             *)

(* The cells step t may have: its pointers lead back, to text there is.    *)
Sound(t) ==
  {c \in Cell : c.type = "pointer" =>
     c.step \in 1 .. t - 1 /\ c.at < Len(steps[c.step].text)}

(* Step t, where it is a read, is the one its pointer asked for.           *)
ReadsBack(t) ==
  LET p == steps[t].read IN
  t # 1 /\ p # Word => p.step \in 1 .. t - 1 /\ steps[t].text = ReadText(p.step, p.at)

ReadingIInv ==
  /\ ReadingTypeOK
  /\ Prompt(steps) \subseteq seen
  /\ steps # <<>> => steps[1] = [text |-> Document, read |-> NoPointer]
  /\ \A t \in DOMAIN steps :
       steps[t].text \in Seq(Sound(t)) /\ steps[t].text # <<>> /\ ReadsBack(t)
-----------------------------------------------------------------------------
(* The recursive function is what its definition says: it exists, and is   *)
(* the only one.                                                           *)
LEMMA ReachedIs ==
  \A n \in Nat : Reached[n] = IF n = 0 THEN Visible \ Followed ELSE Ahead(Reached[n - 1])
<1>. DEFINE U == Visible \ Followed
            Upto(g, n) == g[0] = U /\ \A k \in 1 .. n : g[k] = Ahead(g[k - 1])
<1>1. ASSUME NEW n \in Nat
      PROVE  \E g : Upto(g, n)
  <2>. DEFINE None == {m \in Nat : ~ \E g : Upto(g, m)}
  <2>1. SUFFICES None = {}
    OBVIOUS
  <2>2. SUFFICES ASSUME None # {} PROVE FALSE
    OBVIOUS
  <2>3. PICK m \in None : \A k \in None : m <= k
    BY <2>2, LeastElement
  <2>4. CASE m = 0
    <3>1. Upto([k \in {0} |-> U], 0)
      OBVIOUS
    <3>. QED
      BY <2>3, <2>4, <3>1
  <2>5. CASE m # 0
    <3>0. m \in Nat /\ m - 1 \in Nat /\ ~ (m <= m - 1)
      BY <2>5
    <3>1. m - 1 \in Nat /\ m - 1 \notin None
      <4>. HIDE DEF None
      <4>. QED
        BY <2>3, <3>0
    <3>2. PICK g : Upto(g, m - 1)
      BY <3>1
    <3>. DEFINE h == [k \in 0 .. m |-> IF k = m THEN Ahead(g[m - 1]) ELSE g[k]]
    <3>3. h[0] = U
      BY <2>5, <3>2
    <3>4. ASSUME NEW k \in 1 .. m
          PROVE  h[k] = Ahead(h[k - 1])
      <4>1. h[k - 1] = g[k - 1]
        BY <2>3
      <4>2. CASE k = m
        BY <4>1, <4>2
      <4>3. CASE k # m
        <5>1. k \in 1 .. m - 1 /\ h[k] = g[k]
          BY <4>3
        <5>. QED
          BY <3>2, <4>1, <5>1
      <4>. QED
        BY <4>2, <4>3
    <3>5. Upto(h, m)
      BY <3>3, <3>4
    <3>. QED
      BY <2>3, <3>5
  <2>. QED
    BY <2>4, <2>5
<1>2. ASSUME NEW n \in Nat, NEW g, NEW h, Upto(g, n), Upto(h, n + 1)
      PROVE  g[n] = h[n]
  <2>. DEFINE Differ == {k \in 0 .. n : g[k] # h[k]}
  <2>1. SUFFICES ASSUME Differ # {} PROVE FALSE
    OBVIOUS
  <2>2. PICK k \in Differ : \A l \in Differ : k <= l
    <3>1. Differ \in SUBSET Nat
      OBVIOUS
    <3>. HIDE DEF Differ
    <3>. QED
      BY <2>1, <3>1, LeastElement
  <2>3. k # 0 /\ k - 1 \in 0 .. n /\ k - 1 \notin Differ
    BY <1>2, <2>2
  <2>4. g[k] = Ahead(g[k - 1]) /\ h[k] = Ahead(h[k - 1])
    BY <1>2, <2>2, <2>3
  <2>. QED
    BY <2>2, <2>3, <2>4
<1>. DEFINE G(n) == CHOOSE g : Upto(g, n)
            f == [n \in Nat |-> G(n)[n]]
<1>3. \A n \in Nat : Upto(G(n), n)
  BY <1>1
<1>4. ASSUME NEW n \in Nat
      PROVE  f[n] = IF n = 0 THEN U ELSE Ahead(f[n - 1])
  <2>1. CASE n = 0
    BY <1>3, <2>1
  <2>2. CASE n # 0
    <3>1. n - 1 \in Nat /\ (n - 1) + 1 = n
      BY <2>2
    <3>. HIDE DEF G, Upto
    <3>2. G(n - 1)[n - 1] = G(n)[n - 1]
      BY <1>2, <1>3, <3>1
    <3>. USE DEF Upto
    <3>3. G(n)[n] = Ahead(G(n)[n - 1])
      BY <1>3, <2>2
    <3>. QED
      BY <2>2, <3>1, <3>2, <3>3
  <2>. QED
    BY <2>1, <2>2
<1>. HIDE DEF G, U
<1>5. f = [n \in Nat |-> IF n = 0 THEN U ELSE Ahead(f[n - 1])]
  BY <1>4
<1>. HIDE DEF f
<1>6. Reached = [n \in Nat |-> IF n = 0 THEN U ELSE Ahead(Reached[n - 1])]
  BY <1>5 DEF Reached, U
<1>. QED
  BY <1>6 DEF U

-----------------------------------------------------------------------------
(* Reach: what is to follow is in it, and what it leads to.                *)

(* What a stage adds lies one step further back than what the stage before *)
(* added, so that as many stages as there are steps leave nothing to add.  *)
LEMMA ReachIsClosed ==
  ASSUME ReadingIInv, steps # <<>>,
         \A p \in Visible : p.step \in DOMAIN steps /\ p.at \in Nat
  PROVE  /\ Visible \ Followed \subseteq Reach
         /\ \A p \in Reach : \A c \in Covered(p) : c.type = "pointer" => c \in Reach
         /\ \A p \in Reach : p.step \in DOMAIN steps /\ p.at \in Nat
<1>. DEFINE n == Len(steps)
            New(k) == Reached[k + 1] \ Reached[k]
<1>1. n \in Nat \ {0} /\ DOMAIN steps = 1 .. n
  BY EmptySeq, LenProperties DEF ReadingIInv, ReadingTypeOK
<1>2. \A p : Covered(p) = {steps[p.step].text[j] : j \in p.at + 1 .. Len(steps[p.step].text)}
  BY DEF Covered
<1>3. ASSUME NEW p, p.step \in DOMAIN steps, p.at \in Nat,
             NEW c \in Covered(p), c.type = "pointer"
      PROVE  c.step \in DOMAIN steps /\ c.step < p.step /\ c.at \in Nat
  <2>1. PICK j \in p.at + 1 .. Len(steps[p.step].text) : c = steps[p.step].text[j]
    BY DEF Covered
  <2>2. steps[p.step].text \in Seq(Sound(p.step))
    BY <1>3 DEF ReadingIInv
  <2>3. j \in 1 .. Len(steps[p.step].text)
    BY <1>3, <2>1, <2>2, LenProperties
  <2>4. c \in Sound(p.step)
    BY <2>1, <2>2, <2>3, ElementOfSeq
  <2>. QED
    BY <1>1, <1>3, <2>4 DEF Sound, Cell
<1>4. \A k \in Nat : Reached[k + 1] = Ahead(Reached[k])
  BY ReachedIs
<1>5. \A k \in Nat : Reached[k] \subseteq Reached[k + 1]
  BY <1>4 DEF Ahead
<1>6. \A k \in Nat : \A p \in Reached[k] : p.step \in DOMAIN steps /\ p.at \in Nat
  <2>. DEFINE Odd == {k \in Nat : \E p \in Reached[k] : ~ (p.step \in DOMAIN steps /\ p.at \in Nat)}
  <2>1. SUFFICES ASSUME Odd # {} PROVE FALSE
    OBVIOUS
  <2>2. PICK k \in Odd : \A l \in Odd : k <= l
    BY <2>1, LeastElement
  <2>3. k # 0
    BY ReachedIs
  <2>4. k \in Nat /\ k - 1 \in Nat /\ (k - 1) + 1 = k /\ ~ (k <= k - 1)
    BY <2>3
  <2>5. k - 1 \notin Odd
    <3>. HIDE DEF Odd
    <3>. QED
      BY <2>2, <2>4
  <2>6. Reached[k] = Ahead(Reached[k - 1])
    BY <1>4, <2>4
  <2>. QED
    BY <1>3, <2>4, <2>5, <2>6 DEF Ahead
<1>7. \A k \in Nat : \A c \in New(k) : c.step <= n - (k + 1)
  <2>. DEFINE Far == {k \in Nat : ~ \A c \in New(k) : c.step <= n - (k + 1)}
  <2>1. SUFFICES ASSUME Far # {} PROVE FALSE
    OBVIOUS
  <2>2. PICK k \in Far : \A l \in Far : k <= l
    BY <2>1, LeastElement
  <2>3. PICK c \in New(k) : ~ (c.step <= n - (k + 1))
    BY <2>2
  <2>4. PICK p \in Reached[k] : c \in Covered(p) /\ c.type = "pointer"
    BY <1>4, <2>3 DEF Ahead
  <2>5. c.step < p.step /\ p.step \in 1 .. n /\ c.step \in 1 .. n
    BY <1>1, <1>3, <1>6, <2>4
  <2>6. CASE k = 0
    BY <1>1, <2>3, <2>5, <2>6
  <2>7. CASE k # 0
    <3>1. k \in Nat /\ k - 1 \in Nat /\ (k - 1) + 1 = k /\ ~ (k <= k - 1)
      BY <2>7
    <3>2. k - 1 \notin Far
      <4>. HIDE DEF Far
      <4>. QED
        BY <2>2, <3>1
    <3>3. p \notin Reached[k - 1]
      <4>1. SUFFICES ASSUME p \in Reached[k - 1] PROVE FALSE
        OBVIOUS
      <4>2. c \in Ahead(Reached[k - 1])
        BY <2>4, <4>1 DEF Ahead
      <4>. QED
        BY <1>4, <2>3, <3>1, <4>2
    <3>4. p \in New(k - 1)
      BY <2>4, <3>1, <3>3
    <3>5. p.step <= n - k
      <4>. HIDE DEF New, n
      <4>. QED
        BY <3>1, <3>2, <3>4
    <3>. QED
      BY <1>1, <2>3, <2>5, <3>1, <3>5
  <2>. QED
    BY <2>6, <2>7
<1>8. New(n) = {}
  <2>1. \A c \in New(n) : c.step \in DOMAIN steps /\ c.step <= n - (n + 1)
    BY <1>1, <1>6, <1>7
  <2>. QED
    BY <1>1, <2>1
<1>9. \A k \in Nat : Visible \ Followed \subseteq Reached[k]
  <2>. DEFINE Not == {k \in Nat : ~ (Visible \ Followed \subseteq Reached[k])}
  <2>1. SUFFICES ASSUME Not # {} PROVE FALSE
    OBVIOUS
  <2>2. PICK k \in Not : \A l \in Not : k <= l
    BY <2>1, LeastElement
  <2>3. k # 0
    BY ReachedIs
  <2>4. k \in Nat /\ k - 1 \in Nat /\ (k - 1) + 1 = k /\ ~ (k <= k - 1)
    BY <2>3
  <2>5. k - 1 \notin Not
    <3>. HIDE DEF Not
    <3>. QED
      BY <2>2, <2>4
  <2>. QED
    BY <1>5, <2>4, <2>5
<1>10. ASSUME NEW p \in Reach, NEW c \in Covered(p), c.type = "pointer"
       PROVE  c \in Reach
  <2>1. c \in Ahead(Reached[n])
    BY <1>10 DEF Reach, Ahead
  <2>2. c \in Reached[n + 1]
    BY <1>1, <1>4, <2>1
  <2>. QED
    BY <1>8, <2>2 DEF Reach
<1>. QED
  BY <1>1, <1>6, <1>9, <1>10 DEF Reach
-----------------------------------------------------------------------------
(* What a read returns: the text from its offset on, up to a window, and   *)
(* where text is left, the way to go on.                                   *)
LEMMA ReadTextHas ==
  ASSUME NEW t, NEW S, steps[t].text \in Seq(S), S \subseteq Cell,
         NEW o \in Nat, o < Len(steps[t].text),
         t \in Nat, Header \in S, EndMark \in S,
         \A e \in Nat : e < Len(steps[t].text) => Pointer(t, e) \in S
  PROVE  /\ ReadText(t, o) \in Seq(S) /\ ReadText(t, o) # <<>>
         /\ \A j \in 1 .. Len(steps[t].text) :
              o < j /\ j <= o + InlineChars =>
                \E k \in 1 .. Len(ReadText(t, o)) : ReadText(t, o)[k] = steps[t].text[j]
         /\ o + InlineChars < Len(steps[t].text) =>
              \E k \in 1 .. Len(ReadText(t, o)) :
                ReadText(t, o)[k] = Pointer(t, o + InlineChars)
<1>. DEFINE text == steps[t].text
            end == Least(o + InlineChars, Len(text))
            mid == SubSeq(text, o + 1, end)
            last == IF end < Len(text) THEN NextWindow(t, end) ELSE EndMark
<1>0. InlineChars \in Nat \ {0}
  BY ReadingAssumption
<1>1. /\ Len(text) \in Nat /\ end \in Nat /\ o + 1 <= end /\ end <= Len(text)
      /\ end = o + InlineChars \/ end = Len(text)
      /\ o + InlineChars < Len(text) => end = o + InlineChars
  BY <1>0, LenProperties DEF Least
<1>2. \A i \in o + 1 .. end : text[i] \in S
  BY <1>1, ElementOfSeq
<1>3. mid \in Seq(S) /\ Len(mid) = end - o /\ \A i \in 1 .. end - o : mid[i] = text[o + i]
  <2>. HIDE DEF text, end
  <2>1. o + 1 \in Int /\ end \in Int /\ end - (o + 1) + 1 = end - o
    BY <1>1
  <2>2. /\ mid \in Seq(S)
        /\ Len(mid) = IF o + 1 <= end THEN end - (o + 1) + 1 ELSE 0
        /\ \A i \in 1 .. end - (o + 1) + 1 : mid[i] = text[(o + 1) + i - 1]
    BY <1>2, <2>1, SubSeqProperties
  <2>3. \A i \in Int : (o + 1) + i - 1 = o + i
    OBVIOUS
  <2>. QED
    BY <1>1, <2>1, <2>2, <2>3
<1>4. last \in S
  BY <1>1 DEF NextWindow
<1>5. <<Header>> \in Seq(S) /\ <<last>> \in Seq(S) /\ Len(<<Header>>) = 1 /\ Len(<<last>>) = 1
  BY <1>4
<1>. DEFINE head == <<Header>> \o mid
            all == head \o <<last>>
<1>6. /\ head \in Seq(S) /\ Len(head) = 1 + (end - o)
      /\ \A i \in 1 .. 1 + (end - o) : head[i] = IF i <= 1 THEN <<Header>>[i] ELSE mid[i - 1]
  <2>. HIDE DEF mid, end, last
  <2>. QED
    BY <1>3, <1>5, ConcatProperties
<1>7. /\ all \in Seq(S) /\ Len(all) = (1 + (end - o)) + 1
      /\ \A i \in 1 .. (1 + (end - o)) + 1 :
           all[i] = IF i <= 1 + (end - o) THEN head[i] ELSE <<last>>[i - (1 + (end - o))]
  <2>. HIDE DEF head, end, last
  <2>. QED
    BY <1>5, <1>6, ConcatProperties
<1>8. ReadText(t, o) = all
  BY DEF ReadText
<1>. HIDE DEF all, head, mid, end, last
<1>9. all # <<>>
  BY <1>1, <1>7, EmptySeq
<1>10. ASSUME NEW j \in 1 .. Len(text), o < j, j <= o + InlineChars
       PROVE  1 + (j - o) \in 1 .. Len(all) /\ all[1 + (j - o)] = text[j]
  <2>1. j <= end
    BY <1>0, <1>1, <1>10
  <2>2. /\ j - o \in 1 .. end - o /\ 1 + (j - o) \in 1 .. 1 + (end - o)
        /\ 1 + (j - o) \in 1 .. (1 + (end - o)) + 1 /\ ~ (1 + (j - o) <= 1)
        /\ (1 + (j - o)) - 1 = j - o /\ o + (j - o) = j
    BY <1>1, <1>10, <2>1
  <2>3. all[1 + (j - o)] = head[1 + (j - o)] /\ head[1 + (j - o)] = mid[j - o]
    BY <1>6, <1>7, <2>2
  <2>. QED
    BY <1>3, <1>7, <2>2, <2>3
<1>11. ASSUME o + InlineChars < Len(text)
       PROVE  /\ (1 + (end - o)) + 1 \in 1 .. Len(all)
              /\ all[(1 + (end - o)) + 1] = Pointer(t, o + InlineChars)
  <2>1. end = o + InlineChars /\ end < Len(text)
    BY <1>1, <1>11
  <2>2. last = Pointer(t, o + InlineChars)
    BY <2>1 DEF last, NextWindow
  <2>3. /\ (1 + (end - o)) + 1 \in 1 .. (1 + (end - o)) + 1
        /\ ~ ((1 + (end - o)) + 1 <= 1 + (end - o))
        /\ ((1 + (end - o)) + 1) - (1 + (end - o)) = 1
    BY <1>1
  <2>. QED
    BY <1>7, <2>2, <2>3
<1>. QED
  BY <1>7, <1>8, <1>9, <1>10, <1>11

(* What a find returns: nothing but cells of the text, after a header.     *)
LEMMA FindTextHas ==
  ASSUME NEW t, NEW S, steps[t].text \in Seq(S), Header \in S
  PROVE  FindText(t) \in Seq(S) /\ FindText(t) # <<>>
<1>. DEFINE text == steps[t].text
            hits == {i \in DOMAIN text : text[i].type = "doc" /\ text[i].at \in Hits}
            half == Most(MinHalf, InlineChars \div (2 * Least(3, Cardinality(hits))))
            Window(hs) == IF hs = {} THEN <<>> ELSE Around(text, FirstOf(hs), half)
<1>1. Len(text) \in Nat /\ DOMAIN text = 1 .. Len(text)
  BY LenProperties
<1>2. IsFiniteSet(hits) /\ Cardinality(hits) \in Nat
  <2>1. IsFiniteSet(1 .. Len(text))
    BY <1>1, FS_Interval
  <2>. QED
    BY <1>1, <2>1, FS_Subset, FS_CardinalityType
<1>3. hits # {} => half \in Nat
  <2>1. hits # {} => Cardinality(hits) # 0
    BY <1>2, FS_EmptySet
  <2>2. ASSUME hits # {} PROVE 2 * Least(3, Cardinality(hits)) \in Nat \ {0}
    BY <1>2, <2>1, <2>2 DEF Least
  <2>3. ASSUME NEW k \in Nat \ {0} PROVE InlineChars \div k \in Nat
    BY ReadingAssumption
  <2>. QED
    BY <2>2, <2>3, ReadingAssumption DEF Most
<1>. HIDE DEF half
<1>4. ASSUME NEW hs \in SUBSET hits
      PROVE  Window(hs) \in Seq(S)
  <2>1. CASE hs = {}
    BY <2>1, EmptySeq
  <2>2. CASE hs # {}
    <3>1. hs \in SUBSET Nat
      BY <1>1
    <3>2. FirstOf(hs) \in hs
      BY <2>2, <3>1, LeastElement DEF FirstOf
    <3>. DEFINE h == FirstOf(hs)
                a == IF h > half THEN h - half ELSE 1
                b == Least(h + half - 1, Len(text))
    <3>3. h \in 1 .. Len(text) /\ half \in Nat
      BY <1>1, <1>3, <2>2, <3>2
    <3>4. a \in Int /\ b \in Int /\ 1 <= a /\ b <= Len(text)
      <4>. HIDE DEF h
      <4>. QED
        BY <1>1, <3>3 DEF Least
    <3>. HIDE DEF a, b
    <3>5. \A i \in a .. b : text[i] \in S
      BY <1>1, <3>4, ElementOfSeq
    <3>6. SubSeq(text, a, b) \in Seq(S)
      BY <3>4, <3>5, SubSeqProperties
    <3>. QED
      BY <2>2, <3>6 DEF Around, a, b
  <2>. QED
    BY <2>1, <2>2
<1>. DEFINE w1 == Window(hits)
            w2 == Window(After(hits))
            w3 == Window(After(After(hits)))
<1>5. w1 \in Seq(S) /\ w2 \in Seq(S) /\ w3 \in Seq(S)
  <2>1. After(hits) \subseteq hits /\ After(After(hits)) \subseteq hits
    BY DEF After
  <2>. HIDE DEF Window
  <2>. QED
    BY <1>4, <2>1
<1>6. FindText(t) = <<Header>> \o w1 \o w2 \o w3
  BY DEF FindText, half
<1>. HIDE DEF w1, w2, w3
<1>7. <<Header>> \in Seq(S) /\ Len(<<Header>>) = 1
  OBVIOUS
<1>8. <<Header>> \o w1 \in Seq(S) /\ Len(<<Header>> \o w1) >= 1
  <2>1. Len(w1) \in Nat
    BY <1>5, LenProperties
  <2>. QED
    BY <1>5, <1>7, <2>1, ConcatProperties
<1>9. (<<Header>> \o w1) \o w2 \in Seq(S) /\ Len((<<Header>> \o w1) \o w2) >= 1
  <2>1. Len(w2) \in Nat /\ Len(<<Header>> \o w1) \in Nat
    BY <1>5, <1>8, LenProperties
  <2>2. Len((<<Header>> \o w1) \o w2) = Len(<<Header>> \o w1) + Len(w2)
    BY <1>5, <1>8, ConcatProperties
  <2>. QED
    BY <1>5, <1>8, <2>1, <2>2, ConcatProperties
<1>10. ((<<Header>> \o w1) \o w2) \o w3 \in Seq(S) /\ Len(((<<Header>> \o w1) \o w2) \o w3) >= 1
  <2>1. Len(w3) \in Nat /\ Len((<<Header>> \o w1) \o w2) \in Nat
    BY <1>5, <1>9, LenProperties
  <2>2. Len(((<<Header>> \o w1) \o w2) \o w3) = Len((<<Header>> \o w1) \o w2) + Len(w3)
    BY <1>5, <1>9, ConcatProperties
  <2>. QED
    BY <1>5, <1>9, <2>1, <2>2, ConcatProperties
<1>. QED
  BY <1>6, <1>10, EmptySeq
-----------------------------------------------------------------------------
(* What a prompt shows of a step.                                          *)
LEMMA BodyHas ==
  ASSUME NEW ss, NEW i, NEW S, ss[i].text \in Seq(S), keep \in Nat
  PROVE  /\ i + keep <= Len(ss) => Range(Body(ss, i)) = {Pointer(i, 0)}
         /\ ~ (i + keep <= Len(ss)) /\ Len(ss[i].text) > InlineChars =>
              Range(Body(ss, i)) =
                {ss[i].text[j] : j \in 1 .. InlineChars} \cup {Pointer(i, InlineChars)}
         /\ ~ (i + keep <= Len(ss)) /\ ~ (Len(ss[i].text) > InlineChars) =>
              Range(Body(ss, i)) = {ss[i].text[j] : j \in 1 .. Len(ss[i].text)}
<1>. DEFINE text == ss[i].text
<1>0. InlineChars \in Nat \ {0} /\ Len(text) \in Nat /\ DOMAIN text = 1 .. Len(text)
  BY ReadingAssumption, LenProperties
<1>1. ASSUME i + keep <= Len(ss)
      PROVE  Range(Body(ss, i)) = {Pointer(i, 0)}
  <2>1. Body(ss, i) = <<Pointer(i, 0)>>
    BY <1>1 DEF Body
  <2>2. DOMAIN <<Pointer(i, 0)>> = {1} /\ <<Pointer(i, 0)>>[1] = Pointer(i, 0)
    OBVIOUS
  <2>. QED
    BY <2>1, <2>2 DEF Range
<1>2. ASSUME ~ (i + keep <= Len(ss)), Len(text) > InlineChars
      PROVE  Range(Body(ss, i)) = {text[j] : j \in 1 .. InlineChars} \cup {Pointer(i, InlineChars)}
  <2>. DEFINE T == S \cup {Pointer(i, InlineChars)}
              cut == SubSeq(text, 1, InlineChars)
              all == Append(cut, Pointer(i, InlineChars))
  <2>1. Body(ss, i) = all
    BY <1>2 DEF Body, MoreOf
  <2>2. \A j \in 1 .. InlineChars : text[j] \in T
    BY <1>0, <1>2, ElementOfSeq
  <2>3. cut \in Seq(T) /\ Len(cut) = InlineChars /\ \A j \in 1 .. InlineChars : cut[j] = text[j]
    <3>. HIDE DEF text
    <3>1. /\ cut \in Seq(T)
          /\ Len(cut) = IF 1 <= InlineChars THEN InlineChars - 1 + 1 ELSE 0
          /\ \A j \in 1 .. InlineChars - 1 + 1 : cut[j] = text[1 + j - 1]
      BY <1>0, <2>2, SubSeqProperties
    <3>. QED
      BY <1>0, <3>1
  <2>. HIDE DEF cut
  <2>4. /\ all \in Seq(T) /\ Len(all) = InlineChars + 1
        /\ \A j \in 1 .. InlineChars : all[j] = cut[j]
        /\ all[InlineChars + 1] = Pointer(i, InlineChars)
    BY <2>3, AppendProperties
  <2>. HIDE DEF all
  <2>5. DOMAIN all = 1 .. InlineChars + 1
    BY <2>4, LenProperties
  <2>6. 1 .. InlineChars + 1 = (1 .. InlineChars) \cup {InlineChars + 1}
    BY <1>0
  <2>7. Range(all) = {all[j] : j \in 1 .. InlineChars} \cup {all[InlineChars + 1]}
    BY <2>5, <2>6 DEF Range
  <2>. QED
    BY <2>1, <2>3, <2>4, <2>7
<1>3. ASSUME ~ (i + keep <= Len(ss)), ~ (Len(text) > InlineChars)
      PROVE  Range(Body(ss, i)) = {text[j] : j \in 1 .. Len(text)}
  <2>1. Body(ss, i) = text
    BY <1>3 DEF Body
  <2>. QED
    BY <1>0, <2>1 DEF Range
<1>. QED
  BY <1>1, <1>2, <1>3

(* The cells of a prompt are cells, and its pointers lead to text there is.*)
LEMMA PromptSound ==
  ASSUME NEW ss, NEW n \in Nat, DOMAIN ss = 1 .. n, Len(ss) = n, keep \in Nat,
         NEW S, S \subseteq Cell,
         \A i \in 1 .. n : ss[i].text \in Seq(S) /\ ss[i].text # <<>>,
         \A i \in 1 .. n : \A e \in Nat : e < Len(ss[i].text) => Pointer(i, e) \in S
  PROVE  Prompt(ss) \subseteq S
<1>. SUFFICES ASSUME NEW i \in 1 .. n PROVE Range(Body(ss, i)) \subseteq S
  BY DEF Prompt
<1>. DEFINE text == ss[i].text
<1>1. InlineChars \in Nat /\ Len(text) \in Nat \ {0}
  BY ReadingAssumption, EmptySeq
<1>2. \A j \in 1 .. Len(text) : text[j] \in S
  BY ElementOfSeq
<1>3. CASE i + keep <= Len(ss)
  BY <1>1, <1>3, BodyHas
<1>4. CASE ~ (i + keep <= Len(ss)) /\ Len(text) > InlineChars
  <2>1. 1 .. InlineChars \subseteq 1 .. Len(text)
    BY <1>1, <1>4
  <2>2. Range(Body(ss, i)) = {text[j] : j \in 1 .. InlineChars} \cup {Pointer(i, InlineChars)}
    BY <1>4, BodyHas
  <2>3. \A j \in 1 .. InlineChars : text[j] \in S
    BY <1>2, <2>1
  <2>4. Pointer(i, InlineChars) \in S
    BY <1>1, <1>4
  <2>. HIDE DEF text
  <2>. QED
    BY <2>2, <2>3, <2>4
<1>5. CASE ~ (i + keep <= Len(ss)) /\ ~ (Len(text) > InlineChars)
  <2>1. Range(Body(ss, i)) = {text[j] : j \in 1 .. Len(text)}
    BY <1>5, BodyHas
  <2>. QED
    BY <1>2, <2>1
<1>. QED
  BY <1>3, <1>4, <1>5

LEMMA SoundCells ==
  ASSUME ReadingIInv
  PROVE  /\ Len(steps) \in Nat /\ DOMAIN steps = 1 .. Len(steps) /\ keep \in Nat
         /\ \A t \in Nat : Sound(t) \subseteq Cell /\ Header \in Sound(t) /\ EndMark \in Sound(t)
         /\ \A t \in 1 .. Len(steps) :
              /\ steps[t].text \in Seq(Sound(Len(steps) + 1)) /\ steps[t].text # <<>>
              /\ steps[t].text \in Seq(Cell)
              /\ \A e \in Nat : e < Len(steps[t].text) => Pointer(t, e) \in Sound(Len(steps) + 1)
<1>1. Len(steps) \in Nat /\ DOMAIN steps = 1 .. Len(steps) /\ keep \in Nat
  BY ReadingAssumption, LenProperties DEF ReadingIInv, ReadingTypeOK
<1>2. \A t \in Nat : Sound(t) \subseteq Cell /\ Header \in Sound(t) /\ EndMark \in Sound(t)
  BY DEF Sound, Cell, Header, EndMark
<1>3. ASSUME NEW t \in 1 .. Len(steps)
      PROVE  /\ steps[t].text \in Seq(Sound(Len(steps) + 1)) /\ steps[t].text # <<>>
             /\ steps[t].text \in Seq(Cell)
             /\ \A e \in Nat : e < Len(steps[t].text) => Pointer(t, e) \in Sound(Len(steps) + 1)
  <2>1. Sound(t) \subseteq Sound(Len(steps) + 1)
    BY <1>1 DEF Sound
  <2>2. steps[t].text \in Seq(Sound(t)) /\ steps[t].text # <<>>
    BY <1>1 DEF ReadingIInv
  <2>3. steps[t].text \in Seq(Sound(Len(steps) + 1))
    BY <2>1, <2>2, SeqMonotonic
  <2>4. steps[t].text \in Seq(Cell)
    BY <1>2, <2>2, SeqMonotonic
  <2>5. \A e \in Nat : e < Len(steps[t].text) => Pointer(t, e) \in Sound(Len(steps) + 1)
    BY <1>1 DEF Sound, Cell, Pointer
  <2>. QED
    BY <2>2, <2>3, <2>4, <2>5
<1>. QED
  BY <1>1, <1>2, <1>3

(* PointersWork is what makes a read a read of something.                  *)
LEMMA VisibleSound ==
  ASSUME ReadingIInv
  PROVE  /\ Visible \subseteq Sound(Len(steps) + 1) /\ PointersWork
         /\ \A p \in Visible : p.step \in 1 .. Len(steps) /\ p.at \in Nat /\ p.type = "pointer"
<1>1. Prompt(steps) \subseteq Sound(Len(steps) + 1)
  <2>. DEFINE n == Len(steps)
              S == Sound(n + 1)
  <2>1. n \in Nat /\ DOMAIN steps = 1 .. n /\ keep \in Nat /\ n + 1 \in Nat
    BY SoundCells
  <2>2. S \subseteq Cell
    BY <2>1, SoundCells
  <2>3. \A t \in 1 .. n : /\ steps[t].text \in Seq(S) /\ steps[t].text # <<>>
                          /\ \A e \in Nat : e < Len(steps[t].text) => Pointer(t, e) \in S
    BY SoundCells
  <2>4. Len(steps) = n
    OBVIOUS
  <2>. HIDE DEF S, n
  <2>5. Prompt(steps) \subseteq S
    BY <2>1, <2>2, <2>3, <2>4, PromptSound
  <2>. QED
    BY <2>5 DEF S, n
<1>2. \A p \in Visible : p \in Sound(Len(steps) + 1) /\ p.type = "pointer"
  BY <1>1 DEF Visible
<1>. QED
  BY <1>2, SoundCells DEF Sound, PointersWork, Cell
-----------------------------------------------------------------------------
(* A step is recorded.                                                     *)
LEMMA RecordKeeps ==
  ASSUME ReadingIInv, NEW text \in Seq(Sound(Len(steps) + 1)), NEW read \in PointerCell,
         text # <<>>, Record(text, read),
         steps = <<>> => text = Document /\ read = NoPointer,
         steps # <<>> => \/ read = Word
                         \/ read.step \in 1 .. Len(steps) /\ text = ReadText(read.step, read.at)
  PROVE  ReadingIInv'
<1>. DEFINE n == Len(steps)
            new == [text |-> text, read |-> read]
            Step == [text : Seq(Cell), read : PointerCell]
<1>1. n \in Nat /\ DOMAIN steps = 1 .. n /\ keep \in Nat /\ steps \in Seq(Step)
  BY SoundCells DEF ReadingIInv, ReadingTypeOK
<1>2. text \in Seq(Cell)
  <2>1. Sound(n + 1) \subseteq Cell
    BY DEF Sound
  <2>. HIDE DEF n
  <2>. QED
    BY <2>1, SeqMonotonic DEF n
<1>3. /\ steps' \in Seq(Step) /\ Len(steps') = n + 1 /\ DOMAIN steps' = 1 .. n + 1
      /\ \A t \in 1 .. n : steps'[t] = steps[t]
      /\ steps'[n + 1] = new
  <2>1. steps' = Append(steps, new) /\ new \in Step
    BY <1>2 DEF Record
  <2>. HIDE DEF new, Step
  <2>2. /\ steps' \in Seq(Step) /\ Len(steps') = n + 1
        /\ \A t \in 1 .. n : steps'[t] = steps[t]
        /\ steps'[n + 1] = new
    BY <1>1, <2>1, AppendProperties
  <2>. QED
    BY <2>2, LenProperties
<1>4. \A t \in 1 .. n + 1 : Sound(t)' = Sound(t)
  <2>. SUFFICES ASSUME NEW t \in 1 .. n + 1 PROVE Sound(t)' = Sound(t)
    OBVIOUS
  <2>1. \A k \in 1 .. t - 1 : steps'[k] = steps[k]
    <3>1. n \in Nat /\ \A k \in 1 .. t - 1 : k \in 1 .. n
      BY <1>1
    <3>. QED
      BY <1>3, <3>1
  <2>. QED
    BY <2>1 DEF Sound
<1>5. \A t \in 1 .. n + 1 : steps'[t].text \in Seq(Sound(t)') /\ steps'[t].text # <<>>
  <2>1. \A t \in 1 .. n : steps[t].text \in Seq(Sound(t)) /\ steps[t].text # <<>>
    BY <1>1 DEF ReadingIInv
  <2>2. \A t \in 1 .. n + 1 : t \in 1 .. n \/ t = n + 1
    BY <1>1
  <2>. QED
    BY <1>3, <1>4, <2>1, <2>2
<1>6. \A t \in 1 .. n : \A o : ReadText(t, o)' = ReadText(t, o)
  BY <1>3 DEF ReadText, NextWindow
<1>7. ASSUME NEW t \in 1 .. n + 1
      PROVE  ReadsBack(t)'
  <2>1. CASE t \in 1 .. n
    <3>1. steps'[t] = steps[t] /\ ReadsBack(t)
      BY <1>1, <1>3, <2>1 DEF ReadingIInv
    <3>2. 1 .. t - 1 \subseteq 1 .. n
      BY <1>1, <2>1
    <3>. QED
      BY <1>6, <3>1, <3>2 DEF ReadsBack
  <2>2. CASE t = n + 1
    <3>1. t # 1 => steps # <<>>
      BY <1>1, <2>2
    <3>2. t - 1 = n
      BY <1>1, <2>2
    <3>3. steps'[t].read = read /\ steps'[t].text = text
      BY <1>3, <2>2
    <3>. QED
      BY <1>6, <3>1, <3>2, <3>3 DEF ReadsBack
  <2>. QED
    BY <1>1, <2>1, <2>2
<1>8. steps'[1] = [text |-> Document, read |-> NoPointer]
  <2>1. CASE steps = <<>>
    <3>1. n + 1 = 1
      BY <2>1
    <3>. QED
      BY <1>3, <2>1, <3>1
  <2>2. CASE steps # <<>>
    <3>1. 1 \in 1 .. n
      BY <1>1, <2>2, EmptySeq
    <3>. QED
      BY <1>3, <2>2, <3>1 DEF ReadingIInv
  <2>. QED
    BY <2>1, <2>2
<1>9. Prompt(steps') \subseteq Cell
  <2>1. \A t \in 1 .. n + 1 : /\ steps'[t].text \in Seq(Cell)
                              /\ \A e \in Nat : Pointer(t, e) \in Cell
    <3>1. \A t \in 1 .. n + 1 : steps'[t] \in Step
      BY <1>3, ElementOfSeq
    <3>. QED
      BY <1>1, <3>1 DEF Cell, Pointer
  <2>2. \A t \in 1 .. n + 1 : steps'[t].text # <<>>
    BY <1>5
  <2>3. n + 1 \in Nat
    BY <1>1
  <2>. DEFINE ss == steps'
              m == n + 1
  <2>4. /\ m \in Nat /\ DOMAIN ss = 1 .. m /\ Len(ss) = m
        /\ \A i \in 1 .. m : ss[i].text \in Seq(Cell) /\ ss[i].text # <<>>
        /\ \A i \in 1 .. m : \A e \in Nat : e < Len(ss[i].text) => Pointer(i, e) \in Cell
    BY <1>3, <2>1, <2>2, <2>3
  <2>. HIDE DEF ss, m
  <2>5. Prompt(ss) \subseteq Cell
    BY <1>1, <2>4, PromptSound
  <2>. QED
    BY <2>5 DEF ss
<1>10. keep' = keep /\ seen' = seen \cup Prompt(steps')
  BY DEF Record
<1>11. Prompt(steps)' = Prompt(steps')
  BY <1>10 DEF Prompt, Body, MoreOf
<1>12. ReadingTypeOK'
  <2>1. n + 1 <= MaxSteps
    BY <1>1, ReadingAssumption DEF Record
  <2>. QED
    BY <1>3, <1>9, <1>10, <2>1 DEF ReadingTypeOK, ReadingIInv
<1>. QED
  BY <1>3, <1>5, <1>7, <1>8, <1>10, <1>11, <1>12 DEF ReadingIInv

LEMMA ReadingInitIInv == ReadingInit => ReadingIInv
<1>. SUFFICES ASSUME ReadingInit PROVE ReadingIInv
  OBVIOUS
<1>1. steps = <<>> /\ seen = {} /\ keep \in Keeps /\ DOMAIN steps = {}
  BY DEF ReadingInit
<1>2. steps \in Seq([text : Seq(Cell), read : PointerCell]) /\ Len(steps) = 0
  BY <1>1, EmptySeq
<1>3. Prompt(steps) = {}
  BY <1>1 DEF Prompt
<1>. QED
  BY <1>1, <1>2, <1>3, ReadingAssumption DEF ReadingIInv, ReadingTypeOK

LEMMA ReadingNextIInv == ReadingIInv /\ [ReadingNext]_readingVars => ReadingIInv'
<1>. SUFFICES ASSUME ReadingIInv, [ReadingNext]_readingVars PROVE ReadingIInv'
  OBVIOUS
<1>. DEFINE n == Len(steps)
<1>0. /\ n \in Nat /\ n + 1 \in Nat /\ DOMAIN steps = 1 .. n
      /\ NoPointer \in PointerCell /\ Word \in PointerCell
  BY SoundCells DEF PointerCell, Cell, NoPointer, Word, Pointer
<1>1. CASE Fetch
  <2>1. steps = <<>> /\ n = 0 /\ Record(Document, NoPointer)
    BY <1>1 DEF Fetch
  <2>2. \A i \in 1 .. DocLength : Doc(i) \in Sound(n + 1)
    BY ReadingAssumption DEF Doc, Sound, Cell
  <2>3. DocLength \in Nat \ {0}
    BY ReadingAssumption
  <2>4. Document \in Seq(Sound(n + 1)) /\ Document # <<>>
    <3>1. Document \in [1 .. DocLength -> Sound(n + 1)]
      BY <2>2 DEF Document
    <3>2. Document \in Seq(Sound(n + 1))
      BY <2>3, <3>1, SeqDef
    <3>3. 1 \in DOMAIN Document
      BY <2>3, <3>1
    <3>. QED
      BY <3>2, <3>3
  <2>. QED
    BY <1>0, <2>1, <2>4, RecordKeeps
<1>2. CASE Follow
  <2>1. PICK p \in Visible \ Followed : Record(ReadText(p.step, p.at), p)
    BY <1>2 DEF Follow
  <2>2. p.step \in 1 .. n /\ p.at \in Nat /\ p.at < Len(steps[p.step].text) /\ p \in PointerCell
    BY <2>1, VisibleSound DEF PointersWork, Sound, PointerCell
  <2>3. ReadText(p.step, p.at) \in Seq(Sound(n + 1)) /\ ReadText(p.step, p.at) # <<>>
    <3>. DEFINE S == Sound(n + 1)
                t == p.step
    <3>1. /\ S \subseteq Cell /\ Header \in S /\ EndMark \in S /\ t \in Nat
          /\ steps[t].text \in Seq(S)
          /\ \A e \in Nat : e < Len(steps[t].text) => Pointer(t, e) \in S
      BY <1>0, <2>2, SoundCells
    <3>2. t \in Nat /\ p.at \in Nat /\ p.at < Len(steps[t].text)
      BY <2>2, <3>1
    <3>. HIDE DEF S, t
    <3>3. ReadText(t, p.at) \in Seq(S) /\ ReadText(t, p.at) # <<>>
      BY <3>1, <3>2, ReadTextHas
    <3>. QED
      BY <3>3 DEF S, t
  <2>4. steps # <<>>
    BY <1>0, <2>2
  <2>. QED
    BY <2>1, <2>2, <2>3, <2>4, RecordKeeps
<1>3. CASE Find
  <2>1. PICK t \in 1 .. n : Record(FindText(t), Word)
    BY <1>0, <1>3 DEF Find
  <2>2. FindText(t) \in Seq(Sound(n + 1)) /\ FindText(t) # <<>>
    <3>. DEFINE S == Sound(n + 1)
    <3>1. steps[t].text \in Seq(S) /\ Header \in S
      BY <1>0, SoundCells
    <3>. HIDE DEF S
    <3>2. FindText(t) \in Seq(S) /\ FindText(t) # <<>>
      BY <3>1, FindTextHas
    <3>. QED
      BY <3>2 DEF S
  <2>3. steps # <<>>
    BY <1>0
  <2>. QED
    BY <1>0, <2>1, <2>2, <2>3, RecordKeeps
<1>4. CASE UNCHANGED readingVars
  <2>1. Prompt(steps)' = Prompt(steps)
    BY <1>4 DEF readingVars, Prompt, Body, MoreOf
  <2>2. \A t : Sound(t)' = Sound(t) /\ ReadsBack(t)' = ReadsBack(t)
    BY <1>4 DEF readingVars, Sound, ReadsBack, ReadText, NextWindow
  <2>. QED
    BY <1>4, <2>1, <2>2 DEF readingVars, ReadingIInv, ReadingTypeOK
<1>. QED
  BY <1>1, <1>2, <1>3, <1>4 DEF ReadingNext
-----------------------------------------------------------------------------
(* Nothing is hidden                                                       *)

(* If a cell of the document were neither seen nor ahead, call it missed,  *)
(* and so any pointer out of reach. Whatever pointer covers something      *)
(* missed is missed, and a prompt that shows a missed pointer shows one    *)
(* that has been followed. So what is missed in a step is missed in a      *)
(* later one, and there is a last step.                                    *)
LEMMA HiddenNot ==
  ASSUME ReadingIInv, steps # <<>>, NEW i \in 1 .. DocLength, Doc(i) \notin seen
  PROVE  \E p \in Reach : Doc(i) \in Covered(p)
<1>. DEFINE n == Len(steps)
            Missed(c) == c = Doc(i) \/ (c.type = "pointer" /\ c \notin Reach)
<1>. SUFFICES ASSUME \A p \in Reach : Doc(i) \notin Covered(p) PROVE FALSE
  OBVIOUS
<1>0. n \in Nat \ {0} /\ DOMAIN steps = 1 .. n /\ InlineChars \in Nat \ {0} /\ keep \in Nat
  BY SoundCells, EmptySeq, ReadingAssumption DEF ReadingIInv, ReadingTypeOK
<1>1. \A p \in Reach : \A c \in Covered(p) : ~ Missed(c)
  BY VisibleSound, ReachIsClosed, <1>0
<1>2. \A p \in Visible : Missed(p) => p \in Followed
  <2>1. Visible \ Followed \subseteq Reach /\ \A p \in Visible : p # Doc(i)
    BY <1>0, VisibleSound, ReachIsClosed DEF Doc, Visible
  <2>. QED
    BY <2>1
<1>3. \A t \in 1 .. n : /\ steps[t].text \in Seq(Cell) /\ Len(steps[t].text) \in Nat
                        /\ DOMAIN steps[t].text = 1 .. Len(steps[t].text)
  BY SoundCells, LenProperties
(* A way into step t that covers something missed is missed itself.        *)
<1>4. ASSUME NEW t \in 1 .. n, NEW o \in Nat, NEW j \in 1 .. Len(steps[t].text), o < j,
             Missed(steps[t].text[j])
      PROVE  Missed(Pointer(t, o))
  <2>1. steps[t].text[j] \in Covered(Pointer(t, o))
    <3>1. j \in o + 1 .. Len(steps[t].text)
      BY <1>3, <1>4
    <3>. QED
      BY <3>1 DEF Covered, Pointer
  <2>2. Pointer(t, o) \notin Reach
    BY <1>1, <1>4, <2>1
  <2>. QED
    BY <2>2 DEF Pointer
(* What is followed into step t is a later step, and has its text.         *)
<1>5. ASSUME NEW t \in 1 .. n, NEW o \in Nat, Pointer(t, o) \in Followed, o < Len(steps[t].text)
      PROVE  \E u \in t + 1 .. n :
               /\ \A j \in 1 .. Len(steps[t].text) :
                    o < j /\ j <= o + InlineChars =>
                      \E k \in 1 .. Len(steps[u].text) : steps[u].text[k] = steps[t].text[j]
               /\ o + InlineChars < Len(steps[t].text) =>
                    \E k \in 1 .. Len(steps[u].text) :
                      steps[u].text[k] = Pointer(t, o + InlineChars)
  <2>1. PICK u \in 1 .. n : steps[u].read = Pointer(t, o)
    BY <1>0, <1>5 DEF Followed
  <2>2. u # 1 /\ Pointer(t, o) # Word
    <3>1. Pointer(t, o).step = t /\ t # 0
      BY <1>0 DEF Pointer
    <3>2. Word.step = 0 /\ NoPointer.step = 0
      BY DEF Word, NoPointer, Pointer
    <3>3. steps[1].read = NoPointer
      BY DEF ReadingIInv
    <3>. QED
      BY <2>1, <3>1, <3>2, <3>3
  <2>3. Pointer(t, o).step = t /\ Pointer(t, o).at = o
    BY DEF Pointer
  <2>4. ReadsBack(u)
    BY <1>0 DEF ReadingIInv
  <2>5. t \in 1 .. u - 1 /\ steps[u].text = ReadText(t, o)
    BY <2>1, <2>2, <2>3, <2>4 DEF ReadsBack
  <2>6. u \in t + 1 .. n
    BY <1>0, <2>5
  <2>7. /\ \A j \in 1 .. Len(steps[t].text) :
             o < j /\ j <= o + InlineChars =>
               \E k \in 1 .. Len(ReadText(t, o)) : ReadText(t, o)[k] = steps[t].text[j]
        /\ o + InlineChars < Len(steps[t].text) =>
             \E k \in 1 .. Len(ReadText(t, o)) : ReadText(t, o)[k] = Pointer(t, o + InlineChars)
    <3>. DEFINE S == Sound(n + 1)
    <3>1. /\ S \subseteq Cell /\ Header \in S /\ EndMark \in S /\ t \in Nat
          /\ steps[t].text \in Seq(S)
          /\ \A e \in Nat : e < Len(steps[t].text) => Pointer(t, e) \in S
      BY <1>0, SoundCells
    <3>. HIDE DEF S
    <3>. QED
      BY <1>5, <3>1, ReadTextHas
  <2>. QED
    BY <2>5, <2>6, <2>7
(* Where something of step t is missed, a way into the text before it has  *)
(* been followed, unless the prompt shows it.                              *)
<1>6. ASSUME NEW t \in 1 .. n, NEW j \in 1 .. Len(steps[t].text), Missed(steps[t].text[j])
      PROVE  \/ steps[t].text[j] \in Followed
             \/ \E o \in Nat : o < j /\ Pointer(t, o) \in Followed
  <2>1. Range(Body(steps, t)) \subseteq Prompt(steps) /\ Prompt(steps) \subseteq seen
    BY <1>0 DEF Prompt, ReadingIInv
  <2>2. \A c : c \in Range(Body(steps, t)) /\ Missed(c) => c \in Followed
    BY <1>2, <2>1 DEF Visible
  <2>3. \A o \in Nat : Pointer(t, o).type = "pointer" /\ (o < j => Missed(Pointer(t, o)))
    BY <1>4, <1>6 DEF Pointer
  <2>4. CASE t + keep <= n
    <3>1. Pointer(t, 0) \in Range(Body(steps, t))
      <4>1. Range(Body(steps, t)) = {Pointer(t, 0)}
        BY <1>0, <1>3, <2>4, BodyHas
      <4>. QED
        BY <4>1
    <3>. QED
      BY <2>2, <2>3, <3>1
  <2>5. CASE ~ (t + keep <= n) /\ Len(steps[t].text) > InlineChars
    <3>1. Range(Body(steps, t)) =
            {steps[t].text[k] : k \in 1 .. InlineChars} \cup {Pointer(t, InlineChars)}
      BY <1>0, <1>3, <2>5, BodyHas
    <3>2. CASE j <= InlineChars
      <4>1. j \in 1 .. InlineChars
        BY <1>0, <1>3, <3>2
      <4>. QED
        BY <1>6, <2>2, <3>1, <4>1
    <3>3. CASE ~ (j <= InlineChars)
      <4>1. InlineChars < j /\ InlineChars \in Nat
        BY <1>0, <1>3, <3>3
      <4>. QED
        BY <2>2, <2>3, <3>1, <4>1
    <3>. QED
      BY <3>2, <3>3
  <2>6. CASE ~ (t + keep <= n) /\ ~ (Len(steps[t].text) > InlineChars)
    <3>1. Range(Body(steps, t)) = {steps[t].text[k] : k \in 1 .. Len(steps[t].text)}
      BY <1>0, <1>3, <2>6, BodyHas
    <3>. QED
      BY <1>6, <2>2, <3>1
  <2>. QED
    BY <2>4, <2>5, <2>6
(* From the last step back: whatever is missed has been followed.          *)
<1>7. \A t \in 1 .. n : \A j \in 1 .. Len(steps[t].text) :
        Missed(steps[t].text[j]) => steps[t].text[j] \in Followed
  <2>. DEFINE Open(t) == \E j \in 1 .. Len(steps[t].text) :
                           Missed(steps[t].text[j]) /\ steps[t].text[j] \notin Followed
              Togo == {d \in Nat : \E t \in 1 .. n : d = n - t /\ Open(t)}
  <2>1. SUFFICES ASSUME Togo # {} PROVE FALSE
    <3>1. \A t \in 1 .. n : n - t \in Nat
      BY <1>0
    <3>2. Togo = {} => \A t \in 1 .. n : ~ Open(t)
      BY <3>1
    <3>. QED
      BY <2>1, <3>2
  <2>2. PICK d \in Togo : \A e \in Togo : d <= e
    <3>1. Togo \in SUBSET Nat
      OBVIOUS
    <3>. HIDE DEF Togo
    <3>. QED
      BY <2>1, <3>1, LeastElement
  <2>3. PICK t \in 1 .. n : d = n - t /\ Open(t)
    BY <2>2
  <2>4. \A u \in t + 1 .. n : ~ Open(u)
    <3>. SUFFICES ASSUME NEW u \in t + 1 .. n, Open(u) PROVE FALSE
      OBVIOUS
    <3>1. u \in 1 .. n /\ n - u \in Nat /\ ~ (d <= n - u)
      BY <1>0, <2>3
    <3>2. n - u \in Togo
      BY <3>1
    <3>. QED
      BY <2>2, <3>1, <3>2
  <2>5. PICK j \in 1 .. Len(steps[t].text) :
          Missed(steps[t].text[j]) /\ steps[t].text[j] \notin Followed
    BY <2>3
  <2>. HIDE DEF Open, Missed, Togo
  <2>. DEFINE Way(o) == o \in Nat /\ o < j /\ Pointer(t, o) \in Followed
              Left == {e \in Nat : \E o \in Nat : Way(o) /\ e = j - o}
  <2>6. Left # {}
    <3>1. PICK o \in Nat : o < j /\ Pointer(t, o) \in Followed
      BY <1>6, <2>5
    <3>2. j - o \in Nat
      BY <1>3, <3>1
    <3>. QED
      BY <3>1, <3>2
  <2>7. PICK e \in Left : \A f \in Left : e <= f
    <3>1. Left \in SUBSET Nat
      OBVIOUS
    <3>. HIDE DEF Left
    <3>. QED
      BY <2>6, <3>1, LeastElement
  <2>8. PICK o \in Nat : Way(o) /\ e = j - o
    BY <2>7
  <2>9. o < Len(steps[t].text) /\ j \in Nat /\ Len(steps[t].text) \in Nat
    BY <1>3, <2>8
  <2>10. PICK u \in t + 1 .. n :
           /\ o < j /\ j <= o + InlineChars =>
                \E k \in 1 .. Len(steps[u].text) : steps[u].text[k] = steps[t].text[j]
           /\ o + InlineChars < Len(steps[t].text) =>
                \E k \in 1 .. Len(steps[u].text) : steps[u].text[k] = Pointer(t, o + InlineChars)
    BY <1>5, <2>8, <2>9
  <2>11. ~ Open(u)
    BY <2>4
  <2>12. CASE j <= o + InlineChars
    BY <2>5, <2>8, <2>10, <2>11, <2>12 DEF Open
  <2>13. CASE ~ (j <= o + InlineChars)
    <3>1. o + InlineChars < j /\ o + InlineChars \in Nat /\ o + InlineChars < Len(steps[t].text)
      BY <1>0, <1>3, <2>9, <2>13
    <3>2. Missed(Pointer(t, o + InlineChars))
      BY <1>4, <2>5, <3>1
    <3>3. Pointer(t, o + InlineChars) \in Followed
      BY <2>10, <2>11, <3>1, <3>2 DEF Open
    <3>4. Way(o + InlineChars) /\ j - (o + InlineChars) \in Nat
      BY <2>9, <3>1, <3>3
    <3>5. j - (o + InlineChars) \in Left
      BY <3>4
    <3>6. ~ (e <= j - (o + InlineChars))
      BY <1>0, <2>8, <2>9
    <3>. QED
      BY <2>7, <3>5, <3>6
  <2>. QED
    BY <2>12, <2>13
<1>8. steps[1].text = Document /\ 1 \in 1 .. n
  BY <1>0 DEF ReadingIInv
<1>9. i \in 1 .. Len(steps[1].text) /\ steps[1].text[i] = Doc(i)
  BY <1>3, <1>8 DEF Document
<1>10. Doc(i) \in Followed
  BY <1>7, <1>8, <1>9
<1>11. \A p \in Followed : p.type = "pointer"
  <2>1. \A t \in 1 .. n : steps[t] \in [text : Seq(Cell), read : PointerCell]
    BY ElementOfSeq DEF ReadingIInv, ReadingTypeOK
  <2>. QED
    BY <1>0, <2>1 DEF Followed, PointerCell
<1>. QED
  BY <1>10, <1>11 DEF Doc

LEMMA ReadingInvariant == ReadingSpec => []ReadingIInv
<1>. QED
  BY ReadingInitIInv, ReadingNextIInv, PTL DEF ReadingSpec

(* The scratchpad holds texts and the pointers they were read from.        *)
THEOREM ReadingTypes == ReadingSpec => []ReadingTypeOK
<1>1. ReadingIInv => ReadingTypeOK
  BY DEF ReadingIInv
<1>. QED
  BY <1>1, ReadingInvariant, PTL

(* Whatever of a long observation no prompt has shown is ahead of some     *)
(* pointer the model has yet to follow, and no pointer shown leads         *)
(* nowhere: for every length of the text and of the window, wherever a     *)
(* word hits, however few of the recent steps are kept, and however deep   *)
(* the reads of reads go.                                                  *)
THEOREM ReadingHidesNothing == ReadingSpec => []NothingIsHidden
<1>1. ReadingIInv => NothingIsHidden
  BY VisibleSound, HiddenNot DEF NothingIsHidden
<1>. QED
  BY <1>1, ReadingInvariant, PTL
===============================================================================
