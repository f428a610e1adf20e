-------------------------------- MODULE Setup --------------------------------
(***************************************************************************)
(* What a program sets up before and between runs: the table of patterns,  *)
(* filled with the built-in ones on first use, the registry of tools, and  *)
(* react agents built over it. The table is one for the whole program:     *)
(* several threads may register patterns, and look them up, while the      *)
(* built-in ones are imported; register tests its keys and then writes     *)
(* them one by one, and nothing is locked. A registry of tools belongs to  *)
(* whoever fills it; tools may be added when agents are already built.     *)
(***************************************************************************)
EXTENDS Naturals, Sequences, FiniteSets

CONSTANTS
  Threads,     \* the threads that register patterns or look them up
  UserSpecs,   \* patterns the program registers: [name, aliases]
  Tools,       \* tools the program registers: [name, impl]
  Policies     \* context policies agents are built with: see Policy

(* builtin.py, in the order of its registrations.                          *)
Builtins ==
  LET Spec(name, aliases) == [name |-> name, aliases |-> aliases] IN
  <<Spec("react", <<>>),
    Spec("plan_execute", <<"plan">>),
    Spec("prompt_chain", <<"chain">>),
    Spec("router", <<>>),
    Spec("parallel", <<"parallelization">>),
    Spec("evaluator_optimizer", <<"evaluator">>),
    Spec("orchestrator_workers", <<"orchestrator">>)>>

Specs == UserSpecs \cup {Builtins[i] : i \in DOMAIN Builtins}

Unknown == [name |-> "unknown", aliases |-> <<>>]

Policy ==
  [reads : BOOLEAN,      \* offload or keep_recent: long observations are read in parts
   notes : BOOLEAN, skills : BOOLEAN,
   search : BOOLEAN, threshold : Nat]   \* tool_search_threshold, if set

ASSUME SetupAssumption ==
  /\ "none" \notin Threads
  /\ \A s \in UserSpecs : s \in [name : STRING, aliases : Seq(STRING)]
  /\ Unknown \notin UserSpecs
  /\ Tools \subseteq [name : STRING, impl : STRING]
  /\ \A t \in Tools : t.impl \notin {"harness", "unknown"}
  /\ Policies \subseteq Policy

VARIABLES
  table,       \* _PATTERNS: name -> spec
  aliases,     \* _ALIASES: alias -> name
  doing,       \* thread -> the registration it is in: see Idle
  loaded,      \* _builtins_loaded
  importer,    \* the thread whose lookup imports the built-in patterns
  next,        \* the built-in pattern it is to register, 0 when no import is under way
  failed,      \* the import raised
  clashed,     \* ghost: patterns registered while another that claims a key of theirs was
  registry,    \* ToolRegistry._tools: name -> tool
  agents       \* the react agents built: [policy, harness]

patternVars == <<table, aliases, doing, loaded, importer, next, failed, clashed>>
toolVars == <<registry, agents>>
vars == <<patternVars, toolVars>>

AliasesOf(s) == {s.aliases[i] : i \in DOMAIN s.aliases}
Keys(s) == {s.name} \cup AliasesOf(s)
AllKeys == UNION {Keys(s) : s \in Specs}

(* The pattern a thread has found free, and how many of its keys are       *)
(* written: its name first, then its aliases.                              *)
Idle == [spec |-> Unknown, wrote |-> 0]

Busy(t) == doing[t].spec # Unknown

Init ==
  /\ table = [k \in {} |-> Unknown] /\ aliases = [k \in {} |-> "unknown"]
  /\ doing = [t \in Threads |-> Idle]
  /\ loaded = FALSE /\ importer = "none" /\ next = 0 /\ failed = FALSE
  /\ clashed = {}
  /\ registry = [k \in {} |-> Unknown]
  /\ agents = {}

-----------------------------------------------------------------------------
(* The table of patterns                                                   *)

Choices == DOMAIN table \cup DOMAIN aliases

(* Mutant: only the name is looked for.                                    *)
NameTaken(s) == s.name \in Choices

(* The keys are looked for one after another. The tables only grow: when   *)
(* none is found, none was there when the first was looked for.            *)
Taken(s) == Keys(s) \cap Choices # {}

Rivals(s) == {q \in {doing[t].spec : t \in Threads} \ {Unknown, s} : Keys(q) \cap Keys(s) # {}}

(* register has found no key taken, and raises no more.                    *)
Begin(t, s) ==
  /\ ~ Busy(t)
  /\ ~ Taken(s)
  /\ doing' = [doing EXCEPT ![t] = [spec |-> s, wrote |-> 0]]
  /\ clashed' = IF Rivals(s) = {} THEN clashed ELSE clashed \cup Rivals(s) \cup {s}
  /\ UNCHANGED <<table, aliases, loaded, importer, next, failed, toolVars>>

Importing(t) == next # 0 /\ importer = t

Register(t, s) == ~ Importing(t) /\ Begin(t, s)

(* Mutant: the last alias is forgotten.                                    *)
WroteAllButOne(t) == doing[t].wrote + 1 >= Len(doing[t].spec.aliases)

(* The key that is written now is the last.                                *)
WroteAll(t) == doing[t].wrote >= Len(doing[t].spec.aliases)

(* The thread goes on to its next key, or register returns; the import     *)
(* then goes on to its next pattern.                                       *)
Wrote(t) ==
  /\ Busy(t)
  /\ IF WroteAll(t)
     THEN /\ doing' = [doing EXCEPT ![t] = Idle]
          /\ next' = IF ~ Importing(t) THEN next
                     ELSE IF next = Len(Builtins) THEN 0 ELSE next + 1
     ELSE /\ doing' = [doing EXCEPT ![t].wrote = @ + 1]
          /\ UNCHANGED next
  /\ UNCHANGED <<loaded, importer, failed, clashed, toolVars>>

Enter(s) == table' = [k \in DOMAIN table \cup {s.name} |-> IF k = s.name THEN s ELSE table[k]]

EnterAlias(a, name) ==
  aliases' = [k \in DOMAIN aliases \cup {a} |-> IF k = a THEN name ELSE aliases[k]]

WriteName(t) ==
  /\ doing[t].wrote = 0
  /\ Enter(doing[t].spec)
  /\ UNCHANGED aliases
  /\ Wrote(t)

WriteAlias(t) ==
  LET s == doing[t].spec IN
  /\ doing[t].wrote > 0
  /\ EnterAlias(s.aliases[doing[t].wrote], s.name)
  /\ UNCHANGED table
  /\ Wrote(t)

Resolve(key) ==
  LET name == IF key \in DOMAIN aliases THEN aliases[key] ELSE key IN
  IF name \in DOMAIN table THEN table[name] ELSE Unknown

(* _ensure_builtins: the flag is set before the import, so a failed import *)
(* is not tried again and other threads do not wait for one under way. One *)
(* that has read the flag before it was set imports the module as well:    *)
(* it waits for the first, and finds it there or raises at "react".        *)
FirstLookup(t) ==
  /\ ~ loaded /\ ~ Busy(t)
  /\ loaded' = TRUE /\ importer' = t /\ next' = 1
  /\ UNCHANGED <<table, aliases, doing, failed, clashed, toolVars>>

ImportNext(t) == Importing(t) /\ Begin(t, Builtins[next])

(* The program has registered one of its names: the first lookup raises.   *)
ImportRaises(t) ==
  /\ Importing(t) /\ ~ Busy(t)
  /\ Taken(Builtins[next])
  /\ next' = 0 /\ failed' = TRUE
  /\ UNCHANGED <<table, aliases, doing, loaded, importer, clashed, toolVars>>

-----------------------------------------------------------------------------
(* The tools and the agents over them                                      *)

(* ToolRegistry.add                                                        *)
Add(t) ==
  /\ t.name # "" /\ t.name \notin DOMAIN registry
  /\ registry' = [k \in DOMAIN registry \cup {t.name} |-> IF k = t.name THEN t ELSE registry[k]]
  /\ UNCHANGED <<patternVars, agents>>

HarnessToolNames == {"read_observation", "notes_write", "load_skill", "tool_search"}

SearchActive(p) == p.search /\ Cardinality(DOMAIN registry) > p.threshold

HarnessTools(p) ==
  {h \in HarnessToolNames :
     \/ h = "read_observation" /\ p.reads
     \/ h = "notes_write" /\ p.notes
     \/ h = "load_skill" /\ p.skills
     \/ h = "tool_search" /\ SearchActive(p)}

Clash == HarnessToolNames \cap DOMAIN registry

(* build_react_agent: the policy is checked against the tools of now.      *)
Build(p) ==
  /\ Clash = {}
  /\ agents' = agents \cup {[policy |-> p, harness |-> HarnessTools(p)]}
  /\ UNCHANGED <<patternVars, registry>>

(* Mutant: the harness of the registry as it is now.                       *)
HarnessNow(a) == HarnessTools(a.policy)

HarnessOf(a) == a.harness

(* What an agent runs for a tool name: act_node, ToolRegistry.get.         *)
Runs(a, name) ==
  IF name \in HarnessOf(a) THEN "harness"
  ELSE IF name \in DOMAIN registry THEN registry[name].impl ELSE "unknown"

Next ==
  \/ \E t \in Threads :
       \/ \E s \in UserSpecs : Register(t, s)
       \/ WriteName(t) \/ WriteAlias(t)
       \/ FirstLookup(t) \/ ImportNext(t) \/ ImportRaises(t)
  \/ \E t \in Tools : Add(t)
  \/ \E p \in Policies : Build(p)

Spec == Init /\ [][Next]_vars

-----------------------------------------------------------------------------
TypeOK ==
  /\ DOMAIN table \subseteq AllKeys
  /\ \A k \in DOMAIN table : table[k] \in Specs /\ table[k].name = k
  /\ DOMAIN aliases \subseteq AllKeys /\ \A k \in DOMAIN aliases : aliases[k] \in AllKeys
  /\ doing \in [Threads -> [spec : Specs \cup {Unknown}, wrote : Nat]]
  /\ \A t \in Threads : doing[t].wrote <= Len(doing[t].spec.aliases)
  /\ loaded \in BOOLEAN /\ importer \in Threads \cup {"none"}
  /\ next \in 0 .. Len(Builtins) /\ failed \in BOOLEAN
  /\ clashed \subseteq Specs
  /\ \A k \in DOMAIN registry : registry[k] \in Tools /\ registry[k].name = k
  /\ agents \subseteq [policy : Policies, harness : SUBSET HarnessToolNames]

(* Every alias leads to a pattern that is in the table -- which claims it, *)
(* and has its name to itself, unless it was registered at the same time   *)
(* as another that wants one of its keys.                                  *)
AliasesResolve ==
  \A a \in DOMAIN aliases :
    /\ aliases[a] \in DOMAIN table
    /\ table[aliases[a]] \notin clashed => a \in AliasesOf(table[aliases[a]])
    /\ a \in DOMAIN table /\ table[a] \notin clashed => aliases[a] = a

(* Once the import is over without an error, every name and alias of every *)
(* built-in pattern leads to that pattern, but for one that another thread *)
(* took a key of while it was being registered.                            *)
BuiltinsWhole ==
  loaded /\ next = 0 /\ ~ failed =>
    \A i \in DOMAIN Builtins : Builtins[i] \notin clashed =>
      \A k \in Keys(Builtins[i]) : Resolve(k) = Builtins[i]

(* However registrations, lookups and an import that may raise half-way    *)
(* follow each other or overlap, no key is left without its pattern        *)
(* (register, get, _ensure_builtins).                                      *)
TablesWhole == AliasesResolve /\ BuiltinsWhole

(* A key that leads to a pattern leads to it for ever, whoever registers   *)
(* what in which thread -- unless another registration that claims one of  *)
(* the pattern's keys overlapped with its own (register, get).             *)
PatternsStay ==
  [][\A k \in AllKeys :
       Resolve(k) \notin {Unknown} \cup clashed => Resolve(k)' = Resolve(k)]_vars

(* A tool name an agent runs something for is never run as anything else   *)
(* by it: tools added later neither replace one nor turn a harness tool on *)
(* or off (harness computed once by build_react_agent, ToolRegistry.add).  *)
CallsStay ==
  [][\A a \in agents : \A name \in HarnessToolNames \cup {t.name : t \in Tools} :
       Runs(a, name) # "unknown" => Runs(a, name)' = Runs(a, name)]_vars
=============================================================================
