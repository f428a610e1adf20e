------------------------------- MODULE PlanDag -------------------------------
(***************************************************************************)
(* Plans as data (plan_execute/dag.py): a plan is a list of tasks, each    *)
(* with an id, the tool it calls, its explicit deps, and the ids its       *)
(* arguments refer to -- refs for a plain "$N", paths for a "$N.field",    *)
(* which resolves only on a result that has the field.                     *)
(*                                                                         *)
(* topological_levels is given here by what it returns (a task's level is  *)
(* one more than the deepest level of its dependencies); PlanSchedule      *)
(* models the loop that computes it.                                       *)
(***************************************************************************)
EXTENDS Naturals, Sequences, FiniteSets, Functions

Task(Id, Tool) ==
  [id : Id, tool : Tool, deps : SUBSET Id, refs : SUBSET Id, paths : SUBSET Id]

Ids(p) == {t.id : t \in Range(p)}

(* refs_in(args): every id an argument mentions, with or without a path.   *)
RefsIn(t) == t.refs \cup t.paths

EffectiveDeps(t) == t.deps \cup RefsIn(t)

(* Plan.by_id(), on a plan whose ids are distinct.                         *)
ById(p, i) == CHOOSE t \in Range(p) : t.id = i

DepsOf(p) == [i \in Ids(p) |-> EffectiveDeps(ById(p, i))]

-----------------------------------------------------------------------------
(* d gives every task of the dependency graph D the earliest level its     *)
(* dependencies allow: after all of them, and right after one of them.     *)
IsDepth(D, d) ==
  \A i \in DOMAIN D :
    /\ \A j \in D[i] : j \in DOMAIN D /\ d[j] < d[i]
    /\ d[i] = 1 \/ \E j \in D[i] : d[j] + 1 = d[i]

Depths(D) ==
  {d \in [DOMAIN D -> 1 .. Cardinality(DOMAIN D)] : IsDepth(D, d)}

LevelsOf(d) ==
  [k \in 1 .. Cardinality(Range(d)) |-> {i \in DOMAIN d : d[i] = k}]

Acyclic(p) == Depths(DepsOf(p)) # {}

TopologicalLevels(p) == LevelsOf(CHOOSE d \in Depths(DepsOf(p)) : TRUE)

(* lv is a schedule for the dependency graph D: it holds every task        *)
(* exactly once, no level is empty, and a task stands right after the last *)
(* of its dependencies.                                                    *)
IsSchedule(D, lv) ==
  /\ UNION Range(lv) = DOMAIN D
  /\ \A k \in DOMAIN lv : lv[k] # {}
  /\ \A k, l \in DOMAIN lv : k # l => lv[k] \cap lv[l] = {}
  /\ \A k \in DOMAIN lv : \A i \in lv[k] :
       /\ \A j \in D[i] : \E l \in 1 .. k - 1 : j \in lv[l]
       /\ k = 1 \/ D[i] \cap lv[k - 1] # {}

-----------------------------------------------------------------------------
(* The four ways validate_plan(plan, registry) refuses a plan before it    *)
(* tries to sort it, in the order it looks for them.                       *)
UnknownTool(p, registry) == \E t \in Range(p) : t.tool \notin registry

DuplicateIds(p) == Cardinality(Ids(p)) # Len(p)

UnknownDep(p) == \E t \in Range(p) : ~ (EffectiveDeps(t) \subseteq Ids(p))

SelfDep(p) == \E t \in Range(p) : t.id \in EffectiveDeps(t)

ValidPlan(p, registry) ==
  /\ ~ UnknownTool(p, registry)
  /\ ~ DuplicateIds(p)
  /\ ~ UnknownDep(p)
  /\ ~ SelfDep(p)
  /\ Acyclic(p)

-----------------------------------------------------------------------------

(* The merge reducer of the results channel: b's entries win.              *)
MergeResults(a, b) ==
  [i \in DOMAIN a \cup DOMAIN b |-> IF i \in DOMAIN b THEN b[i] ELSE a[i]]

(* substitute_args raises unless every reference resolves: a plain one to  *)
(* a stored result, one with a path to an object that has the field.       *)
Resolvable(t, results) ==
  /\ RefsIn(t) \subseteq DOMAIN results
  /\ \A i \in t.paths : results[i] = "obj"

SubstituteArgs(t, results) == Restrict(results, RefsIn(t))
=============================================================================
