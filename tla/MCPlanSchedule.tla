--------------------------- MODULE MCPlanSchedule ---------------------------
(* All dependency graphs on three tasks -- explicit deps, and a reference  *)
(* in one of them -- and all shorter lists with repeated ids, unknown ids  *)
(* and an unregistered tool.                                               *)
EXTENDS PlanSchedule

MCTask(i, tool, deps, refs) ==
  [id |-> i, tool |-> tool, deps |-> deps, refs |-> refs, paths |-> {}]

Small == {{}} \cup {{i} : i \in 1 .. 3}

MCPlans ==
  {<<MCTask(1, "known", d1, {}), MCTask(2, "known", d2, r2), MCTask(3, "known", d3, {})>> :
     d1, d2, d3 \in SUBSET (1 .. 3), r2 \in Small}
  \cup UNION {[1 .. n -> {MCTask(i, tool, d, {}) :
                            i \in 1 .. 2, tool \in {"known", "other"},
                            d \in SUBSET (1 .. 3)}] : n \in 0 .. 2}

MCRegistry == {"known"}
=============================================================================
