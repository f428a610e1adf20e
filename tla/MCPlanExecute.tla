---------------------------- MODULE MCPlanExecute ----------------------------
(* Four task ids, one tool of each kind, and plans that between them have *)
(* a gated task behind a reference, two gated tasks side by side, parallel *)
(* tasks that ask, a gate beside a question, references into a field, and  *)
(* no task at all.                                                         *)
EXTENDS PlanExecute

MCId == 1 .. 4
MCRegistry == {"read", "write", "ask", "deploy"}
MCGated == {"write", "deploy"}
MCAsking == {"ask", "deploy"}

MCTask(i, tool, deps, refs, paths) ==
  [id |-> i, tool |-> tool, deps |-> deps, refs |-> refs, paths |-> paths]

Chain == <<MCTask(1, "read", {}, {}, {}), MCTask(2, "write", {}, {1}, {}),
           MCTask(3, "read", {2}, {}, {1})>>
TwoGates == <<MCTask(1, "write", {}, {}, {}), MCTask(2, "deploy", {}, {}, {}),
              MCTask(3, "write", {2}, {}, {1})>>
TwoAsk == <<MCTask(1, "ask", {}, {}, {}), MCTask(2, "ask", {}, {}, {}),
            MCTask(3, "write", {}, {1, 2}, {})>>
Diamond == <<MCTask(1, "read", {}, {}, {}), MCTask(2, "write", {1}, {}, {}),
             MCTask(3, "ask", {}, {}, {1}), MCTask(4, "write", {2}, {3}, {})>>
Knotted == <<MCTask(1, "read", {2}, {}, {}), MCTask(2, "read", {}, {1}, {})>>
NoTask == <<>>

MCPlans == {Chain, Diamond, TwoGates, TwoAsk, NoTask}
MCEdits == {Chain, Knotted, NoTask}
=============================================================================
