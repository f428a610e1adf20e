------------------------------- MODULE MCReact -------------------------------
(* A plain tool, a gated one, and a gated one that asks a question of its  *)
(* own; one harness tool; three steps a run and two runs on the thread.    *)
EXTENDS React

MCTools == {"read", "pay", "hire"}
MCGated == {"pay", "hire"}
MCQuestions == [t \in MCTools |-> IF t = "hire" THEN 1 ELSE 0]
MCHarness == {"notes_write"}
=============================================================================
