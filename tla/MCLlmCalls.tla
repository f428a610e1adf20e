------------------------------ MODULE MCLlmCalls ------------------------------
EXTENDS LlmCalls

MCReplies ==
  {[shape |-> "object", says |-> "finish", valid |-> TRUE],
   [shape |-> "object", says |-> "tool", valid |-> FALSE],
   [shape |-> "null", says |-> "none", valid |-> FALSE]}

(* It fits; capped, it fits but for the feedback; it is capped already and *)
(* too long.                                                               *)
MCRenders ==
  {[full |-> 1, capped |-> 1, narrow |-> FALSE],
   [full |-> 5, capped |-> 3, narrow |-> FALSE],
   [full |-> 5, capped |-> 5, narrow |-> TRUE]}
=============================================================================
