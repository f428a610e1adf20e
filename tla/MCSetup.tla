------------------------------- MODULE MCSetup -------------------------------
EXTENDS Setup

(* A pattern of the program's own, aliased to itself too; one that takes a *)
(* built-in's alias; one that claims a built-in's name as its alias.       *)
MCUserSpecs ==
  {[name |-> "mine", aliases |-> <<"m", "mine">>],
   [name |-> "plan", aliases |-> <<>>],
   [name |-> "m", aliases |-> <<"router">>]}

MCTools ==
  {[name |-> "calc", impl |-> "calc"], [name |-> "calc", impl |-> "calc2"],
   [name |-> "web", impl |-> "web"], [name |-> "tool_search", impl |-> "own"]}

MCPolicies ==
  {[reads |-> TRUE, notes |-> FALSE, skills |-> FALSE, search |-> FALSE, threshold |-> 0],
   [reads |-> FALSE, notes |-> TRUE, skills |-> TRUE, search |-> TRUE, threshold |-> 1]}
=============================================================================
