-------------------------------- MODULE Router --------------------------------
(***************************************************************************)
(* The router (build_router, patterns/workflows.py): the model classifies  *)
(* the request, and the chosen route -- one tool -- handles it.            *)
(***************************************************************************)
EXTENDS Workflow

CONSTANTS
  Routes,    \* the names the model may choose from
  Agents,    \* the tools that are sub-agents
  Fallbacks  \* what may be configured as fallback=: a name, or "none"

RoutesAssumption ==
  /\ Routes # {}
  /\ Routes \subseteq Tools
  /\ Agents \subseteq Tools

VARIABLES
  fallback,           \* the configured fallback: nothing checks that it is a tool
  route, route_args,  \* the choice: a tool, and what its args are
  chose,              \* ghost: the route this run's classification chose
  called              \* ghost: the calls begun in this run, in order

own == <<fallback, route, route_args, chose, called>>
vars == <<base, own>>

(* What the model may put in args: nothing (or something empty), an        *)
(* object, or something else: the parser lets all of it through.           *)
ArgShapes == {"empty", "object", "other"}

TypeOK ==
  /\ BaseTypeOK({"classify", "call_route"})
  /\ fallback \in Fallbacks
  /\ route \in Routes \cup {fallback, "none"}
  /\ route_args \in ArgShapes
  /\ chose \in Routes \cup {fallback, "none"}
  /\ called \in Seq(Tools)

OwnInit ==
  /\ fallback \in Fallbacks
  /\ route = "none"
  /\ route_args = "empty"
  /\ chose = "none"
  /\ called = <<>>

Init == BaseInit("classify") /\ OwnInit

Picks(r, args) ==
  /\ route' = r
  /\ route_args' = args
  /\ chose' = r
  /\ status' = "none"
  /\ iteration' = 1
  /\ pc' = "call_route"
  /\ UNCHANGED <<calls, answer, run, fallback, called>>

Classify ==
  /\ pc = "classify"
  /\ \E r \in Routes, args \in ArgShapes : Picks(r, args)

(* Mutant: with no fallback the previous choice is used.                   *)
ClassifyFailsKeepsRoute ==
  /\ pc = "classify"
  /\ pc' = "call_route"
  /\ UNCHANGED <<calls, iteration, answer, status, run, own>>

(* No attempt names a route: the fallback handles it, or the run ends.     *)
ClassifyFails ==
  /\ pc = "classify"
  /\ IF fallback = "none"
     THEN /\ EndedWith
          /\ pc' = "end"
          /\ UNCHANGED <<calls, iteration, run, own>>
     ELSE Picks(fallback, "empty")

(* delegate_args: a sub-agent gets the query whatever the args; a plain    *)
(* tool gets the args copied into a dict, which not everything can be.     *)
CallRoute ==
  /\ pc = "call_route"
  /\ DOMAIN calls = {}
  /\ route \in Tools
  /\ route \in Agents \/ route_args # "other"
  /\ calls' = [b \in {0} |-> Call(route, FALSE)]
  /\ called' = Append(called, route)
  /\ UNCHANGED <<pc, iteration, answer, status, run, fallback, route, route_args, chose>>

InRoute == CallStep /\ UNCHANGED own

(* A value is the answer, and the result too unless it is text.            *)
RouteReturns ==
  /\ AllReturned
  /\ pc' = "end"
  /\ calls' = NoCalls
  /\ IF Failed(calls[0].out) THEN EndedWith ELSE EndsOk /\ result' \in {0, run}
  /\ UNCHANGED <<iteration, run, own>>

(* A prompt that does not fit, a fallback that is no tool, and args that   *)
(* are no object.                                                          *)
ClassifyRaises == pc = "classify" /\ Overflows /\ Raises /\ UNCHANGED own

CallRaises ==
  /\ pc = "call_route"
  /\ DOMAIN calls = {}
  /\ route \notin Tools \/ (route \notin Agents /\ route_args = "other")
  /\ Raises
  /\ UNCHANGED own

(* Ghosts aside, a new query resets no channel of the router's own.        *)
NewRun ==
  /\ StartRun("classify")
  /\ chose' = "none"
  /\ called' = <<>>
  /\ UNCHANGED <<fallback, route, route_args>>

Machine ==
  \/ Classify \/ ClassifyFails \/ ClassifyRaises
  \/ CallRoute \/ InRoute \/ RouteReturns \/ CallRaises

Next == Machine \/ (Human /\ UNCHANGED own) \/ NewRun

Spec == Init /\ [][Next]_vars

-----------------------------------------------------------------------------
(* "exactly one route": whatever pauses, fails or went on in earlier runs, *)
(* a run makes at most one call, to the route chosen in this very run, and *)
(* none ends "ok" without it (build_router).                               *)
OneRoute ==
  /\ called \in {<<>>, <<chose>>}
  /\ pc = "end" /\ status = "ok" => called = <<chose>>
=============================================================================
