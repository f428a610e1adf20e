---------------------------- MODULE AgentContract ----------------------------
(***************************************************************************)
(* What every agent pattern promises to whoever runs it (core/contract.py, *)
(* core/hitl.py): a run is started, waits for a human any number of times, *)
(* and ends with "ok", with "error", or with no status at all -- a cap     *)
(* stopped it, which the caller reads as "capped". A run may also raise.   *)
(* The status is written when the run ends and at no other time, and       *)
(* nothing of an earlier run on the same thread shows in it.               *)
(***************************************************************************)

VARIABLES
  phase,   \* "running", "waiting" (for a human), "ended" or "raised"
  status   \* the status channel: "none", "ok" or "error"

vars == <<phase, status>>

Init == phase = "running" /\ status = "none"

(* arun_graph: any thread that is not being worked on takes a new query.   *)
Start ==
  /\ phase # "running"
  /\ phase' = "running"
  /\ status' = "none"

(* An interrupt hands control to the caller; aresume_graph takes it back.  *)
Pause == phase = "running" /\ phase' = "waiting" /\ UNCHANGED status

Resume == phase = "waiting" /\ phase' = "running" /\ UNCHANGED status

End ==
  /\ phase = "running"
  /\ phase' = "ended"
  /\ status' \in {"none", "ok", "error"}

(* An exception leaves the thread as it was before the node that raised.   *)
Raise == phase = "running" /\ phase' = "raised" /\ UNCHANGED status

Leave == Pause \/ End \/ Raise

Next == Start \/ Resume \/ Leave

Spec == Init /\ [][Next]_vars
=============================================================================
