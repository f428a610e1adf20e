------------------------------- MODULE Parallel -------------------------------
(***************************************************************************)
(* Parallelization (build_parallel, patterns/workflows.py): a fixed list   *)
(* of branches fans out, one tool call each, and their results are         *)
(* combined. Voting is sectioning with one tool and names of its own.      *)
(***************************************************************************)
EXTENDS Workflow

CONSTANTS
  Sections,   \* the configured branches: name and tool
  Aggregate   \* "concat", "majority" or "llm"

SectionsAssumption ==
  /\ Sections \in Seq([name : STRING, tool : Tools])
  /\ Sections # <<>>
  /\ Aggregate \in {"concat", "majority", "llm"}

VARIABLES
  branches  \* branch -> how it came out, and in which run

own == <<branches>>
vars == <<base, own>>

Branch == DOMAIN Sections

TypeOK ==
  /\ BaseTypeOK({"fan_out", "branch", "combine"})
  /\ DOMAIN branches \subseteq Branch
  /\ branches \in [DOMAIN branches -> [run : 1 .. run, out : Outcome]]

OwnInit == branches = [b \in {} |-> "none"]

Init == BaseInit("fan_out") /\ OwnInit

FanOut ==
  /\ pc = "fan_out"
  /\ pc' = "branch"
  /\ calls' = [b \in Branch |-> Call(Sections[b].tool, FALSE)]
  /\ UNCHANGED <<iteration, answer, status, run, own>>

InBranch == CallStep /\ UNCHANGED own

(* Mutant: of two values for a branch the reducer keeps the first.         *)
MergeKeepsFirst(old, new) ==
  [b \in DOMAIN old \cup DOMAIN new |-> IF b \in DOMAIN old THEN old[b] ELSE new[b]]

(* The _merge reducer.                                                     *)
Merge(old, new) ==
  [b \in DOMAIN old \cup DOMAIN new |-> IF b \in DOMAIN new THEN new[b] ELSE old[b]]

Barrier ==
  /\ pc = "branch"
  /\ AllReturned
  /\ branches' = Merge(branches, [b \in Branch |-> [run |-> run, out |-> calls[b].out]])
  /\ calls' = NoCalls
  /\ pc' = "combine"
  /\ UNCHANGED <<iteration, answer, status, run>>

(* The dict of results by name: of branches that share one, the last.      *)
Named == {b \in Branch : \A c \in Branch : Sections[c].name = Sections[b].name => c <= b}

Usable == {b \in Named : ~ Failed(branches[b].out)}

Combine ==
  /\ pc = "combine"
  /\ Usable # {}
  /\ EndsOk
  /\ iteration' = 1
  /\ result' = run
  /\ pc' = "end"
  /\ UNCHANGED <<calls, run, branches>>

(* Nothing usable: an error, with the failures as the result.              *)
CombineFails ==
  /\ pc = "combine"
  /\ Usable = {}
  /\ status' = "error" /\ error' = run /\ final' = 0
  /\ result' = run
  /\ pc' = "end"
  /\ UNCHANGED <<calls, iteration, run, branches>>

(* The synthesiser's prompt does not fit.                                  *)
CombineRaises ==
  /\ pc = "combine"
  /\ Usable # {} /\ Aggregate = "llm" /\ Overflows
  /\ Raises
  /\ UNCHANGED own

NewRun == StartRun("fan_out") /\ UNCHANGED own

Machine ==
  \/ FanOut \/ InBranch \/ Barrier
  \/ Combine \/ CombineFails \/ CombineRaises

Next == Machine \/ (Human /\ UNCHANGED own) \/ NewRun

Spec == Init /\ [][Next]_vars

-----------------------------------------------------------------------------
(* What is combined is what the branches of this run returned, all of      *)
(* them: the channel also holds the values of earlier runs, and branches   *)
(* that paused came back later than their siblings (branch, _merge).       *)
CombineIsFresh ==
  pc = "combine" =>
    DOMAIN branches = Branch /\ \A b \in Branch : branches[b].run = run

(* "all branches failing -> status=error": and only then -- a run with one *)
(* usable answer is not lost to its siblings (combine). It holds for       *)
(* branches with names of their own: of those that share one, the last     *)
(* alone is looked at.                                                     *)
ErrorMeansAllFailed ==
  pc = "end" =>
    (status = "error" <=> \A b \in Branch : Failed(branches[b].out))
=============================================================================
