------------------------------- MODULE Sessions -------------------------------
(***************************************************************************)
(* Command-line runs (run.py) over one SQLite file of checkpoints          *)
(* (core/checkpoint.py): each process starts a thread of its own, drives   *)
(* it through its pauses, and prunes the file at its end. A step's         *)
(* branches run side by side, and what each comes to is written beside the *)
(* newest checkpoint when it gets there. A process may die at any point    *)
(* of that; another program may then answer the interrupts the file still  *)
(* has (aresume_graph). Processes run side by side.                        *)
(***************************************************************************)
EXTENDS Naturals, Sequences, FiniteSets, Functions

CONSTANTS
  Processes,    \* command-line runs; the thread of a run has its name
  Resumers,     \* programs that resume a thread a dead process left
  Steps,        \* run -> the steps of it that pause: branch -> what it asks in turn
  Says,         \* what the human may type for one item
  Keep,         \* DEFAULT_KEEP
  MayDie        \* whether processes die

Actors == Processes \cup Resumers

StepsOf == UNION {Range(Steps[p]) : p \in Processes}
Branches == UNION {DOMAIN s : s \in StepsOf}

Asked == [kind : {"question", "gate", "gates"}, items : SUBSET STRING]

ASSUME SessionsAssumption ==
  /\ IsFiniteSet(Processes) /\ Processes \cap Resumers = {} /\ "none" \notin Actors
  /\ \A p \in Processes : Steps[p] \in Seq(StepsOf)
  /\ \A s \in StepsOf :
       /\ DOMAIN s # {} /\ IsFiniteSet(DOMAIN s)
       /\ \A b \in DOMAIN s : s[b] \in Seq(Asked) /\ s[b] # <<>>
  /\ Keep \in Nat \ {0} /\ MayDie \in BOOLEAN

VARIABLES
  latest,   \* the checkpoints table: thread -> the id of its newest, 0 if none
  clock,    \* the newest checkpoint id
  step,     \* what a thread's newest checkpoint, or the process at work, has reached
  at,       \* the writes table: thread -> branch -> the question it is paused on, 0 when
            \* it has none yet; one past the last when it is done
  pc,       \* actor -> what it is doing
  on,       \* actor -> the thread it drives
  todo,     \* actor -> the branches it has yet to run in this go
  ran,      \* actor -> those that have run and are not written yet
  shown,    \* actor -> the interrupts of the state it got
  verdicts, \* actor -> the resume command: branch -> [to, raw]
  doomed,   \* process -> the threads it is about to delete
  took,     \* ghost: the answers branches took: see Takes
  kept,     \* ghost: those of them that are in the file
  torn      \* ghost: steps resumed before all branches had come to their first pause

disk == <<latest, clock, step, at>>
history == <<took, kept, torn>>
sessionVars == <<disk, pc, on, todo, ran, shown, verdicts, doomed, history>>

Doing == {"new", "refused", "running", "asking", "sending", "finished", "pruning", "ended",
          "dead", "lost", "idle"}

SessionsInit ==
  /\ latest = [p \in Processes |-> 0] /\ clock = 0
  /\ step = [p \in Processes |-> 0] /\ at = [p \in Processes |-> [b \in Branches |-> 0]]
  /\ pc = [a \in Actors |-> IF a \in Processes THEN "new" ELSE "idle"]
  /\ on = [a \in Actors |-> IF a \in Processes THEN a ELSE "none"]
  /\ todo = [a \in Actors |-> {}] /\ ran = [a \in Actors |-> {}]
  /\ shown = [a \in Actors |-> {}] /\ verdicts = [a \in Actors |-> <<>>]
  /\ doomed = [p \in Processes |-> {}]
  /\ took = {} /\ kept = {} /\ torn = {}

Goes(a, from, to) == pc[a] = from /\ pc' = [pc EXCEPT ![a] = to]

(* The branches of the step a thread is at, by how far they are.           *)
Asks(th) == Steps[th][step[th]]
Members(th, k) == IF k \in DOMAIN Steps[th] THEN DOMAIN Steps[th][k] ELSE {}
Now(th) == Members(th, step[th])
Done(th) == {b \in Now(th) : at[th][b] > Len(Asks(th)[b])}
Fresh(th) == {b \in Now(th) : at[th][b] = 0}
Waiting(th) == Now(th) \ (Done(th) \cup Fresh(th))

(* The question a branch asks, or is about to ask.                         *)
Question(th, b) ==
  [thread |-> th, step |-> step[th], branch |-> b, nth |-> IF at[th][b] = 0 THEN 1 ELSE at[th][b]]

Text(q) == Steps[q.thread][q.step][q.branch][q.nth]

-----------------------------------------------------------------------------
(* Starting                                                                *)

(* --approve-plans for another pattern, or a pattern that has no demo.     *)
Refuse(p) ==
  /\ Goes(p, "new", "refused")
  /\ UNCHANGED <<disk, on, todo, ran, shown, verdicts, doomed, history>>

(* The graph checkpoints what it has reached, in a row of its own id, with *)
(* nothing written beside it; the row is whole, whatever became of the     *)
(* thread's earlier ones. All branches of the next step are to run.        *)
Checkpointed(a) ==
  LET th == on[a] IN
  /\ clock' = clock + 1
  /\ latest' = [latest EXCEPT ![th] = clock + 1]
  /\ step' = [step EXCEPT ![th] = @ + 1]
  /\ at' = [at EXCEPT ![th] = [b \in Branches |-> 0]]
  /\ todo' = [todo EXCEPT ![a] = Members(th, step[th] + 1)]
  /\ verdicts' = [verdicts EXCEPT ![a] = <<>>]

Start(p) ==   \* arun_graph, on a thread id nobody has used
  /\ Goes(p, "new", "running")
  /\ Checkpointed(p)
  /\ UNCHANGED <<on, ran, shown, doomed, history>>

-----------------------------------------------------------------------------
(* Running a step                                                          *)

(* A bare verdict goes to the first branch that asks.                      *)
Bare(a) == Cardinality(DOMAIN verdicts[a]) = 1

(* The branches whose answer branch b may be given.                        *)
For(a, b) ==
  LET th == on[a] IN
  IF b \in DOMAIN verdicts[a] THEN {b}
  ELSE IF b \in Fresh(th) /\ Bare(a) THEN DOMAIN verdicts[a] ELSE {}

(* _prompt_human: a question's answer is passed on verbatim; at a gate an  *)
(* empty line is a yes, and anything but a yes is a denial with a reason.  *)
(* The gate of a level asks for each of its tasks.                         *)
PromptHuman(kind, raw) ==
  [i \in DOMAIN raw |->
     IF kind = "question" THEN [type |-> "text", yes |-> FALSE, text |-> raw[i]]
     ELSE IF raw[i] \in {"", "y", "yes"} THEN [type |-> "bool", yes |-> TRUE, text |-> ""]
     ELSE [type |-> "dict", yes |-> FALSE, text |-> raw[i]]]

Approved(verdict) == verdict.type = "bool" /\ verdict.yes

(* What b takes, and what the human had been asked when answering it.      *)
Takes(a, b, v) ==
  [by |-> a, asked |-> Question(on[a], b), to |-> v.to, raw |-> v.raw,
   verdict |-> PromptHuman(Text(v.to).kind, v.raw)]

(* A branch runs to its next interrupt or to its end: a paused one from    *)
(* its start again, with the answers it has had. Tools run here.           *)
RunBranch(a, b) ==
  /\ pc[a] = "running" /\ b \in todo[a]
  /\ todo' = [todo EXCEPT ![a] = @ \ {b}]
  /\ ran' = [ran EXCEPT ![a] = @ \cup {b}]
  /\ \/ /\ For(a, b) = {}
        /\ UNCHANGED <<took, verdicts>>
     \/ \E c \in For(a, b) :
          /\ took' = took \cup {Takes(a, b, verdicts[a][c])}
          /\ verdicts' = [verdicts EXCEPT ![a] = IF Bare(a) THEN <<>> ELSE @]
  /\ UNCHANGED <<disk, pc, on, shown, doomed, kept, torn>>

(* What a has had for the question b was at.                               *)
Had(a, b) == {e \in took : e.by = a /\ e.asked = Question(on[a], b)}

(* Its next interrupt or its result goes into the file, with the answers.  *)
WriteBranch(a, b) ==
  LET th == on[a] IN
  /\ pc[a] = "running" /\ b \in ran[a]
  /\ ran' = [ran EXCEPT ![a] = @ \ {b}]
  /\ at' = [at EXCEPT ![th][b] = Question(th, b).nth + (IF Had(a, b) = {} THEN 0 ELSE 1)]
  /\ kept' = kept \cup Had(a, b)
  /\ UNCHANGED <<latest, clock, step, pc, on, todo, shown, verdicts, doomed, took, torn>>

Settles(a) == todo[a] = {} /\ ran[a] = {}

Interrupts(th) == {Question(th, b) : b \in Waiting(th)}

(* Some branches ask: the thread stays at its checkpoint.                  *)
Pause(a) ==
  LET th == on[a] IN
  /\ Goes(a, "running", "asking") /\ Settles(a)
  /\ Waiting(th) # {}
  /\ shown' = [shown EXCEPT ![a] = Interrupts(th)]
  /\ UNCHANGED <<disk, on, todo, ran, verdicts, doomed, history>>

(* All are done.                                                           *)
StepDone(a) ==
  LET th == on[a] IN
  /\ pc[a] = "running" /\ Settles(a)
  /\ Now(th) # {} /\ Done(th) = Now(th)
  /\ Checkpointed(a)
  /\ UNCHANGED <<pc, on, ran, shown, doomed, history>>

Finish(a) ==
  /\ Goes(a, "running", IF a \in Processes THEN "finished" ELSE "ended")
  /\ Now(on[a]) = {}
  /\ UNCHANGED <<disk, on, todo, ran, shown, verdicts, doomed, history>>

-----------------------------------------------------------------------------
(* Asking and resuming                                                     *)

(* The interrupts the snapshot of the thread has: none without a row.      *)
Pending(th) == IF latest[th] = 0 THEN {} ELSE Interrupts(th)

(* Mutant: one answer resumes every branch.                                *)
OneForAll(given, q) == CHOOSE s \in DOMAIN given : TRUE

(* aresume_graph: one answer to the only interrupt, else by interrupt id,  *)
(* which is the branch's.                                                  *)
AnswerTo(given, q) ==
  IF Cardinality(DOMAIN given) = 1 THEN CHOOSE s \in DOMAIN given : TRUE
  ELSE CHOOSE s \in DOMAIN given : s.branch = q.branch

(* drive: the human answers what was shown, item by item; aresume_graph    *)
(* looks at the thread and pairs the answers with its interrupts.          *)
Answer(a) ==
  LET th == on[a] IN
  /\ Goes(a, "asking", "sending")
  /\ \E given \in [shown[a] -> UNION {[Text(q).items -> Says] : q \in shown[a]}] :
       /\ \A q \in shown[a] : DOMAIN given[q] = Text(q).items
       /\ LET Of(b) == AnswerTo(given, Question(th, b)) IN
          verdicts' = [verdicts EXCEPT ![a] =
            [b \in {q.branch : q \in Pending(th)} |-> [to |-> Of(b), raw |-> given[Of(b)]]]]
  /\ UNCHANGED <<disk, on, todo, ran, shown, doomed, history>>

(* The resume command reaches the thread: what is not done runs again.     *)
Resume(a) ==
  LET th == on[a] IN
  /\ Goes(a, "sending", "running")
  /\ latest[th] # 0
  /\ todo' = [todo EXCEPT ![a] = Now(th) \ Done(th)]
  /\ shown' = [shown EXCEPT ![a] = {}]
  /\ UNCHANGED <<disk, on, ran, verdicts, doomed, history>>

(* The thread was pruned before the human had answered.                    *)
ResumeFails(a) ==
  /\ Goes(a, "sending", "lost")
  /\ latest[on[a]] = 0
  /\ UNCHANGED <<disk, on, todo, ran, shown, verdicts, doomed, history>>

(* What has run and is not written is gone, and so are the verdicts.       *)
Die(p) ==
  /\ MayDie /\ pc[p] \in {"running", "asking", "sending"}
  /\ pc' = [pc EXCEPT ![p] = "dead"]
  /\ todo' = [todo EXCEPT ![p] = {}] /\ ran' = [ran EXCEPT ![p] = {}]
  /\ shown' = [shown EXCEPT ![p] = {}] /\ verdicts' = [verdicts EXCEPT ![p] = <<>>]
  /\ UNCHANGED <<disk, on, doomed, history>>

(* Another program opens the file and resumes what a dead process left; a  *)
(* thread has one driver at a time.                                        *)
TakeOver(r, p) ==
  /\ pc[p] = "dead" /\ Pending(p) # {}
  /\ \A a \in Resumers : on[a] # p
  /\ Goes(r, "idle", "asking")
  /\ on' = [on EXCEPT ![r] = p]
  /\ shown' = [shown EXCEPT ![r] = Pending(p)]
  /\ torn' = torn \cup {<<p, step[p]>> : b \in Fresh(p)}
  /\ UNCHANGED <<disk, todo, ran, verdicts, doomed, took, kept>>

-----------------------------------------------------------------------------
(* Pruning                                                                 *)

Newer(th) == {u \in Processes : latest[u] > latest[th]}

(* Mutant: one thread too many is listed.                                  *)
SurplusAndOne == {th \in Processes : latest[th] # 0 /\ Cardinality(Newer(th)) + 1 >= Keep}

(* list_threads(saver)[keep:]                                              *)
Surplus == {th \in Processes : latest[th] # 0 /\ Cardinality(Newer(th)) >= Keep}

ListThreads(p) ==
  /\ Goes(p, "finished", "pruning")
  /\ doomed' = [doomed EXCEPT ![p] = Surplus]
  /\ UNCHANGED <<disk, on, todo, ran, shown, verdicts, history>>

(* A thread's rows go at once: what is written beside a checkpoint counts  *)
(* for nothing without it.                                                 *)
DeleteThreads(p) ==
  /\ Goes(p, "pruning", "ended")
  /\ latest' = [th \in Processes |-> IF th \in doomed[p] THEN 0 ELSE latest[th]]
  /\ UNCHANGED <<clock, step, at, on, todo, ran, shown, verdicts, doomed, history>>

SessionsNext ==
  \/ \E p \in Processes : Refuse(p) \/ Start(p) \/ Die(p) \/ ListThreads(p) \/ DeleteThreads(p)
  \/ \E a \in Actors :
       \/ \E b \in Branches : RunBranch(a, b) \/ WriteBranch(a, b)
       \/ Pause(a) \/ StepDone(a) \/ Finish(a) \/ Answer(a) \/ Resume(a) \/ ResumeFails(a)
  \/ \E r \in Resumers, p \in Processes : TakeOver(r, p)

SessionsSpec == SessionsInit /\ [][SessionsNext]_sessionVars

-----------------------------------------------------------------------------
SessionsTypeOK ==
  /\ latest \in [Processes -> 0 .. clock] /\ clock \in Nat
  /\ step \in [Processes -> Nat] /\ at \in [Processes -> [Branches -> Nat]]
  /\ pc \in [Actors -> Doing] /\ on \in [Actors -> Processes \cup {"none"}]
  /\ todo \in [Actors -> SUBSET Branches] /\ ran \in [Actors -> SUBSET Branches]
  /\ DOMAIN shown = Actors /\ DOMAIN verdicts = Actors
  /\ doomed \in [Processes -> SUBSET Processes]
  /\ kept \subseteq took /\ torn \subseteq Processes \X Nat

(* The thread has the answer to a question.                                *)
Answered(q) ==
  \/ q.step < step[q.thread]
  \/ q.step = step[q.thread] /\ q.nth < at[q.thread][q.branch]

Rightly(e) ==
  Text(e.to).kind # "question" =>
    \A i \in DOMAIN e.raw : Approved(e.verdict[i]) <=> e.raw[i] \in {"", "y", "yes"}

(* However processes die, while they wait, between the resume command and  *)
(* the next checkpoint or while branches run, and whoever resumes: the     *)
(* file has exactly one answer to each question that is behind the run and *)
(* none to another; no driver is asked the same twice, so that a tool runs *)
(* again after its gate only where a process died in between; each answer  *)
(* was given to the very question it is taken for, and a gate reads a yes  *)
(* where the human agreed. Left out: steps resumed before all branches had *)
(* come to their first pause, where a bare verdict can go astray (drive,   *)
(* _prompt_human, aresume_graph, approved).                                *)
AnswersFit ==
  /\ \A th \in Processes : \A k \in DOMAIN Steps[th] : \A b \in DOMAIN Steps[th][k] :
       \A n \in DOMAIN Steps[th][k][b] :
         LET q == [thread |-> th, step |-> k, branch |-> b, nth |-> n] IN
         Cardinality({e \in kept : e.asked = q}) = IF Answered(q) THEN 1 ELSE 0
  /\ \A e, f \in took : e.by = f.by /\ e.asked = f.asked => e = f
  /\ \A e \in took : <<e.asked.thread, e.asked.step>> \notin torn => e.to = e.asked /\ Rightly(e)

(* When every run has come to its end, the file holds at most Keep         *)
(* threads, however the runs, their listings and their deletions overlap   *)
(* (prune_threads at the end of _run).                                     *)
PruneBounds ==
  (\A p \in Processes : pc[p] \in {"ended", "refused"}) =>
    Cardinality({p \in Processes : latest[p] # 0}) <= Keep

(* A pause can be lost only to pruning, by a run that ended later than it  *)
(* began: with no more runs than Keep, every answer finds its run, also    *)
(* after a death (prune_threads, aresume_graph).                           *)
NothingLost ==
  Cardinality({p \in Processes : pc[p] \notin {"new", "refused"}}) <= Keep =>
    \A a \in Actors : pc[a] # "lost"

(* Both sides of pruning.                                                  *)
PruningFits == PruneBounds /\ NothingLost
=============================================================================
