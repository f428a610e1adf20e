# Verification of basic_agent

TLA+ models of the agent patterns of this repository, checked with TLC and, for
the parts that matter most, proved with TLAPS. The modules translate the code
under `src/`; `PROJECT.json` maps every definition to the lines it stands for.

1. [The system](#1-the-system)
2. [The modules](#2-the-modules)
3. [The runs](#3-the-runs)
4. [What is proved](#4-what-is-proved)
5. [Findings](#5-findings)
6. [What is not modelled](#6-what-is-not-modelled)

## 1. The system

`basic_agent` builds LLM agents as LangGraph graphs. A *graph* is a set of nodes
over named channels of state. LangGraph executes it in steps: the nodes that
are due run (in parallel if there are several), their partial results are
merged into the channels by each channel's reducer, the step is written to a
checkpoint, and the routing functions name the nodes of the next step. A node
may call `interrupt()`: the step stops there, the caller gets control, and when
the caller resumes the thread the node is executed **again from its start**,
with `interrupt()` returning the answers given so far.

| component | code | state it keeps | operations |
|---|---|---|---|
| plan DAG | `plan_execute/dag.py` | none (pure) | parse, validate, topological levels, references, substitution |
| plan-and-execute agent | `plan_execute/graph.py`, `state.py` | the channels of `AgentState`: plan, levels, cursor, iteration, results, rejection, approvals, decision, answer, status, error | nodes plan, approve, level_gate, run_task, advance, join and four routing functions |
| planner, joiner | `plan_execute/orchestrator/` | none; read the state, write plan or decision | one LLM call each, with retries and context-overflow fallback |
| task executor | `plan_execute/executor.py`, `core/execution.py` | the read-only scope of the running agent | one tool call: scope, approval gate, call, errors as data |
| ReAct agent | `react/graph.py`, `policy.py`, `state.py` | scratchpad, action, iteration, notes, running summary and how far it reaches, answer, status, error | nodes reason and act, routing, compaction |
| context policy | `core/context.py` | none of its own; harness tools write notes and loaded tools | rendering, harness tools |
| workflow patterns | `patterns/workflows.py` | per pattern: step and outputs; route; branches; draft, feedback and rounds; subtasks and work | prompt chain, router, parallel, evaluator-optimizer, orchestrator-workers |
| contract | `core/contract.py` | `status`, `final`, `result`, `error` | initial state, envelope |
| human-in-the-loop driver | `core/hitl.py`, `run.py` | the thread id; everything else is checkpointed | start a run, resume it with a verdict, answer several interrupts |
| tools and agents as tools | `core/tools.py` | the registry | register, call, wrap a graph as a tool |
| checkpoint store | `core/checkpoint.py` | SQLite tables | open, list threads, prune |
| LLM clients, tracing | `core/llm.py`, `core/trace.py` | the usage of a thread's latest call; a log file | complete; emit |
| pattern registry | `patterns/registry.py`, `builtin.py` | the table of patterns and its aliases | register, look up, import the built-in patterns once |

How they interact: `run.py` or a parent agent's tool starts a graph through
`arun_graph` (or `AgentTool`, which invokes a child graph as one tool call of
the parent). All patterns delegate through `execute_tool`, which holds the one
approval gate. Patterns share nothing but the contract, the registry and the
checkpointer; a thread id names one conversation whose channels survive from
one query to the next.

What is hard here:

- **Pauses.** A human may take hours and answers are matched to interrupts on
  replay; several branches of one step may pause at once while their siblings
  finish.
- **Approval.** Three places ask (plan, level gate, the call itself); each
  verdict must cover exactly the call that later runs, with the arguments as
  they are then, under the plan it was given for.
- **Plans replace one another** by replanning, by rejection and by human edit,
  and everything that belonged to the old one must go.
- **Fan-out and barrier.** Results of a level arrive together; failures,
  denials and arguments that do not resolve must stop what depends on them and
  nothing else.
- **Reused threads.** Only the input channels are reset by a new query; what
  an earlier run left in the others can be read by the next one.
- **Termination.** Models decide when to stop; only the caps bound them.
- **Models return anything.** Malformed plans, actions and replies must become
  an end of the run with a status, not an exception.
- **Agents inside agents.** A question asked three agents deep unwinds all of
  them, and the answer runs all of them again: the read-only scope, which is a
  context variable, has to be there again when it arrives.
- **Shared objects.** One client serves nodes in several threads, one table of
  patterns serves all threads without a lock, one file serves several processes,
  one registry serves agents built earlier and later.
- **Deaths.** A resume command, the branches it starts and the next checkpoint
  are different moments: a process that dies between them leaves a thread that
  still shows interrupts whose answers it had.

Correctness, per component: the level loop returns a schedule or a real cycle;
the plan-and-execute agent never starts a gated tool without the approval of
that call, never runs what was denied or rejected, never loses or carries over
a result, respects its cap and reports how it ended; the ReAct agent leaves one
observation per action, pairs answers with questions in order, folds each step
once, stops at its cap and reports how it ended; what a prompt cuts off of an
observation stays within reach; each workflow pattern does what its docstring
promises (steps in order, one route, no branch lost or stale, the answer is the
draft that was judged, workers do not write); nothing below a read-only agent
writes, and an agent used as a tool returns what its schema declares or a
failure; a structured model call goes on from the prompt it used, ends for a
reason it can show, and is billed its own usage; a name in a registry keeps its
meaning and leads somewhere; answers reach the interrupts they were given to and
count once, wherever a process dies; and pruning deletes what it should. All
agents keep the contract and end if the human answers.
`PROJECT.json` lists the hazards behind these one by one, at their lines, with
the properties that cover them.

## 2. The modules

| module | models | uses |
|---|---|---|
| `PlanDag` | tasks, references, validity, topological levels, result merging, substitution (`dag.py`, the reducer of `state.py`) as operators | |
| `PlanSchedule` | `validate_plan` and the loop of `topological_levels`, one iteration a step | `PlanDag` |
| `PlanExecute` | the plan-and-execute agent with planner, joiner, executor and human | `PlanDag`, `AgentContract` |
| `React` | the ReAct agent with its policy, compaction, harness tools and human | `AgentContract` |
| `Workflow` | what the workflow patterns share: the contract's channels, and steps whose branches each make one call through `execute_tool` (read-only scope, gate, questions, outcome) | `AgentContract` |
| `Chain`, `Router`, `Parallel`, `EvalOpt`, `Orchestrator` | one pattern each, with its own channels, nodes and properties | `Workflow` |
| `Workflows` | a thread whose graph is one of the five patterns: their composition, over the shared channels | `Workflow` and the five (`INSTANCE`) |
| `AgentContract` | what any agent promises its caller: the abstract specification all agents implement | |
| `Delegate` | agents as tools of agents, to any depth: `AgentTool.run`, read-only scopes, `execute_tool`, the check of a result against its schema | |
| `LlmCalls` | the attempt loops of planner, joiner, policy, compaction and `ask_json`, the four clients, and the tracer, from several threads | |
| `Reading` | what a prompt shows of a long observation, and `read_observation` (`core/context.py`) | |
| `Setup` | the pattern table, filled key by key from several threads, with its lazy import; the tool registry, and agents built over it | |
| `Sessions` | command-line runs over one checkpoint file: `drive`, `_prompt_human`, `aresume_graph`, the branches of a step and what they write, pruning, processes that die anywhere | |
| `PlanDagProofs`, `PlanScheduleProofs`, `PlanExecuteProofs`, `ReactProofs`, `WorkflowsProofs`, `LlmCallsProofs`, `DelegateProofs` | lemmas and theorems | the module they are about |
| `HarnessProofs` | lemmas and theorems about what surrounds the agents | `Setup`, `Sessions`, `Reading` |
| `MCPlanSchedule`, `MCPlanExecute`, `MCReact`, `MCWorkflows`, `MCDelegate`, `MCLlmCalls`, `MCReading`, `MCSetup`, `MCSessions` | instances for TLC | |

**How they fit together.** `PlanExecute`, `React` and `Workflows` model an agent
as its caller sees it and below it one `execute_tool` per call; all three
implement `AgentContract`. `Delegate` takes the other side: it keeps of an agent
only that it calls tools, may pause in them and ends with a contract status, and
nests such agents. What a model's reply is, those modules choose freely among
what the parsers let through; `LlmCalls` models how the parsers and the retries
get there. `Sessions` keeps of a run only its steps, their branches and what
each branch asks in turn. So each interaction is modelled once, and no module repeats another.

**State.** Each variable is a channel of the code's state (`cur` is
`current_level`, `preapproved` is `preapproved_ids`, `rejected` is
`plan_rejected`), a field of one of its objects (`table` is `_PATTERNS`, `usage`
the clients' thread-local `last_usage`, `latest` and `at` the tables
`checkpoints` and `writes` of the file) or LangGraph's own bookkeeping: `pc` is the node that is due,
`paused` says it waits for a human, `flight` holds the branches of the
`run_task` step with their payloads, `resumed` the answers a re-executed `act`
will be given, `calls` the branches of a workflow's step with the answers each
has been told, `stack` the same for every level of nested agents. Ghost
variables, which no guard reads, record what was approved, denied, started,
folded, entered, sent or shown, so that properties can speak of history.

**Actions.** A node and the routing function on its outgoing edge are one step
of the graph and so one action. A node that interrupts is two: the pause, and
the verdict that finishes it (`ApprovePause`, then `ApproveYes`, `ApproveEdit`
or `ApproveNo`). The branches of a level are independent: `Unresolved(i)`,
`RunTool(i)` and `TaskAsks(i)` interleave freely, `Barrier` merges what they
returned. `AnswerTasks` answers all pending interrupts of a step at once, as
`aresume_graph` demands; a partial answer is an exception that changes nothing.
In `React` the node `act` is one action per way it can go given the answers it
has, taken again after each answer. In `Workflow` a call is executed anew after
each answer, from the scope check on (`CallRefused`, `CallAsks`, `CallDenied`,
`CallEnters`); a plain node that calls a tool is a step with one branch. Each
pattern adds the nodes before and after its calls, and what raises out of them.
In `Delegate` an interrupt empties the scopes of its branch and `Answer` starts
the branch from the outermost call again: `AgentEntered` then walks down the
frames that are checkpointed and builds the scopes anew. In `LlmCalls` a request
is three steps, `Send`, `Return` and `Handle`, because the tracer reads the
usage after the client has returned and other nodes run in between. In
`Sessions` pruning is two steps, `ListThreads` and `DeleteThreads`, as it is two
transactions in the code, and a resumption is as many as a process can die
between: the human answers and `aresume_graph` pairs the answers with the pending
interrupts (`Answer`), the command reaches the thread (`Resume`), each branch that
is not done runs (`RunBranch`) and what it comes to is written (`WriteBranch`),
and the step pauses again at the checkpoint it was at, or is over and a new
checkpoint replaces it (`Pause`, `StepDone`). `Die` may come between any two.
In `Setup` a registration is a step that finds all keys free (`Register`, or
`ImportNext` for a built-in pattern) and then one step per key it writes
(`WriteName`, `WriteAlias`), between which other threads look up, register and
import.

**Data.** A value is what the properties tell apart: text, an object, a failure
or a denial. A task is its id, its tool, its declared dependencies, and the
ids it refers to whole or by a path into a field (a path resolves only in an
object). A plan is a sequence of tasks drawn from a constant set. What a model
answers is a nondeterministic choice among everything the parser lets through:
a joiner may "finish" without an answer, an action's `args` may be no object.
A prompt is a length and the number of errors fed back; a reply is its shape,
what it decides and whether it is valid. A result with a schema is its JSON type
and the types of its fields. A long text is a sequence of cells, each about a
read's header long.

Details worth knowing when reading the modules beside the code:

- An edited plan that is invalid raises `PlanError` out of the resume and leaves
  the thread paused where it was, so it is no step. A verdict that both approves
  and carries a plan approves. An empty edited plan counts as a rejection.
- A process that stops while a thread is paused loses nothing (every variable
  is checkpointed), so such a crash is a stutter of the agents' modules;
  `Sessions` models who finds the thread afterwards, and the deaths in the middle
  of a step, after which branches run again.
- A new query may also arrive in place of an answer; LangGraph then drops the
  pending step.
- In `React`, compaction may happen whenever there is a step to fold: the length
  that triggers it is a matter of text.
- In `PlanExecute` a tool asks at most once per call; `React`, `Workflow` and
  `Delegate` have tools that ask several times.
- What raises out of a run leaves the thread as it was before the node
  (`raised`), and can be followed by a new query: in `React` a harness tool whose
  arguments are no object, the compactor's own overflow and any other error of a
  client (`ReasonRaises`), in `PlanExecute` every error of a client that is no
  `PlanError` (`NodeRaises`), in `LlmCalls` the same by client and caller. So
  would a tool name that cannot be hashed.
- The read-only refusal of `execute_tool` is in `Workflow` and `Delegate`, and
  not in `PlanExecute!RunTool`, which stands for what comes after it: whether an
  agent is inside a read-only one is a matter of its callers, and the refusal is
  to the graph one more failed call.
- In `Workflow`, `final`, `result` and `error` are the number of the run that
  wrote them (0: empty), and in the patterns drafts, outputs and results are
  the run and round they come from: freshness is what the properties are about.
- A worker whose subtask has no objective (`flawed`) raises as soon as it is
  scheduled; its siblings may have got anywhere by then, but the step does not
  pause before it did.
- The constants of a pattern are what its builder is given (`steps`, `routes`,
  `sections`, `generator`, `workers` and the limits). `fallback`, `generator`
  and the two review flags of `PlanExecute` are chosen in `Init`, so one run
  covers all of them; so are the callers, the prompts and the client of
  `LlmCalls` and `keep_recent` of `Reading`.
- In `Setup` the import's flag is set before the import: a thread that looks a
  pattern up meanwhile does not wait and may not find it. `register` looks for its
  keys one by one, and that is one step of the model: the tables only grow, so if
  none was found then none was there when the first was looked for, and a
  registration that raises changes nothing. Nor does a lookup, which reads
  `_ALIASES` and then `_PATTERNS`: both of its reads agree with the tables at
  the second one, as an alias never changes for a pattern without a rival and no
  name leaves. `_ensure_builtins` is the only other reader that writes.
- Two registrations that want the same key and overlap may both go through; the
  model lets them (`Rivals`, `clashed`), and the properties of `Setup` are about
  patterns without such a rival (section 5).
  A `ToolRegistry` belongs to the thread that fills it: nothing in `src/` adds to
  one that is shared.
- In `Sessions` one checkpoint stands for all of a thread, and its id for the
  order in which `list_threads` returns threads. An interrupt's id is its
  branch's, as LangGraph makes it, and stays the same when the branch asks again.
- LangGraph is not part of this repository. `Sessions` takes from it what
  `aresume_graph` relies on: answers by id go to their branches; a bare answer
  goes to the first branch that asks; a branch that has written its result is not
  run again; one that has not runs from its start, with the answers the file has
  for it; and a paused step stays at its checkpoint.
- A process that dies before every branch of a step has come to its first pause
  leaves a *torn* step. If one interrupt is pending there, the bare answer to it
  may be taken by a branch that had not asked yet. The model does that too, and
  `AnswersFit` makes no claim of whose answer is whose in such a step.
- A thread has one driver: whoever takes one over does so when its process is
  dead. That is how the file is used and not something the code enforces. The
  program that takes over does not die in its turn.
- `Sessions` and `Reading` name their `Init`, `Next`, `Spec`, `TypeOK` and `vars`
  after the module, for the proof module they share with `Setup`.

## 3. The runs

| run | instance | shows |
|---|---|---|
| `plan_schedule` | every dependency graph of three tasks (declared or through references, self-loops too), and short lists with repeated ids, unknown ids and unknown tools | what `topological_levels` returns is a schedule (every task once, no level empty, each task right after the last of its dependencies); "cycle" is said only of tasks that wait for one another and of every such plan; the loop agrees with the definition the agent model uses; it always answers |
| `plan_execute` | both review flags on and off; four ids, four tools (plain, gated, asking, gated and asking), five plans, edits that are valid, cyclic and empty, cap 3, two queries | approvals, denials, early abort, barrier and replanning; only plans the human let through run; how a run ends; the contract; every run ends |
| `react` | three tools (plain, gated, gated and asking once), one harness tool, an unknown name; cap 3, compaction keeping one step, two queries | one observation per act, entries only as the answers allow, folding, end status, contract, termination |
| `workflows` | the five patterns over four tools (plain with side effects, gated, gated and asking once, a sub-agent asking twice); a chain of two prompts and two tools, three routes and three fallbacks, three sections, three generators and three drafts, two workers and two rounds; prompts that may overflow; two queries | every pattern's own properties, entries as the answers allow across parallel pauses, end status, caps, contract, termination |
| `delegate` | three parallel calls: a read-only agent whose tools include an agent that is not and a tool that writes, an agent with a schema, a gated tool; two calls per agent | nothing below a read-only agent writes and gates open for their own answers only, at every depth and after every re-entry; a caller reads a value only of a run that ended ok and fits the schema; the step ends |
| `llm_calls` | two nodes in two threads; all five callers, all four clients; prompts that fit, that fit when capped but not with feedback, and that never fit; one retry | usage, retries and ends of structured calls; no node is left without a next step (deadlock is checked) |
| `reading` | a document of ten cells, four shown; nine steps; `keep_recent` 1, 2 and off; a word found in two places | whatever was cut off can be reached from the pointers shown, every pointer works, reading ends |
| `setup` | two threads; three patterns of the program's own that clash with each other, with a name and with an alias of the built-in ones, one of them with two aliases; four tools, one of a harness tool's name; two policies | an alias leads to a pattern that has it; after the import every key of a built-in pattern leads to it; a key never changes its pattern (overlapping rivals apart); a tool name never changes what an agent runs for it |
| `sessions` | three runs, two threads kept: one run with a step of two branches, one of which asks and then meets a gate, and then the gate of a level with two tasks; two that do not pause; one later program that resumes; processes die anywhere | the file has one answer to each question that is behind the run, its own, read as the human meant it; nobody is asked the same twice by one driver; the file ends within its limit, and pauses are lost to no fewer runs than that limit |
| `reading_hint`, `chain_reuse`, `llm_overflow` | as above, narrowed to the part in question | the findings of section 5, as counterexamples |

**Why these bounds.** The schedule is checked on *all* graphs of three nodes:
that has a chain, a fork, a join, every cycle and a cycle beside sound tasks.
The plans of `plan_execute` are chosen so that between them there are a gated
task behind a reference, two gated tasks side by side (a partial verdict), tasks
that ask in parallel, a gate beside a question, references into a field that
may not resolve, a diamond, and no task at all. Cap 3 gives a replan that
follows a replan; two queries give every way an earlier run can end followed by
every way a later one can. For `react`, three steps are the least with a
scratchpad that is longer than what compaction keeps in the first run already,
and the second query starts on one that is partly folded. For `workflows`, three
sections are the least with two branches paused and one done, at every
combination of gate and question; two workers and two rounds let a second
round be shorter than the first; three drafts have a first, a middle and a last
round; two queries show what a thread keeps. `delegate` has an agent that is not
read-only below one that is (the scope must survive the level that does not ask
for it) and, beside it, a branch whose schema wants a number, for results that
have one, a boolean, a string or nothing. In `llm_calls` two nodes may use one
thread after each other or two at once, and the three prompts take every way
through the fallback: not needed, enough, enough until feedback is added, no
help. In `reading`, four cells are the least a window can hold for reads of reads
to come to an end (a header, a hint and the end mark beside a chunk's last cell):
`ReadingEnds` needs that, `NothingIsHidden` is proved for any window. Ten cells
make a second and a third window, and the reads are cut off themselves. In `setup` two threads
are what a race needs, and the pattern with two aliases, one of them its own
name, is seen with none, some and all of its keys written. In `sessions` a branch
that asks twice beside one that asks once gives a step that pauses, is resumed and
pauses again at the same checkpoint with a branch done; the step after it shows
what an answer could leave behind. Three processes exceed what is kept by one, so
that a listing of one overlaps a start, a pause or a resumption of another. The
two that do not pause are alike, and may be exchanged (`Symmetry`): the properties
are invariants that name no process.

**Deadlock** is checked in `llm_calls` only. Everywhere else the program stops:
`MaxRuns` queries have been answered, the loop has returned, the step is over,
nothing is left to register, all runs have ended, or `MaxSteps` steps were read.

**Fairness.** `WF(Machine)`: the event loop runs a node that is due, and tools
return (a tool that never returns hangs the real run as well). `WF(Human)`: a
human who is asked gives some verdict in the end; nothing says which. In
`Workflows` the two are `Machine` and `Replies`, in `Delegate` they are about a
step. No fairness is assumed of new queries. `plan_schedule` is straight-line
code. `RunsEnd` thus says that neither models that always want another round nor
any pattern of pauses keeps a run alive: the caps do end it. `Reading` assumes a
model that follows the pointers it is shown, which is what the prompt asks of it
and all that can be asked of the code. `LlmCalls`, `Setup` and `Sessions` state
safety only, without fairness.

**Mutants.** Each property of a passing run names, in `PROJECT.json`, a mutated
definition (a comment "Mutant:" introduces it) under which TLC finds it
violated.

## 4. What is proved

For all values of the constants that satisfy the modules' assumptions: any
number of ids, tools, nodes, threads, plans of any length, any cap, any depth of
nesting, any number of queries. The theorems are listed in `PROJECT.json`; here
is what they rest on. Where a module has a type invariant it is proved as well
(`TypeCorrect`, `SessionsTypes`, `ReadingTypes`). In `WorkflowsProofs` that comes
second: `WInv` keeps the types its own proofs need, and the types of all channels
follow from it and from two facts more, that a call which is done has an outcome
and that workers work in a round (`TInv`).

**The schedule** (`PlanScheduleProofs`). `SortedIsSchedule` and `CyclesFound`
(together `SortsOrFindsKnot`)
rest on the loop's invariant: the tasks placed so far are those of the levels,
levels are disjoint and non-empty, everything a placed task depends on stands
earlier (`SharedOut`, `Holds`, `Ordered`), and a task that was not placed in a
level had something unfinished before it (`NoneMissed`), which is why nothing
comes later than it must. When no task is ready the remaining ones form a knot,
and no knot can ever be placed (`KnotsWait`): its first member to be placed
would need another one placed before it. `LoopComputesLevels` adds that a plan
has one schedule at most (`PlanDagProofs`), so the loop's levels are those
`PlanDag` defines without a loop, and the agent model may use those.

**The plan-and-execute agent** (`PlanExecuteProofs`).
`ApprovalSafety`, a gated tool is started only with arguments a human approved
for that task under the plan in effect, is not inductive: a branch starts on the
strength of the `preapproved` flag in its payload, computed earlier, from a
verdict given earlier still, on arguments substituted from results that have
changed since. The invariant `IInv` closes that gap:

- `BranchApproved`: a branch whose flag is set, or that was answered "yes" at
  the call, carries exactly an approved call;
- `GateRecorded`: from the gate to the end of the level, every id in
  `preapproved` is a task of the plan whose call *as it would be substituted
  now* is approved;
- `FlightIsNew`, `InPlan`: branches are tasks of the current level without
  a result, and ids come from the plan;
- `DoneHasValue`: a finished branch has a value to merge.

The heart of it is the lemma `MergeKeepsArgs`: merging the denials of
the gate into the results changes nothing that an approved, resolvable task
refers to, because denials are results of tasks that had none. So the
arguments the human saw are those dispatch sends.

The other invariants of the agent need a second one, `RInv`, that ties the
cursor to the plan: the levels are the schedule of the plan (`Scheduled`);
results and branches cover exactly the levels below the cursor, or up to it
(`CursorMatches`); branches belong to the current level and no earlier task
failed (`LevelRuns`); what was denied is settled, what ran has a result or a
branch (`Settled`); what was approved has run or still will (`Used`); what is
worked on is what the human let through (`Blessed`); and a run that is not over
has no error, no rejection and no status (`Working`). Its steps use that a
task's dependencies lie in earlier levels, so that a gate's verdict never
touches what its siblings refer to. From it follow `DenialStands`,
`ApprovalsAreUsed`, `GateAsksForAll`, `LevelsInOrder`, `ResultsAreThePlans`,
`BlessedPlansOnly`, `EndsAsItSays` and the action properties `ResultsOnlyGrow`
and `RejectedMeansStopped`. `PlanExecuteImplementsContract` adds where the agent
may pause (`PausesWhereAsked`) and maps each action to a step of `AgentContract`
or to none.

**The ReAct agent** (`ReactProofs`). `OneStepPerAct`, `EntriesAllowed`,
`StepsFoldedOnce`, `EndsAsItSays` and `ReactImplementsContract`, from `Going` (a
run that goes on has steps left and no status) and `EntryCount`: the tool of the
act in hand was entered once for each answer it has, once more if it is the one
that waits, and never before its gate was answered.

**The workflow patterns** (`WorkflowsProofs`). One invariant, `WInv`, for a
thread of any of the five patterns and any number of queries on it. Its common
part says of each call of a step how often its tool has been entered, by the
answers the call has had (`CallOK`): once for each answer to a question of the
tool, once more if it waits for the next or is done, never before the gate's yes
and never under a read-only scope it may not be used in. From it follows
`CallsAllowed`; it survives the answer to several interrupts at once because
each branch gets its own. Each pattern adds what its nodes leave for the next:

- `ChainInv`: every step done has an output that did not fail. The step that is
  next may have left a failed one, and if it shares its name with a step done,
  has overwritten that one's output: but then the chain is not over, so
  `EndsAsItSays` holds for threads in any state and steps of any names;
- `FreshChain`: on a fresh thread the dict holds exactly the steps done, in
  order, from which `ChainInOrder` follows. Here names must differ
  (`StepsNamedApart`): `{previous}` is looked up by insertion order;
- `RouterInv`, `ParallelInv`, `EvalOptInv`, `OrchestratorInv`: what the route,
  the branches, the draft and the work of *this* run are at each node, whatever
  the channels still hold of earlier ones. `AllBranchesCombine` needs sections
  of different names (`SectionsNamedApart`), as `combine` looks at one result a
  name. In the orchestrator the worker without an objective makes no call, so a
  step that has one can end in its exception only.

`WorkflowsImplementContract` needs besides that a status is written by the step
that ends a run and by none before (`Common`), and that nobody waits before or
after a step that is not a call (`Onward`).

**Structured calls** (`LlmCallsProofs`). `TracedUsage` needs that a node has its
thread to itself while its call goes on (`ThreadsApart`) and that after a reply
the slot of that thread holds this request's usage or none (`UsageHeld`): a
client that does not report usage for a reply clears the slot, and one that never
reports never writes it. `RequestsFollow` is by `LastRequest` and `InOrder`, what
is known of the latest request by where the node is. `EndsAsTold` counts: the
refused replies are the errors fed back, and one more while the latest is being
handled (`Counted`).

**Nested agents** (`DelegateProofs`). `NestedCallsAllowed` and `ReadAsDeclared`,
from `Shape`: the scopes of a branch are as deep as the levels being executed,
only agents have levels below them, and the scope of a level is read-only
exactly if an agent above it is. It holds after a question because the scopes
are gone and rebuilt along the frames that are still there.

**Registries** (`HarnessProofs`), for any patterns, registered by any number of
threads, each key a step of its own. The invariant `IInv` has to say what is true
in the middle of a registration:

- `NoDangling` and `WrittenSoFar`: an alias in the table leads to a name in the
  table, because whoever is at its aliases has written the name;
- `TableWhole`: a name in the table has all its aliases there, or somebody is
  still writing them;
- `RivalsClash`: two patterns that share a key, one of them being registered and
  the other registered or being so, are both known to be rivals -- this is where
  the test of `register` counts;
- `OwnKeys`: what the tables have for the keys of a pattern without a rival is its
  own;
- `ImportedWhole` and `ImportFits`: what the import has got through is there, and
  what it is at is the next built-in pattern.

From it follow `AliasesLead` and `ImportIsWhole`, together `TablesStand`
(`TablesWhole`), `NamesKeep` (`PatternsStay`: a key of a pattern without a rival
is written once) and `CallsKeep` (`CallsStay`).

**Command-line runs** (`HarnessProofs`), for any number of processes and programs
that resume, any steps, branches and questions, and any `Keep`. `AnswersAlwaysFit`
(`AnswersFit`) is a chain through every moment at which a process may die:

- `OneDriver`: a thread is driven by its own process or, once that is dead, by one
  other program; `StepsFit`: where the thread and its branches are;
- `GoesFit`: a go runs only branches that are not done, each at most once, and all
  that have not paused;
- `VerdictsFit`: who asks shows what the thread asks, for no branch moves meanwhile,
  and the answer a branch will be given is to the question it is at -- until it has
  run, after which the same verdict is to an earlier one;
- `TookFits`: an answer is taken once by a driver, for a question that is in the
  file as answered, or of a branch that has run and is not yet written. A process
  that dies there leaves `took` and not `kept`, and its successor is asked again;
- `KeptFits`: the file has an answer for each question behind the run, and one.

It assumes of a program's steps only that their branches are finite in number and
that each asks something.
`PruningAlwaysFits` (`PruningFits`) is about listings and deletions that overlap.
That the file ends within its limit is not a fact about any one process: a
listing may be out of date when its deletion comes. The invariant `ListedLast`
says that once every run that began has listed, some listing was the last to be
made: what it left out is at most `Keep` rows (`LeavesKeep`), for checkpoint ids
differ (`IdsDiffer`) and nothing but deletions happened since. That
nothing is lost while no more runs began than are kept is `NothingSurplus`.

**Reading** (`HarnessProofs`), for a document, a window and a scratchpad of any
length and every `keep_recent`, 0 included. `ReadingHidesNothing`
(`NothingIsHidden`) rests on an invariant of the scratchpad: the pointers in a
step lead back, to text there is (`Sound`); a read is the text its pointer asked
for (`ReadsBack`); and what a prompt shows has been seen. Suppose then that a
cell of the document was not seen and lies ahead of no pointer within reach; call
that cell missed, and every pointer that is not within reach. A pointer ahead of
which something missed lies is missed. Take the last step that holds something
missed which was not followed (the first step holds the cell, and a cell is
nothing to follow): it is out of sight, so the prompt shows a pointer into the
step, which is missed, and so was followed. Of the pointers into the step that
were followed, take the one with the largest offset short of what is missed. Its
read is a later step and either has that very thing, or stops before it with a
pointer further on, which is missed and so was followed: neither can be
(`HiddenNot`). `ReachIsClosed` is what makes "within reach" mean what it says:
each stage of `Reached` follows pointers one step further back, so as many stages
as there are steps are enough. That the recursive function exists (`ReachedIs`)
is shown with the least number for which it would not (`LeastElement`).

**Only model-checked**: everything about liveness (`Terminates`, `RunsEnd`,
`StepEnds`, `ReadingEnds`): the prover has no rule for fairness here. The least
window `ReadingEnds` needs is part of its run for that reason, not of a theorem.

## 5. Findings

Each is a run with `"expect": "violation"` whose property is the repository's
own sentence.

1. **A read's own hint is cut off** (`reading_hint`). A read that does not reach
   the end of its text ends with what to call next, added after a chunk of
   `inline_chars`; the rendering of that read cuts it at `inline_chars` and names
   the read's own step instead, which is what the hint was made to avoid. The
   text is not lost (`NothingIsHidden`), but each such read costs another one.
2. **A prompt chain works once per thread** (`chain_reuse`). The step index is
   no input channel and nothing resets it: a second query skips the steps
   already done, or raises `IndexError` when all were.
3. **A prompt that is too long raises** (`llm_overflow`) out of a workflow
   pattern, because `ask_json` calls the model outside its `try`, and out of a
   ReAct run that compacts, because `compact` is called before the `try` of
   `reason`. Everywhere else it ends the run with a status.

Seen while modelling, and in the models as the code has it, but not stated as
a property of its own:

- `register` says of a key that is taken "already registered", but tests all its
  keys before it writes the first, with no lock: of two registrations that want
  one key and overlap, or one that overlaps with the import another thread's
  lookup has begun, both may pass. The later one takes the key from the other, no
  exception is raised, and `get` leads elsewhere than before (`Setup!clashed`).
- A harness tool whose `args` are no object raises (`React!HarnessRaises`); the
  same arguments to a registry tool become an observation.
- After a failed ReAct run, a run that ends "ok" on the same thread still
  carries the old `error`; plan_execute clears it.
- On a reused thread the first planner prompt of a new query shows the old
  results as those of "the previous plan": they are cleared after the planner
  has been asked.
- Sections of the parallel pattern without names take the tool's; of two of one
  tool only the last is reported.
- An evaluation without `pass` raises `KeyError` after the retries have accepted
  it; likewise a subtask without `objective`.
- With a name used twice in a prompt chain, a replaced value keeps its place in
  the dict `{previous}` is read from.
- `prune_threads` deletes what it listed, also if a thread has been resumed in
  between; with more runs at once than are kept, a pause can be deleted before
  its human has answered (`Sessions!ResumeFails`).
- The trace event of a failed call reports the usage of an earlier call in the
  same thread.
- A null reply makes the planner, the joiner, the policy and `ask_json` try
  again, and raises out of `compact`.

## 6. What is not modelled

- **Text**: prompts, rendering other than what is cut off, templates, wording of
  errors.
- **JSON parsing and coercion** (`Task.from_dict`, `_extract_json`, argument
  schemas): a model's reply is what the parser makes of it.
- **How requests are built**, HTTP and SDK details: a client is what it makes of
  a reply, an overlong prompt and an error.
- **The ranking of `tool_search`**, and which tools it makes visible.
- **What is said with results**: the majority vote, and the templates of the
  chain and the parallel pattern.
- **A dead thread that is not paused.** `Sessions` models deaths in the middle of
  a step and who resumes it, as long as the file shows an interrupt; a thread
  whose last branch was written, or that has not paused yet, is left where it is:
  nothing in `src/` resumes a thread that is not paused. Nor is there a second
  program that resumes what the first one left.
- **Whose answer it is in a torn step** (section 2): LangGraph decides.
- **A read-only scope around a plan-and-execute agent**, in `PlanExecute`; the
  refusal itself is in `Workflow` and `Delegate`.
- **The JSON of a JSON text.** `obs_text` encodes what a read returned again, so
  that quotes and backslashes take one character more with every read of a read.
  `Reading` copies cells as they are: a window cut in the middle of an escape,
  and a text that grows as it is read, are below its abstraction.
- **Trace events** other than those of model calls: they are written and never
  read by the library.
- **Argument parsing, demos, examples, evaluations and tests**: programs that
  exercise the library.
