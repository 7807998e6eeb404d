# PasteTrader in TLA+

A verification project kept beside the backend of PasteTrader (`src/backend/app`): TLA+
modules that model its core, TLC configurations that check them on small instances, and
theorems about them proved with TLAPS. Paths below are relative to `src/backend/app/`,
except those that start with `src/`.

PasteTrader lets a user compose *workflows*: directed acyclic graphs whose nodes are
triggers, tools, agents, conditions, aggregators and adapters. The backend is FastAPI on
asyncio with SQLAlchemy sessions on PostgreSQL. What is delicate in it is not
computation but order: coroutines that share a session, transactions that check and then
write, retries, cancellation, and a graph that is edited while it is being run.

## 1. Inventory

| part | source | state | operations |
|---|---|---|---|
| Workflow executor | `services/workflow/executor.py`, `context.py` | the flag `_cancelled`; the session with its unflushed and flushed rows; outputs and errors in `ExecutionContext`; `skipped_node_ids`, `failed_node_ids`; the levels | `execute`, `cancel`, per-node retry with timeouts, condition routing, marking what is downstream of a failure |
| Graph algorithms | `services/workflow/algorithms.py`, `graph.py` | adjacency and reverse adjacency lists | cycle search, probe of a proposed edge, levels, reachability, dangling nodes, dead ends, critical path |
| Validator and cache | `services/workflow/validator.py`, `cache.py` | validation results by (workflow, version) with a time to live | `validate_workflow`, edge and batch validation, `get_topology`, `check_cycle` |
| Execution services | `services/execution_service.py`, `models/execution.py` | rows of workflow and node executions: status, `started_at`, `ended_at`, `retry_count` | create, start, complete, fail, cancel, skip, increment_retry, statistics |
| Database session | `db/session.py` | transaction, identity map | commit or roll back at the end of a request; `expire_on_commit=False` |
| Workflow editing | `services/workflow_service.py`, `api/v1/workflows.py` | workflows with a version, nodes, edges | update with optimistic locking, delete, duplicate, create and delete nodes and edges, batches, replacement of a whole graph |
| Node processors | `services/workflow/processors/` | the registry; the metrics a processor collects; per call the attempt, the time, the error | `register`, `create`, `execute` with retries, time limit and back-off; conditions, aggregation, adaptation |
| Agents and tools | `services/agent_service.py`, `tool_service.py` | rows with `is_active` and `deleted_at`; the table `agent_tools`; the tool or agent a node names | create, update, delete with a search for references, add and remove a tool, `cleanup_tool_references` |
| User accounts | `services/user_service.py` | rows with a unique address, a password hash, `is_active`, `deleted_at` | create, update, delete, sign in, change the password |
| Schedules | `models/schedule.py` | rows | helper methods that nothing calls |
| HTTP tool executor | `services/executors/http_executor.py` | one client | execute, close |

**How they interact.** The API calls the services inside a session that `get_db` commits
when the request returns and rolls back when it raises. The executor is called by tests
only so far; it asks the validator for the topology, reads the graph again itself, runs
the nodes of each level as tasks of one `asyncio.TaskGroup` that share its session, and
commits twice. `cancel()` is called by another coroutine on the same executor object.
Other sessions edit nodes and edges at any time: nothing locks a workflow that is
running.

**What is hard.**

* The executor reads the graph twice (for the levels, for the inputs) and the edges of
  condition nodes a third time; an edit may fall in between.
* Tasks of a level end in any order, time out and are retried, share the session with
  each other and with `cancel()`, and may bring each other down.
* A failed flush expires every object of the session under the coroutine that uses it.
* The services check a status and write in separate statements of a READ COMMITTED
  transaction, on objects that a session may have kept for long.
* The statistics come from seven queries between which executions move on.
* A request that edits a workflow reads it in up to four SELECTs, checks what it read in
  Python, and writes; nothing locks the workflow in between.
* A validation reads the version, asks the cache, and reads nodes and edges by two
  SELECTs under a time limit; what it finds valid is stored under a version that may be
  the last one but several by then.
* Calls of one processor share its metrics, and end by returning, by raising in any of
  their stages, or by being cancelled.
* Tools and agents are updated, deleted, attached and named by nodes in requests that
  each decide on rows they have loaded.

**What makes each part correct.** Executor: a node starts only when everything it
depends on has settled, gets the outputs of its predecessors, is recorded exactly once
and correctly; what is committed stays; `execute()` comes back; COMPLETED is true. Graph
algorithms: the verdicts are those of the definitions of acyclicity and of levels, and
witnesses are real. Execution services: the timestamps fit the status, no commit slips
between a write and its refresh, every call ends, and a call whose row nobody else
touched is one step of the life cycle. Statistics: no execution is missed and none has
two ends, unless it is written over meanwhile. Workflow editing: no edge outlives its
nodes, an edge that was checked against all others closes no cycle, versions are used up
one by one as long as updates do not overlap, a duplicate is complete. Validator and
cache: what is worked out on a graph that nobody edits is true by the definitions of the
graph, no answer outlives a replacement of the graph, internal errors need a race, and a
validation past the cache is answered by its time limit. Processors: attempts and time
stay within the configuration, retries are reported when they are exhausted and only
then, every call leaves one metric that tells its outcome, and the built-in classes
compute what they say. Agents and tools: what is named by nodes during the whole request
is not deleted, a deleted row is inactive unless an update crossed its deletion, and the
tools of an agent follow what the requests report. Accounts: a password is replaced only
by who gave it, and a deleted account is not active.

`PROJECT.json` lists every part with what is modelled of it, every hazard with the line
where it bites, and for every definition the lines it stands for.

## 2. Modules

| module | models |
|---|---|
| `WorkflowGraph` | graphs as sets of edges; reachability, acyclicity and levels by their definitions, without recursion |
| `NodeDataflow` | the abstract promise of running a workflow: a plan fixes who needs whom, a node starts when what it needs has settled, and settles once |
| `WorkflowExecutor` | `execute()`, `cancel()`, the tasks of a level, the session, the database, and edits by other sessions |
| `WorkflowExecutorProofs` | theorems about it: the schedule, commits and the refinement; what is recorded and reported |
| `KahnLevels`, `CycleSearch`, `EdgeProbe` | the three loops of `algorithms.py`, one iteration a step |
| `DagQueries` | the questions put together from them, and the critical path |
| `DagQueriesProofs` | theorems about it, for every graph |
| `WorkflowValidation` | the checks of the validator as operators on the rows it has read |
| `ValidationCaching` | validation requests, the cache they share, and edits in between |
| `ValidationCachingProofs` | theorems about it |
| `ExecutionLifecycle` | which operation is allowed in which status, and what it assigns |
| `ExecutionService` | the services in concurrent transactions over `ExecutionLifecycle` |
| `ExecutionServiceProofs` | theorems about it |
| `ExecutionStatistics` | `get_statistics` while other sessions commit operations they checked on stale objects, and executors finish |
| `ExecutionStatisticsProofs` | theorems about it |
| `WorkflowEditing` | requests that edit one workflow in concurrent transactions |
| `WorkflowEditingProofs` | theorems about it |
| `ProcessorLogic` | what the six built-in processors compute, as operators |
| `NodeProcessor` | a processor from the registry and its concurrent calls of `execute()` |
| `NodeProcessorProofs` | theorems about it: time and attempts, metrics, and the outputs of the built-in classes |
| `ResourceReferences` | tools and agents, `agent_tools`, and nodes that name them, in concurrent requests |
| `UserAccounts` | accounts and the concurrent operations on them |
| `ResourcesProofs` | theorems about both |
| `MCWorkflowExecutor`, `MCDagQueries`, `MCGraphs`, `MCValidationCaching`, `MCWorkflowEditing`, `MCNodeProcessor`, `MCResources` | instances for TLC |

### WorkflowExecutor

One step is what a coroutine does between two suspensions. `pc` says where `execute()`
is suspended: at the topology's two queries (`QueryTopologyNodes`, `SortLevels`), at the
commit of RUNNING, at the two queries of `_get_workflow_graph_data`, at a level. Each
node has a `task`: idle, running, in the back-off sleep, or ended (done, failed,
*raised* a KeyError because it is missing from `node_map`, *aborted* by the TaskGroup).
`pending`, `flushed` and `dbRecords` are the node rows added to the session, sent in the
transaction, and committed; `status` and `dbStatus` the same for the row of the
execution. `LoseSession` is what a flush that violates a foreign key does.

The locks of `ExecutionContext` have no await in their critical sections, so they never
suspend and are part of the step around them. `max_parallel_nodes` is stored in a
semaphore that nothing acquires; `Launch` therefore starts the whole level.
`execution_order`, the log rows, and the payloads are left out: of an output only its
key in the context is kept, of an input only whose outputs it holds. `max_retries` is a
natural number; for a negative one the loop in `_execute_node_with_retry` has no
iteration, which the schema for retries does not produce.

`cancel()` commits the shared session. When the session is in the middle of another
operation, SQLAlchemy may refuse the commit; the model has both outcomes
(`SessionBusy`), with the assignment made and nothing committed in the second.

Edges are pairs. Two rows may link the same nodes through different handles. The
searches ask about successors only; the in-degrees of the level sort count such edges
once each, on the way up and on the way down (`graph.py:124-133`), so they reach zero at
the same moment; in condition routing each edge is matched by its id, and an edge that
is deleted and created again under another id is left out by the guard of `CreateEdge`.

Other sessions create nodes, too (`CreateNode`; `InitialNodes` says which nodes may be
there at the start). A node that is created before the topology's first query is sorted.
One that comes after it has no part in the run unless an edge of the second query
mentions it; if it comes before `_get_workflow_graph_data` it is fetched (`FetchNodes`),
but as long as it is in no level it never runs.

`NodeDataflow` is what the executor implements: `ImplementsDataflow` maps `needs` to the
edges that were sorted, and `phase[n]` to the task, so that levels and barriers,
sessions, edits and cancellation disappear.

What two edits can do limits what the executor promises. When an edge is created between
the sorting and the second reading of the graph, a node may be followed, in the graph
that is routed on, by one that ran before it; when that edge leaves a condition node, a
node that completed may afterwards get a SKIPPED row. `RoutedAroundNeverRuns` and
`InputsComplete` therefore say `edges \subseteq topoEdges`: no edge came in between the
two readings. When a node is deleted, its task raises, or the flush of its row fails:
`CompletedIsTrue` and `EveryNodeReported` say `NoneDeleted`, that every node which was
ever there still is. Both speak of the nodes of the levels: a node that was created
after the sorting is in none, never runs and need have no row, and the run is COMPLETED
all the same. All other properties hold whatever is edited.

### The graph algorithms

`KahnLevels` takes the nodes of the current level one by one, in any order;
`CycleSearch` has the call stack of the inner `dfs()` as `path`, and the neighbours each
call has not yet looked at as `todo`; `EdgeProbe` has the queue and the parents of
`detect_cycle_with_proposed_edge`, with a node in the queue as often as the code puts it
there, and the rebuilding of the path as steps of their own. The order in which
neighbours come is the database's and is left open.

`DagQueries` composes them as the validator does. A "topology" is `get_topology` and
`_generate_topology`: a cycle search, and if it finds none the levels, then the critical
path, whose recursive `dfs()` is here a table `memo` that grows by one returned call per
step. "levels" is `topological_sort_levels` on a graph that nobody has searched, as the
executor calls it; "probe" is the search for a proposed edge. `CriticalPathIsLongest`
relates two algorithms: the critical path has as many nodes as there are levels.

### Validation and its cache

`WorkflowValidation` has one operator per check of `DAGValidator`, on the rows N and E
that were read one after the other and need not fit together: `_build_graph` adds the
ends of edges it does not know, so the graph may have nodes that were not read. Two
places in the code look up a node's position without asking whether it was read; the
operators answer "crash" there. Config expressions, schemas and variables are kept as
far as the checks tell them apart: the names referred to, the types given and taken.

`ValidationCaching` is one request per session: `LookUp` reads the version and, with the
cache in memory, answers or misses in the same step; with Redis the answer is another
one. `SelectNodes` and `SelectEdges` are the two SELECTs, and everything after the
second one runs without a suspension. `TimeOut` is what `wait_for` does. `GetCached`
lets an entry expire at any time. `basis` and `floor` are history: after how many edits
the nodes were read, and after how many the graph had been replaced when the version was
read. The edits are those of `WorkflowEditing`, reduced to what they do to rows and
version.

With Redis nothing is ever stored: `json.dumps` of the dumped result meets a UUID and
raises, and `set()` swallows what it raises (`cache.py:191-234`). The model has the
failing write as no change, so that only the cache in memory answers.

### Node processors

`ProcessorLogic` has what `process()` returns or raises, over abstract values: numbers,
texts as sequences of tokens, dicts as functions (as sequences of items where the code
iterates over them), lists. What `eval()` makes of a condition is an input of the model.
`NodeProcessor` is the life of `execute()`. The hooks of the built-in classes never
suspend, so their `execute()` is one step, and nothing they raise is retried:
`ExecuteBuiltin`. A class the application registers may suspend, take time, raise and be
cancelled in each hook; time is counted in units and only an attempt of `process()` is
limited. `Finish` is the `finally` block: whichever way a call ends, its metric is
appended in the same step.

### Tools, agents and accounts

`ResourceReferences`: a request loads its target (`Load`), and deletes it after a search
for references (`CheckUse`, then `SoftDelete`), updates it, or changes the tools of an
agent on the list it has loaded. An attribute is written only when it differs from the
loaded one (`Written`), which is what SQLAlchemy does. `agent_tools` has the pair as
primary key, so a second INSERT fails. A DELETE that finds no row succeeds: for the
table of a many-to-many relationship SQLAlchemy compares the number of rows only where
the driver counts them for several statements at once, which it does not take
`postgresql+asyncpg` (`db/session.py:40`) to do. Two requests that remove the same pair
both succeed (`Dissociate`).

`held`, `crossed` and `ledger` are history. `held[r]` is what request r has to see and
has been there ever since it loaded its target (`Watched`): the users of what it
deletes, the agents that have what it takes away. `crossed` are the rows that were
updated and deleted at once. `ledger` counts, per pair, the additions reported since a
request last reported taking the pair away.

`UserAccounts`: the same shape for accounts, with the unique index on addresses, which
deleted rows keep their entry in. The two components share no state; `MCResources` runs
one or the other.

### ExecutionService

A session is at rest or in one of three suspensions of a call: before its UPDATE has the
row lock, before the refresh, before the commit. `held[s]` is the identity map: an
object found there is handed out without a look at the row, until a rollback expires it
or nobody refers to it any more (`Forget`). An UPDATE names the columns that were
assigned (`Columns`) and overwrites those in the newest committed row. Timestamps are
"set or not". `basis` is a history variable: the object as the call found it.

`ExecutionStatistics` has the same races seen from the queries. The other sessions are
not steps of the life cycle there: `Write(e, op)` commits an operation whose status was
checked on some object, as old as you like (`past[e]` holds the statuses an object of e
may show, final ones left out), over whatever the row has become; and an executor
(`executing`) writes COMPLETED at its end without a check (`Finish`). The history
variable `overtaken` holds the executions that were so written over in a status that
forbids it, `disturbed` those of them since the counting began. An execution that is
disturbed can be missed, or be counted in two final statuses, and one counted COMPLETED
can be gone when the average is asked for; the properties say that this is the only
reason. Where timestamps come from different attempts the average may be negative, and
`get_statistics` reports None.

### WorkflowEditing

A session serves one request after the other. `at[s]` says what its request does next:
load the workflow with the version check, load it `again` with its nodes and edges
(three more SELECTs), load the node or edge to delete, validate the next edge of its
batch (`_validate_dag` reads first the nodes, then the edges), or write. Reads see what
is committed by then. What a request writes is one step, taken at its commit: from its
first write on it holds the locks that keep others from touching what it wrote, and
nobody sees its rows before. `Abort` rolls back at any point.

New nodes get identities nobody had (`born`), so a client can name them only after their
creation. `Foreign` are nodes of other workflows: the replacement of a graph inserts the
client's edges without looking whose nodes they join. `Handle` stands for whatever tells
apart edges between the same nodes.

`unchecked`, `overtaken`, `used`, `reused` and `stable` are history variables. They say
when the guarantees of the code end: `unchecked` once edges came in together, or while
others came in; `overtaken` once an UPDATE wrote over a version it had not loaded. The
executor's environment (`DeleteEdge`, `CreateEdge`, `CreateNode`, `DeleteNode`) is the
part of this module that a run can notice, one request at a time.

`GUID.process_bind_param` (`models/base.py:42`) returns None on PostgreSQL; the model
reads it as if it bound the value, without which no row could be found.

## 3. Runs

| run | instance | states | shows |
|---|---|---|---|
| `ExecutorCore` | all acyclic graphs of 4 nodes up to renaming and one with a cycle, one condition node, one node with a retry, no edits | 51 000 | types, one outcome per node, every node reported, commits stay; `execute()` comes back |
| `ExecutorEdited` | all acyclic graphs of 3 nodes up to the exchange of the two condition nodes, and a cycle, where the third node may come late; two edits of any kind, the creation of nodes included | 464 000 | predecessors first, inputs, no level after `cancel()`, routed-around nodes never run, COMPLETED is true; the dataflow is implemented; `execute()` comes back |
| `DagQueries` | all graphs of 4 nodes without loops, of 3 nodes with loops; every proposed edge | 333 000 | the levels are the only ones there are, cycles returned exist, no cycle is missed, rebuilding a path ends, the critical path is as long as there are levels |
| `ServiceConcurrent` | 2 sessions, 2 calls each, a workflow execution and a node execution | 64 500 | timestamps fit, no commit slips in, calls end, a call on an unchanged row is one step of the life cycle |
| `Statistics` | 2 executions, each of the services or of an executor | 1 672 000 | unless an execution is written over meanwhile, it is not missed, has not two ends, and gives an average when it was counted as completed |
| `Editing` | 2 sessions (interchangeable: symmetry), 2 of 12 requests each, 2 nodes and an edge at first, a third node and two foreign ones | 74 500 | foreign keys, cycles only from unchecked edges, versions used once, complete duplicates |
| `ValidationCaching` | 2 sessions, the first with 8 different requests; 2 edits of any kind; 3 nodes and 2 foreign ones; both caches | 237 000 | no answer outlives a replacement, fresh verdicts are true, errors need a race, a validation past the cache is answered |
| `NodeProcessor` | 2 interchangeable calls, every built-in class with 4 to 60 inputs, a registered class; retry limits 0 and 2 | 308 000 | metrics tell outcomes, attempts and time within the budget, retries reported exactly when exhausted, outputs are right |
| `Resources` | a tool, 2 interchangeable agents, a node, 3 interchangeable requests; or 2 accounts, 3 spellings of 2 addresses, 2 passwords, 2 interchangeable calls | 427 000 | what nodes use stays, deleted is inactive, the tools of agents follow the reports, passwords are handed over |

Runs that show a disagreement between the code and what the repository says of it:

| run | what the code does |
|---|---|
| `Executor_DownstreamOfFailureBlocked` | nodes downstream of a failed node run, and are marked SKIPPED after the last level |
| `Editing_StaysAcyclic` | the edges of a batch are checked one by one against the stored edges, never with each other |
| `Resources_AgentsKeepTheirTools` | the search for agents that use a tool compares a string with `Tool` objects and finds none: the tool is deleted |

**Bounds.** For the executor, four nodes give every shape the level loop distinguishes:
chains, fans, the diamond, unequal branches, independent parts. Two edits (`MaxEdits`)
are what it takes to bring an edge in and out again between two of the three reads of
the graph; three nodes suffice for a condition, what it routes around, and what comes
after. One retry (`MaxRetries`) exercises success at once, success after a time-out, and
exhaustion. Two sessions and two calls give every pair of overlapping service operations
and, with the first call, a stale object for the second. `MaxRetry` bounds `retry_count`
and with it the way back from FAILED to PENDING. The counts of `Statistics` are about
one execution each; only the average takes them together, and there a second one can
give the value or the disturbance that the first does not. For `Editing`, two requests
per session give, besides every pair of overlapping requests, a creation and a deletion
during one request of the other session; three nodes give cycles of two and three edges.

For `ValidationCaching`, `MaxServed = 1` and two sessions make the second meet an entry
the first stored, and two edits make a torn read, a replacement before or during a
validation, and an update overtaken by another; `Batches` and `NewGraphs` contain a
batch that closes a cycle together, a second edge without handles, and edges of a
foreign cycle. For `NodeProcessor`, a retry limit of 2 with `MaxDelay` below the second
back-off tells the capped delay from the uncapped one; `Timeout = 1` unit tells an
attempt that takes time from one that does not. For `Resources`, three requests are a
deletion, an update that crosses it, and one more, or an addition and two removals; with
two agents a clean-up has several to go through. The theorems of section 4 hold without
these bounds.

**Fairness.** `WorkflowExecutor` assumes weak fairness of `Step`: the event loop resumes
a coroutine that is ready, timers fire, the database answers. Nothing is assumed of
`cancel()`, of edits, or of closing the session. `ExecutionService` assumes, per
session, weak fairness of `Proceed`: the statement under way is carried out once its
lock is free. No caller is assumed to call, to roll back or to let go of objects. Weak
fairness is enough for the lock since a session makes finitely many calls.
`ValidationCaching` assumes, per session, weak fairness of `TimeOut` alone: the timer of
`wait_for` fires. The database may never answer; a request that waits for the first
SELECT or for Redis is outside the limit, and nothing is claimed of it.

**Deadlock** is not checked where the system may stop: when `execute()` is over, when an
algorithm has its answer, when callers or clients stop calling. `Statistics` checks it.

## 4. Proofs

All theorems hold for every value of the constants, under the assumptions the modules
declare (finite `Node`, natural bounds, `Conditions \subseteq Node`; identifiers of
different tables disjoint; the first edges of a workflow join its first nodes; tables
and requests have finitely many rows, `FiniteRowsAssumption`; what a caller gives as a
list is a sequence and as a number an integer, `InputAssumption`). `PowerAssumption` of
`NodeProcessor`, that the powers of the back-off's multiplier are natural numbers, is a
fact of arithmetic that the provers have no axioms for.

**WorkflowExecutorProofs.** `TypeCorrect`, `DependenciesHold` (PredecessorsFirst),
`CancellationStops` (CancelStopsAtLevel), `CommitsAreFinal` (CommittedStays) and
`Refinement` (ImplementsDataflow). The invariant is `TInv` (types, and that `pc` and the
session agree), `ScheduleInv` and `DurableInv`. None of the properties is inductive:
that predecessors have settled follows from levels that grow along sorted edges, *and*
that every node of a level before the current one has settled, *and* that tasks are
active only between launch and join. `ScheduleInv` says this; every action is then
checked against it. `DurableInv` says that what is committed is among the flushed rows
and that COMPLETED in the database goes with COMPLETED in the session, so that no later
commit writes less.

The same module proves `OutcomesAreUnique` (OneOutcomePerNode), `InputsAreComplete`,
`RoutingIsFinal` (RoutedAroundNeverRuns), `CompletionIsTrue` (CompletedIsTrue) and
`FailureIsReported` (EveryNodeReported), on top of the schedule above. The lemma `Kinds`
first sorts the steps: those that move no task and make no row, the launch of a level,
the steps of one task, and the three that skip nodes or give them up. The invariant
`OInv` adds to the properties who makes which rows (`RowsInv`), that outputs are there
exactly for tasks that are done (`OutputsInv`), that what a condition routes around lies
behind the current level (`SkippedInv`: here the sorted levels and the fetched edges
must agree, whence the premise of `RoutedAroundNeverRuns`), that only nodes which were
there are sorted, fetched and recorded (`BornInv`), that as long as no node is deleted
every node of the levels is fetched and accounted for (`WholeInv`), and what holds at
the end (`EndInv`).

**ExecutionServiceProofs.** `TypeCorrect`, `TimestampsFit` (WorkflowTimesFit),
`NothingSlipsIn` (RefreshIsCommitted) and `FreshCallsFollowTheLifecycle`
(FreshCallsAreSteps). The invariant `SInv` adds what the call under way will write
(`CallFits`, `UpdateReady`, `UpdateSent`), that it holds the row lock, and the reason
why stale objects do no harm to timestamps (`RunningWasStarted`): an object of a
workflow execution that says RUNNING may be as old as it likes, its row has
`started_at`, for no operation on workflow executions clears it. For node executions,
which `increment_retry` resets, this fails; the property is therefore about workflow
executions. `BasisInv` follows a call from the object it found to its commit: the status
it found allowed the operation, the UPDATE names the columns the operation changed in
that object, and carries what it assigned to them. When the row still is that object,
the columns left out have the right value already, so the commit is the whole step.

**ExecutionStatisticsProofs.** `NobodyMissed`, `CountedFinalOnce`, `AverageIsThere`. The
argument for the first is that the order of `ExecutionStatus` is one which every
operation follows: an execution that is neither counted yet nor disturbed is in a status
whose query is still to come. For the second, a final status is kept by all but writers
that disturb. The third needs that stale writers do no harm to timestamps
(`CompletedIsTimed`): an object that says RUNNING may be as old as it likes, its row has
`started_at`, so a row that is COMPLETED has both.

**WorkflowEditingProofs.** `EditingTypeOK`, `EditingCycleNeedsRace`,
`EditingVersionsUsedOnce`, `EditingDuplicateLosesNothing`: all that `Editing` checks.
The invariant `EInv` adds to these what a session knows (`Known`): that its single edge
closes no cycle among the edges it saw, that it loaded the version its client named, and
that the edges which were there all the time are among those it read. The core is the
lemma `CheckedEdgeAcyclic`: an edge that closes no cycle among the edges seen may be
added to any acyclic part of them. Reachability has no induction here (it is defined by
closed sets), so the argument is one about sets that separate the ends of an edge: if D
separates the new edge in what was seen, and C an old edge in what is there, then `C
\cap D` or `C \cup D` separates the old one with the new one added.

**ValidationCachingProofs.** `AnswersKnowTheReplacement` (ReplacementSeen) and
`CrashesNeedARace` (CrashNeedsRace). The first is not inductive: an entry may be stored
long after its version was read, by a session that saw the graph before a replacement.
`CInv` says why it does no harm (`VersionsGrow`): as long as no update overtakes another
one the version only grows, a replacement bumps it, so whoever stores under the present
version read it after the last replacement, and its nodes later still
(`ReadAfterFloor`). The second needs that rows fit together until something is replaced,
and that a session whose nodes are not outdated has read what is stored (`RowsFit`); the
lemma `WholeGraphNoCrash` goes through the checks.

`FreshVerdictsAreTrue` (FreshVerdictIsTrue) compares an answer put together from several
reads with a statement about the whole graph. `FreshAnswers` says that an answer whose
basis is the present epoch is one of the outcomes of its request on the rows there are:
every commit starts a new epoch, so only the step that answers has to be looked at. The
rest is about the checks (`StandardVerdict`, `EdgeVerdict`, `BatchVerdict`): no errors
in the list means what the property says. Its graph half is that acyclic graphs are
those that can be sorted into levels (`LevelledIsAcyclic`, `AcyclicIsLevelled`, for
which the tables must be finite), and that everything is reached from the first level
(`ReachedFromFirstLevel`), where only triggers stand.

**NodeProcessorProofs.** `CallsStayWithinBudget` (WithinBudget). `NInv` says what a call
under way may have used: the time of the attempts that failed and of the delays after
them, that it waits only when another attempt is allowed, and how many attempts failed
with an exception that may be retried, which is what the report of retries hangs on: it
is made if and only if `max_retries + 1` attempts have failed so.

`MetricsTellTheOutcomes` (MetricsTellOutcomes): `MInv` says that no call has two
metrics, that the calls with one are those that have ended and are not cleared, and that
a metric agrees with its call. The counts of the summary are cardinalities of sets of
indices; that no call has two metrics makes the map from indices to calls a bijection
(`MetricsCount`).

`OutputsAreRight` (OutputIsRight): the state's part is small (`OInv`: a call of a
built-in class has returned what `Process` answers for one of its inputs); the work is
in what the loops of the processors compute. The folds of the community modules are
defined by recursion over sets of indices, of which the provers know nothing but the
definition: `FoldExists` shows that there is such a function, `Counted` is induction
over `0 .. n` by a least counterexample, and with both each loop gets an invariant of
its own, the one a reader of the code has in mind. After i sources the last that gives a
key decides it (`LastGiverWins`, for merged sources and mapped fields); after i
conditions the first that held is kept (`ScanKeepsFirst`); after i items the filter has
those over the threshold and no others, in their order (`FilterIsRight`: an item that is
kept stands where as many kept ones precede it); a list is the concatenation of its
pieces (`CollectIsRight`), and a sum does not depend on the order (`SumIsRight`).

**ResourcesProofs.** `NodesKeepTheirResources` (InUseStays), `DeletionDeactivates`
(DeletedIsInactive), `ReportsAreTrue` (PairsFollowReports). `RInv` says what a request
under way has read (`Prepared`), that nodes in `held` still name its target and that
there are none once it has checked (`NodesWatched`), which stale `is_active` an update
or a deletion may hold (`Crossing`), that the ledger is 1 where the pair is there and 0
elsewhere (`LedgerIsRight`), and that a removal has loaded every agent that has had the
tool all the time (`AgentsWatched`). About accounts, `PasswordsAreHandedOver`
(PasswordHandOver): `AInv` adds that what a call has loaded is still in the row, or the
call is overtaken (`KnowsItsRow`).

**DagQueriesProofs.** Everything the graph runs check of the answers: `CyclesAreReal`
(CycleIsReal), `NoCycleIsMissed` (VerdictIsRight), `RebuildingEnds` (RebuildEnds),
`LevelsAreTheOnlyOnes` (LevelsAreForced), `CriticalPathSpansLevels`
(CriticalPathIsLongest), for every finite graph. The invariant has a part for each
algorithm:

* `SInv`: the path holds the nodes whose `dfs()` runs and follows edges; what has been
  finished is closed under successors, so no cycle goes through a node when it joins
  (`FinishedInv`).
* `PInv`: everything queued was reached from the proposed target. Why the rebuilding
  loop ends, although entries of `path` are overwritten: an entry changes only until its
  node is visited, and then it names a node visited before; `OrderInv` says that there
  are numbers for the nodes which decrease along `path`.
* `LInv`: `in_degree` counts the edges that still keep a node waiting (`DegreeInv`), the
  current level comes just after the one before it (`LevelInv`), no level is empty
  (`DepthInv`). That all nodes get sorted is the lemma `FirstOfSet`: in an acyclic graph
  some node of every set has no predecessor in it.
* `CInv`: what `dfs()` of the critical path remembers for a node is longer than for its
  successors, and not longer than the levels that are left.

Where one would use induction, along paths or down the levels, the proofs take a least
counterexample (`LeastNumber`, `SmallestSet`), which needs no theorem with an operator
as its parameter.

**Model-checked only.** Liveness (`ExecuteReturns`, `CallsEnd`, `PastLookupAnswered`):
fairness and ENABLED are beyond the provers. Every safety property a passing run checks
is a theorem.

## 5. Seen in the code, without a run of their own

Executor and graphs:

* `max_parallel_nodes` is never applied (`executor.py:90`), though
  `src/.moai/specs/SPEC-011/spec.md:341` bounds the parallelism.
* COMPLETED overwrites a committed CANCELLED (`executor.py:164`); the definition
  `CancelledIsFinal` states the contrary and fails. `CompletedIsTrue` and
  `CommittedStays` say what holds all the same.
* The FAILED row of a node has `retry_count=0` whatever was tried (`executor.py:577`).
* `execution_order` restarts in each level and is the same for its nodes
  (`executor.py:515`).
* `cancel()` of an execution that is PENDING leaves the row PENDING (`executor.py:211`).
* The `except` of `execute()` returns FAILED and leaves the row RUNNING
  (`executor.py:186`); `src/.moai/specs/SPEC-011/acceptance.md:143` expects FAILED.
* A node deleted between the reading of the topology and of the graph raises KeyError
  outside the try (`executor.py:527`): its siblings are cancelled, leave no row, and the
  run may still end COMPLETED: the premise of `CompletedIsTrue`.
* A node created between the readings of the topology (`validator.py:537`) and of the
  graph (`executor.py:798-801`) is fetched but in no level: it never runs and has no
  row, and `execute()` says COMPLETED. `CompletedIsTrue` is about the nodes of the
  levels.
* `detect_cycle_with_proposed_edge` marks nodes when it takes them from the queue and
  expands every copy (`algorithms.py:166`): more than the O(V + E) its docstring gives.

Services:

* Of two operations that both passed the check, the second overwrites a final status
  (`execution_service.py:186`); the definition `FinalStays` states the contrary and
  fails.
* Two concurrent `increment_retry` count once (`execution_service.py:593`), and one that
  overlaps `complete` clears the timestamps of a finished node (`:595`).
* `total` in the statistics is a sum of counts taken at different times (`:296`). An
  execution that is written over meanwhile may be missed altogether (running, cancelled
  before the count of RUNNING, set RUNNING again after it by a start that had passed its
  check) or be counted both COMPLETED and CANCELLED.
* A negative average duration, from timestamps of different attempts, is reported as
  None (`:323-330`), as if nothing had completed.

Editing:

* Two updates that overlap may both be accepted with the same version, and the version
  may even fall, when one that loaded long ago commits last
  (`workflow_service.py:207-223`).
* Two edges created at the same time may close a cycle (`workflow_service.py:541`): the
  race behind `CycleNeedsRace`.
* The replacement of a graph cannot create edges among its new nodes, whose identities
  the client does not know, and validates no edge (`api/v1/workflows.py:1111-1130`); of
  two that overlap both sets of nodes remain.
* Nodes and edges can be created in a workflow that is soft-deleted
  (`workflow_service.py:329`): the lookup does not ask for `deleted_at`.

Validation:

* The creation and deletion of nodes and edges change no version and never call
  `cache.delete`, so a cached answer is stale until it expires, although `cache.py:78`
  promises "Automatic cache invalidation on graph modifications". `ReplacementSeen` is
  what remains true.
* The key of the cache has neither the level nor the limits asked for: a workflow found
  valid at level "minimal" is answered "valid" at "strict" (`cache.py:127-141`).
* With Redis nothing is ever stored (section 2).
* `max_depth` and `include_warnings` are accepted and not used; the SELECT of the
  version is outside the time limit (`validator.py:69-118`).
* A batch of edges found valid may still be refused edge by edge, and a batch that
  `EdgeService` accepts may be found invalid here: only the validator looks at the batch
  as a whole.

Processors:

* `timeout_seconds` limits an attempt, though `base.py:36` documents it as the maximum
  execution time: with retries a call takes the multiple `WithinBudget` states.
* A time-out is never retried (`base.py:245-251`) although it is listed among the
  retryable errors (`base.py:218`) and `src/.moai/specs/SPEC-012/acceptance.md:107-118`
  expects it.
* `metrics.retry_count` is never set, where `acceptance.md:119` expects 2;
  `total_duration` leaves out the stage that failed; a cancelled call is a failure
  without an error type.
* The `retry_count` of an exhausted error is the number of attempts, 4 for `max_retries`
  3, where `errors.py:54` says "Number of retry attempts made" and AC-012-003
  (`acceptance.md:145`) expects 3. `WithinBudget` says when retries are reported, not
  how many.
* When no condition holds, the condition processor takes the last one
  (`condition.py:135-138`), as AC-012-007 (`acceptance.md:291`) has it for an else
  branch; the docstring (`condition.py:89-90`) promises a ProcessorExecutionError, which
  is never raised. `OutputIsRight` states what the code does.
* The executor does not use the processors.

Agents, tools, accounts:

* `add_tool` accepts a tool that is inactive or soft-deleted, though the docstring at
  `agent_service.py:307` says active.
* An update of an agent that gives `model_provider`, `model_name` or `tools` raises.
  `api/v1/agents.py` and `tools.py` catch exceptions by names they do not import; either
  way the request is rolled back.
* `cleanup_tool_references` has no caller.
* Two requests that remove the same tool from an agent both succeed
  (`agent_service.py:369-373`), and so does the removal of a tool that the loaded agent
  does not have: it changes nothing.
* The address of a deleted account cannot be used again, and `get_user` finds deleted
  accounts.

## 6. Not modelled

* *Schedules*: a table with helper methods that nothing calls; there is no scheduler.
* *HTTP tool executor*: one request through a client library; no shared state.
* *Schemas, configuration, logging, hashing, tokens, migrations*: no protocol state.
  What a schema lets through is a guard of the action it guards.
* *`ExecutionLogService`* appends and lists.
* *Of the graph algorithms*: `validate_dag`, which nothing calls and which repeats two
  others.
* *Of editing*: creation of workflows, changes of a node's fields, listing.
* *Of the cache*: `delete()` and `close()`, which nothing calls; several worker
  processes, each with a memory of its own, would only make more misses and keep stale
  entries no longer.
* *Of soft deletion*: `restore()`, which nothing calls.
* *The front end* is a start page; the container files hold no program logic.

## 7. Plan

Each module is written so that it can be proved about.

1. *Done:* executor, dataflow, graph algorithms and their composition, execution
   services, statistics, editing, validation and cache, processors, tools and agents,
   accounts, and the proofs of section 4.
2. The executor composed with the cancellation of the API, which writes the same row
   from another session, and with the replacement of a graph.
3. Changes of a node's fields in `WorkflowEditing`, and what `ResourceReferences` sees
   of them.
