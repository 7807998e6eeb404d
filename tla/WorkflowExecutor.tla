--------------------------- MODULE WorkflowExecutor ---------------------------
(***************************************************************************)
(* WorkflowExecutor.execute() and cancel() (services/workflow/executor.py) *)
(* on one workflow: the topology is computed, the graph is fetched again,  *)
(* and the nodes run level by level, those of a level as parallel tasks    *)
(* with retries and timeouts.  Concurrently somebody may call cancel() on  *)
(* the same executor, and other sessions may edit the workflow in the      *)
(* database.                                                               *)
(*                                                                         *)
(* A step lasts from one suspension of a coroutine (an await that really   *)
(* suspends: a database call or a timer) to the next.  The asyncio locks   *)
(* of ExecutionContext never suspend (no await inside their critical       *)
(* sections), so context reads and writes are part of the step around      *)
(* them.  All tasks of a level are queued by one loop without an await and *)
(* run up to their first timer before any of them can end; launching a     *)
(* level is therefore one step.                                            *)
(***************************************************************************)
EXTENDS WorkflowGraph, FiniteSets

CONSTANTS
    Node,          \* node identities
    Conditions,    \* the nodes whose node_type is CONDITION
    MaxRetries,    \* MaxRetries[n]: retry_config.max_retries of node n
    EditKinds,     \* what other sessions do to the workflow meanwhile
    MaxEdits,      \* bound: how many such edits happen
    InitialNodes,  \* bound: the sets of nodes a workflow may start with
    InitialEdges   \* bound: the sets of edges a workflow may start with

ASSUME ConditionsAssumption == Conditions \subseteq Node
ASSUME MaxRetriesAssumption == MaxRetries \in [Node -> Nat]
ASSUME MaxEditsAssumption == MaxEdits \in Nat
ASSUME EditKindsAssumption ==
    EditKinds \subseteq {"deleteEdge", "createEdge", "deleteNode", "createNode"}
ASSUME InitialNodesAssumption == InitialNodes \subseteq SUBSET Node
ASSUME InitialEdgesAssumption == InitialEdges \subseteq SUBSET EdgesOver(Node)
ASSUME NodeAssumption == IsFiniteSet(Node)

VARIABLES
    liveNodes, liveEdges,  \* the rows of nodes and edges in the database
    edits,                 \* how many edits other sessions have made
    born,                  \* the nodes that exist or have existed
    pc,                    \* where execute() is suspended
    topo, topoEdges,       \* topology.execution_order, and the edges it sorted
    nodes, edges,          \* node_map and graph as _execute_by_levels fetched them
    level,                 \* index of the current level
    toRoute,               \* condition nodes of the level not yet evaluated
    skipped, failed,       \* skipped_node_ids and failed_node_ids
    task, attempt,         \* the task of each node and its attempt number
    input, outputs,        \* whose outputs a node received; keys of _node_outputs
    status,                \* execution.status of the object in the session
    pending, flushed,      \* NodeExecution rows added, and sent in the transaction
    dbStatus, dbRecords,   \* what is committed
    result,                \* what execute() gave back
    cancelled,             \* the flag _cancelled
    cancelLevel            \* history: levels begun when the flag was set

workflow == <<liveNodes, liveEdges, edits, born>>
plan     == <<topo, topoEdges>>
snapshot == <<nodes, edges>>
progress == <<level, toRoute, skipped, failed>>
tasks    == <<task, attempt, input, outputs>>
session  == <<status, pending, flushed>>
database == <<dbStatus, dbRecords>>
control  == <<cancelled, cancelLevel>>
vars == <<workflow, pc, plan, snapshot, progress, tasks, session, database,
          result, control>>

------------------------------------------------------------------------------
(* Rows and tasks *)

Active    == {"running", "backoff"}
Ended     == {"done", "failed", "raised", "aborted"}
Statuses  == {"none", "PENDING", "RUNNING", "COMPLETED", "CANCELLED"}
Processes == {"new", "topology", "sort", "running", "fetchNodes", "fetchEdges", "level",
              "route", "tasks", "completed", "returned", "raised", "closed"}

\* A NodeExecution row.  `why` says which code made it: the node's own run, a
\* condition node that routed around it, or the failure of an upstream node.
Record == [node : Node, status : {"COMPLETED", "FAILED", "SKIPPED"},
           retries : Nat,
           why : {"ran", "condition", "upstream"}, by : Node]

SkippedRecord(n, why, by) ==
    [node |-> n, status |-> "SKIPPED", retries |-> 0,
     why |-> why, by |-> by]

LevelNodes == {n \in DOMAIN topo : topo[n] = level}

MoreLevels == \E n \in DOMAIN topo : topo[n] >= level

\* (mutant: routed-around nodes are not filtered out)
ToExecuteAll == LevelNodes

\* The nodes_to_execute of the current level.
ToExecute == LevelNodes \ skipped

Started(n) == task[n] # "idle"

\* Inserting a row whose node is gone violates its foreign key.
ForeignKeysHold(rows) == \A r \in rows : r.node \in liveNodes

\* db.flush(): everything pending is sent.
Flush(rows) == /\ flushed' = flushed \cup rows
               /\ pending' = {}

\* A flush that fails rolls the transaction back and expires every object of
\* the session: the next access to execution.id raises.  Rows wait unflushed
\* only while tasks run, so cancel() can lose the session only then.
LoseSession == /\ pending' = {}
               /\ flushed' = dbRecords
               /\ status' = "expired"

\* db.commit(): flush, then make it durable.
CommitSession(st) == /\ Flush(pending)
                     /\ status' = st
                     /\ dbStatus' = st
                     /\ dbRecords' = flushed \cup pending

------------------------------------------------------------------------------
Init ==
    /\ liveNodes \in InitialNodes
    /\ liveEdges \in InitialEdges \cap SUBSET EdgesOver(liveNodes)
    /\ edits = 0
    /\ born = liveNodes
    /\ pc = "new"
    /\ topo = [n \in {} |-> 0] /\ topoEdges = {}
    /\ nodes = {} /\ edges = {}
    /\ level = 0 /\ toRoute = {}
    /\ skipped = {} /\ failed = {}
    /\ task = [n \in Node |-> "idle"]
    /\ attempt = [n \in Node |-> 0]
    /\ input = [n \in Node |-> {}]
    /\ outputs = {}
    /\ status = "none" /\ pending = {} /\ flushed = {}
    /\ dbStatus = "none" /\ dbRecords = {}
    /\ result = "none"
    /\ cancelled = FALSE /\ cancelLevel = 0

------------------------------------------------------------------------------
(* execute() up to the first level *)

\* A cancelled executor refuses; otherwise the PENDING row is added and
\* flushed, not committed.
Execute ==
    /\ pc = "new"
    /\ IF cancelled
       THEN pc' = "raised" /\ result' = "raised" /\ UNCHANGED status
       ELSE pc' = "topology" /\ status' = "PENDING" /\ UNCHANGED result
    /\ UNCHANGED <<workflow, plan, snapshot, progress, tasks, pending, flushed,
                   database, control>>

\* get_topology() queries the nodes, then the edges ...
QueryTopologyNodes ==
    /\ pc = "topology"
    /\ topo' = [n \in liveNodes |-> 0]
    /\ pc' = "sort"
    /\ UNCHANGED <<workflow, topoEdges, snapshot, progress, tasks, session,
                   database, result, control>>

\* What _build_graph makes of rows N and E: the ends of an edge are nodes of the
\* graph, too, when they were created after the nodes were read.
GraphNodes(N, E) == N \cup {e.source : e \in E} \cup {e.target : e \in E}

\* ... and sorts them into levels, whereupon the row becomes RUNNING.  A cycle
\* makes execute() return FAILED and leaves the row as it is.
SortLevels ==
    /\ pc = "sort"
    /\ LET N == GraphNodes(DOMAIN topo, liveEdges) IN
       IF Acyclic(N, liveEdges)
       THEN /\ topo' \in [N -> 0 .. Cardinality(N) - 1]
            /\ IsLevelling(N, liveEdges, topo')
            /\ topoEdges' = liveEdges
            /\ status' = "RUNNING"
            /\ pc' = "running"
            /\ UNCHANGED result
       ELSE /\ pc' = "returned"
            /\ result' = "FAILED"
            /\ UNCHANGED <<plan, status>>
    /\ UNCHANGED <<workflow, snapshot, progress, tasks, pending, flushed,
                   database, control>>

CommitRunning ==
    /\ pc = "running"
    /\ CommitSession(status)
    /\ pc' = "fetchNodes"
    /\ UNCHANGED <<workflow, plan, snapshot, progress, tasks, result, control>>

\* _get_workflow_graph_data: two queries, each sees what is committed by then.
FetchNodes ==
    /\ pc = "fetchNodes"
    /\ nodes' = liveNodes
    /\ pc' = "fetchEdges"
    /\ UNCHANGED <<workflow, plan, edges, progress, tasks, session, database,
                   result, control>>

FetchEdges ==
    /\ pc = "fetchEdges"
    /\ edges' = liveEdges
    /\ pc' = "level"
    /\ UNCHANGED <<workflow, plan, nodes, progress, tasks, session, database,
                   result, control>>

------------------------------------------------------------------------------
(* One level *)

\* Queue a task for every node of S and run each up to its first timer: it
\* gathers its input and begins attempt 0, all at once: the semaphore made for
\* max_parallel_nodes is acquired by nobody.  A node missing from node_map raises
\* KeyError outside the try of execute_single_node.
Launch(S) ==
    /\ task' = [n \in Node |-> IF n \notin S THEN task[n]
                               ELSE IF n \in nodes THEN "running" ELSE "raised"]
    /\ input' = [n \in Node |-> IF n \in S \cap nodes
                                THEN Predecessors(edges, n) \cap outputs
                                ELSE input[n]]
    /\ pc' = "tasks"
    /\ UNCHANGED <<attempt, outputs>>

\* The check of _cancelled at the top of the loop: ExecutionCancelledError is
\* an Exception, execute() catches it and returns FAILED.
StopOnCancel ==
    /\ pc = "level"
    /\ MoreLevels /\ cancelled
    /\ pc' = "returned"
    /\ result' = "FAILED"
    /\ UNCHANGED <<workflow, plan, snapshot, progress, tasks, session, database,
                   control>>

\* (mutant: the cancellation check at the top of the loop is missing)
BeginLevelUnchecked ==
    /\ pc = "level"
    /\ MoreLevels
    /\ toRoute' = LevelNodes \cap nodes \cap Conditions
    /\ IF toRoute' # {} THEN pc' = "route" /\ UNCHANGED tasks
                        ELSE Launch(ToExecute)
    /\ UNCHANGED <<workflow, plan, snapshot, level, skipped, failed, session,
                   database, result, control>>

\* With condition nodes in the level they are evaluated first, one after the
\* other; without, the tasks start at once.
BeginLevel ==
    /\ pc = "level"
    /\ MoreLevels /\ ~cancelled
    /\ toRoute' = LevelNodes \cap nodes \cap Conditions
    /\ IF toRoute' # {} THEN pc' = "route" /\ UNCHANGED tasks
                        ELSE Launch(ToExecute)
    /\ UNCHANGED <<workflow, plan, snapshot, level, skipped, failed, session,
                   database, result, control>>

\* What condition node c routes around: it matches every outgoing edge it finds
\* in the database now; the successors it had when the graph was fetched and
\* that are not matched are excluded, with everything downstream of them.
RoutedAround(c) ==
    LET matched == Successors(liveEdges \cap edges, c)
    IN  ReachableFrom(Node, edges, Successors(edges, c) \ matched)

RouteCondition(c) ==
    /\ pc = "route"
    /\ c \in toRoute
    /\ toRoute' = toRoute \ {c}
    /\ LET out  == RoutedAround(c)
           rows == {SkippedRecord(n, "condition", c) : n \in out \cap nodes}
       IN  /\ skipped' = skipped \cup out
           /\ IF ForeignKeysHold(pending \cup rows)
              THEN Flush(pending \cup rows) /\ UNCHANGED <<status, pc, result>>
              ELSE LoseSession /\ pc' = "raised" /\ result' = "raised"
    /\ UNCHANGED <<workflow, plan, snapshot, level, failed, tasks, database,
                   control>>

StartTasks ==
    /\ pc = "route"
    /\ toRoute = {}
    /\ Launch(ToExecute)
    /\ UNCHANGED <<workflow, plan, snapshot, progress, session, database, result,
                   control>>

\* The row of a node that ran.
RunRecord(n, st, retries) ==
    [node |-> n, status |-> st, retries |-> retries,
     why |-> "ran", by |-> n]

\* The attempt of node n ends in time: its output is stored, its row added.
AttemptSucceeds(n) ==
    /\ pc = "tasks" /\ status # "expired"
    /\ task[n] = "running"
    /\ task' = [task EXCEPT ![n] = "done"]
    /\ outputs' = outputs \cup {n}
    /\ pending' = pending \cup {RunRecord(n, "COMPLETED", attempt[n])}
    /\ UNCHANGED <<workflow, pc, plan, snapshot, progress, attempt, input, status,
                   flushed, database, result, control>>

\* (mutant: one retry too many)
AttemptTimesOutOffByOne(n) ==
    /\ pc = "tasks" /\ status # "expired"
    /\ task[n] = "running"
    /\ attempt[n] <= MaxRetries[n]
    /\ task' = [task EXCEPT ![n] = "backoff"]
    /\ UNCHANGED <<workflow, pc, plan, snapshot, progress, attempt, input, outputs,
                   session, database, result, control>>

\* (mutant: every failed attempt leaves a row, not only the last)
AttemptTimesOutRecorded(n) ==
    /\ pc = "tasks" /\ status # "expired"
    /\ task[n] = "running"
    /\ attempt[n] < MaxRetries[n]
    /\ task' = [task EXCEPT ![n] = "backoff"]
    /\ pending' = pending \cup {RunRecord(n, "FAILED", 0)}
    /\ UNCHANGED <<workflow, pc, plan, snapshot, progress, attempt, input, outputs,
                   status, flushed, database, result, control>>

\* asyncio.timeout fires; with retries left the task sleeps before the next.
AttemptTimesOut(n) ==
    /\ pc = "tasks" /\ status # "expired"
    /\ task[n] = "running"
    /\ attempt[n] < MaxRetries[n]
    /\ task' = [task EXCEPT ![n] = "backoff"]
    /\ UNCHANGED <<workflow, pc, plan, snapshot, progress, attempt, input, outputs,
                   session, database, result, control>>

\* (mutant: the attempt counter starts anew)
BackoffElapsesAnew(n) ==
    /\ pc = "tasks" /\ status # "expired"
    /\ task[n] = "backoff"
    /\ task' = [task EXCEPT ![n] = "running"]
    /\ attempt' = [attempt EXCEPT ![n] = 0]
    /\ UNCHANGED <<workflow, pc, plan, snapshot, progress, input, outputs, session,
                   database, result, control>>

\* The backoff sleep is over: the next attempt begins.
BackoffElapses(n) ==
    /\ pc = "tasks" /\ status # "expired"
    /\ task[n] = "backoff"
    /\ task' = [task EXCEPT ![n] = "running"]
    /\ attempt' = [attempt EXCEPT ![n] = @ + 1]
    /\ UNCHANGED <<workflow, pc, plan, snapshot, progress, input, outputs, session,
                   database, result, control>>

\* The last attempt times out: a FAILED row, always with retry_count 0.
RetriesExhausted(n) ==
    /\ pc = "tasks" /\ status # "expired"
    /\ task[n] = "running"
    /\ attempt[n] = MaxRetries[n]
    /\ task' = [task EXCEPT ![n] = "failed"]
    /\ pending' = pending \cup {RunRecord(n, "FAILED", 0)}
    /\ UNCHANGED <<workflow, pc, plan, snapshot, progress, attempt, input, outputs,
                   status, flushed, database, result, control>>

\* (mutant: a failing node brings its siblings down, too)
AbortSiblingsOnFailure ==
    /\ pc = "tasks" /\ status # "expired"
    /\ \E n \in Node : task[n] \in {"raised", "failed"}
    /\ \E n \in Node : task[n] \in Active
    /\ task' = [n \in Node |-> IF task[n] \in Active THEN "aborted" ELSE task[n]]
    /\ UNCHANGED <<workflow, pc, plan, snapshot, progress, attempt, input, outputs,
                   session, database, result, control>>

\* A task raised: the TaskGroup cancels the others.  CancelledError is not an
\* Exception, so they leave no row.
AbortSiblings ==
    /\ pc = "tasks" /\ status # "expired"
    /\ \E n \in Node : task[n] = "raised"
    /\ \E n \in Node : task[n] \in Active
    /\ task' = [n \in Node |-> IF task[n] \in Active THEN "aborted" ELSE task[n]]
    /\ UNCHANGED <<workflow, pc, plan, snapshot, progress, attempt, input, outputs,
                   session, database, result, control>>

\* (mutant: the level ends without waiting for its tasks)
JoinTasksEarly ==
    /\ pc = "tasks" /\ status # "expired"
    /\ IF ForeignKeysHold(pending)
       THEN /\ Flush(pending)
            /\ failed' = failed \cup {n \in LevelNodes : task[n] = "failed"}
            /\ level' = level + 1
            /\ pc' = "level"
            /\ UNCHANGED <<status, result>>
       ELSE /\ LoseSession
            /\ pc' = "raised" /\ result' = "raised"
            /\ UNCHANGED <<failed, level>>
    /\ UNCHANGED <<workflow, plan, snapshot, toRoute, skipped, tasks, database,
                   control>>

\* (mutant: the level waits until every task has returned a result)
JoinTasksReturned ==
    /\ pc = "tasks" /\ status # "expired"
    /\ \A n \in Node : task[n] \notin Active \cup {"raised", "aborted"}
    /\ IF ForeignKeysHold(pending)
       THEN /\ Flush(pending)
            /\ failed' = failed \cup {n \in LevelNodes : task[n] = "failed"}
            /\ level' = level + 1
            /\ pc' = "level"
            /\ UNCHANGED <<status, result>>
       ELSE /\ LoseSession
            /\ pc' = "raised" /\ result' = "raised"
            /\ UNCHANGED <<failed, level>>
    /\ UNCHANGED <<workflow, plan, snapshot, toRoute, skipped, tasks, database,
                   control>>

\* All tasks have ended.  The ExceptionGroup is swallowed, the rows are
\* flushed, and the loop goes to the next level whatever failed.
JoinTasks ==
    /\ pc = "tasks" /\ status # "expired"
    /\ \A n \in Node : task[n] \notin Active
    /\ IF ForeignKeysHold(pending)
       THEN /\ Flush(pending)
            /\ failed' = failed \cup {n \in LevelNodes : task[n] = "failed"}
            /\ level' = level + 1
            /\ pc' = "level"
            /\ UNCHANGED <<status, result>>
       ELSE /\ LoseSession
            /\ pc' = "raised" /\ result' = "raised"
            /\ UNCHANGED <<failed, level>>
    /\ UNCHANGED <<workflow, plan, snapshot, toRoute, skipped, tasks, database,
                   control>>

------------------------------------------------------------------------------
(* After the last level *)

\* _mark_downstream_blocked: a SKIPPED row for everything downstream of the
\* failed nodes, whether it ran or not; then ExecutionError, caught by
\* execute(), which returns FAILED and does not touch the row.
MarkBlocked ==
    /\ pc = "level"
    /\ ~MoreLevels /\ failed # {}
    /\ LET blocked == ReachableFrom(Node, edges, failed) \ failed
           rows    == {SkippedRecord(n, "upstream", n) : n \in blocked \cap nodes}
       IN  IF ForeignKeysHold(pending \cup rows)
           THEN /\ Flush(pending \cup rows)
                /\ pc' = "returned" /\ result' = "FAILED"
                /\ UNCHANGED status
           ELSE /\ LoseSession
                /\ pc' = "raised" /\ result' = "raised"
    /\ UNCHANGED <<workflow, plan, snapshot, progress, tasks, database, control>>

\* (mutant: failed nodes do not fail the run)
CompleteAnyway ==
    /\ pc = "level"
    /\ ~MoreLevels
    /\ status' = "COMPLETED"
    /\ pc' = "completed"
    /\ UNCHANGED <<workflow, plan, snapshot, progress, tasks, pending, flushed,
                   database, result, control>>

\* The row becomes COMPLETED, whatever it was; then the log entry is flushed.
Complete ==
    /\ pc = "level"
    /\ ~MoreLevels /\ failed = {}
    /\ status' = "COMPLETED"
    /\ pc' = "completed"
    /\ UNCHANGED <<workflow, plan, snapshot, progress, tasks, pending, flushed,
                   database, result, control>>

CommitCompleted ==
    /\ pc = "completed"
    /\ CommitSession(status)
    /\ pc' = "returned"
    /\ result' = "COMPLETED"
    /\ UNCHANGED <<workflow, plan, snapshot, progress, tasks, control>>

\* execute() reads execution.id after the session was lost: the access raises,
\* in its exception handler too.
TouchExpired ==
    /\ pc = "tasks" /\ status = "expired"
    /\ pc' = "raised" /\ result' = "raised"
    /\ task' = [n \in Node |-> IF task[n] \in Active THEN "aborted" ELSE task[n]]
    /\ UNCHANGED <<workflow, plan, snapshot, progress, attempt, input, outputs,
                   session, database, control>>

\* The caller ends the session the way get_db (db/session.py) does: commit when
\* execute() returned, rollback when it raised.
CloseSession ==
    /\ pc \in {"returned", "raised"}
    /\ pc' = "closed"
    /\ IF pc = "returned"
       THEN CommitSession(status)
       ELSE /\ status' = dbStatus /\ pending' = {} /\ flushed' = dbRecords
            /\ UNCHANGED database
    /\ UNCHANGED <<workflow, plan, snapshot, progress, tasks, result, control>>

------------------------------------------------------------------------------
(* cancel(), called at any time by another coroutine *)

\* While execute() awaits the database on the same session, the commit of
\* cancel() may be refused; while it awaits only timers, or is over, it is not.
SessionBusy == ~ \/ pc \in {"new", "returned", "raised", "closed"}
                 \/ pc = "tasks" /\ \E n \in Node : task[n] \in Active

\* (mutant: cancel() does not look at the status)
CancelAnything ==
    /\ pc # "closed" /\ status # "expired"
    /\ cancelled' = TRUE
    /\ cancelLevel' = IF cancelled THEN cancelLevel
                      ELSE IF pc \in {"route", "tasks", "raised"} THEN level + 1
                      ELSE level
    /\ ForeignKeysHold(pending)
    /\ CommitSession("CANCELLED")
    /\ UNCHANGED <<workflow, pc, plan, snapshot, progress, tasks, result>>

Cancel ==
    /\ pc # "closed" /\ status # "expired"
    /\ cancelled' = TRUE
    /\ cancelLevel' = IF cancelled THEN cancelLevel
                      ELSE IF pc \in {"route", "tasks", "raised"} THEN level + 1
                      ELSE level
    /\ IF status # "RUNNING" THEN UNCHANGED <<session, database>>
       ELSE \/ /\ ForeignKeysHold(pending)
               /\ CommitSession("CANCELLED")
            \/ /\ ~ForeignKeysHold(pending)
               /\ LoseSession
               /\ UNCHANGED database
            \/ /\ SessionBusy
               /\ status' = "CANCELLED"
               /\ UNCHANGED <<pending, flushed, database>>
    /\ UNCHANGED <<workflow, pc, plan, snapshot, progress, tasks, result>>

------------------------------------------------------------------------------
(* Other sessions edit the workflow *)

Edit(kind) ==
    /\ kind \in EditKinds
    /\ edits < MaxEdits
    /\ edits' = edits + 1
    /\ UNCHANGED <<pc, plan, snapshot, progress, tasks, session, database, result,
                   control>>

\* NodeService.create: the row gets an id nobody had.
CreateNode ==
    /\ Edit("createNode")
    /\ \E n \in Node \ born : /\ liveNodes' = liveNodes \cup {n}
                              /\ born' = born \cup {n}
    /\ UNCHANGED liveEdges

\* EdgeService.delete
DeleteEdge ==
    /\ Edit("deleteEdge")
    /\ \E e \in liveEdges : liveEdges' = liveEdges \ {e}
    /\ UNCHANGED <<liveNodes, born>>

\* EdgeService.create refuses an edge that closes a cycle.  An edge the executor
\* has fetched is not created anew: it would be another row, with another id.
CreateEdge ==
    /\ Edit("createEdge")
    /\ \E e \in EdgesOver(liveNodes) \ (liveEdges \cup edges) :
          /\ ~ClosesCycle(liveNodes, liveEdges, e)
          /\ liveEdges' = liveEdges \cup {e}
    /\ UNCHANGED <<liveNodes, born>>

\* NodeService.delete takes the edges along (ON DELETE CASCADE); it has to fail
\* or to wait when an execution row of the node has been sent.
DeleteNode ==
    /\ Edit("deleteNode")
    /\ \E n \in liveNodes :
          /\ \A r \in flushed \cup dbRecords : r.node # n
          /\ liveNodes' = liveNodes \ {n}
          /\ liveEdges' = {e \in liveEdges : n \notin {e.source, e.target}}
    /\ UNCHANGED born

------------------------------------------------------------------------------
Step ==
    \/ Execute \/ QueryTopologyNodes \/ SortLevels \/ CommitRunning
    \/ FetchNodes \/ FetchEdges
    \/ StopOnCancel \/ BeginLevel \/ StartTasks
    \/ \E n \in Node : \/ RouteCondition(n)
                       \/ AttemptSucceeds(n) \/ AttemptTimesOut(n)
                       \/ BackoffElapses(n) \/ RetriesExhausted(n)
    \/ AbortSiblings \/ JoinTasks
    \/ MarkBlocked \/ Complete \/ CommitCompleted \/ TouchExpired

Environment == \/ Cancel \/ CloseSession
               \/ DeleteEdge \/ CreateEdge \/ DeleteNode \/ CreateNode

Next == Step \/ Environment

Spec == Init /\ [][Next]_vars

\* The event loop runs what is ready, timers fire and the database answers:
\* a coroutine that can step does.  Nobody has to call cancel() or to edit.
FairSpec == Spec /\ WF_vars(Step)

------------------------------------------------------------------------------
(* Invariants *)

TypeOK ==
    /\ liveNodes \subseteq Node /\ liveEdges \subseteq EdgesOver(Node)
    /\ edits \in 0 .. MaxEdits
    /\ liveNodes \subseteq born /\ born \subseteq Node
    /\ pc \in Processes
    /\ DOMAIN topo \subseteq Node /\ topo \in [DOMAIN topo -> Nat]
    /\ topoEdges \subseteq EdgesOver(Node)
    /\ nodes \subseteq Node /\ edges \subseteq EdgesOver(Node)
    /\ level \in Nat
    /\ toRoute \subseteq Conditions
    /\ skipped \subseteq Node /\ failed \subseteq Node
    /\ task \in [Node -> {"idle"} \cup Active \cup Ended]
    /\ attempt \in [Node -> Nat] /\ \A n \in Node : attempt[n] <= MaxRetries[n]
    /\ input \in [Node -> SUBSET Node] /\ outputs \subseteq Node
    /\ status \in Statuses \cup {"expired"} /\ dbStatus \in Statuses
    /\ pending \subseteq Record /\ flushed \subseteq Record
    /\ dbRecords \subseteq Record
    /\ result \in {"none", "COMPLETED", "FAILED", "raised"}
    /\ cancelled \in BOOLEAN /\ cancelLevel \in Nat

\* A node that has been launched or routed around and has no active task left.
Settled(n) == \/ task[n] \in Ended
              \/ task[n] = "idle" /\ n \in skipped

\* No node starts before everything it depends on, in the graph that was sorted
\* into levels, has settled - whatever is edited, cancelled or failed meanwhile.
PredecessorsFirst ==
    \A e \in topoEdges : Started(e.target) => Settled(e.source)

\* Unless an edge came in between the sorting and the second reading of the graph,
\* a node that runs got the outputs of all its predecessors that completed:
\* get_input, called when the level starts, reads nothing too early.
InputsComplete ==
    edges \subseteq topoEdges =>
        \A n \in Node : task[n] \in Active \cup {"done", "failed"} =>
            input[n] = Predecessors(edges, n) \cap outputs

\* The rows made so far, durable or not.
Rows == pending \cup flushed

\* A node that ran has exactly one row saying how, whatever flushes, commits by
\* cancel() and retries came between; a COMPLETED one goes with an output in the
\* context and counts the retries the node was allowed.
OneOutcomePerNode ==
    pc \notin {"raised", "closed"} /\ status # "expired" =>
        \A n \in Node :
            LET ran == {r \in Rows : r.node = n /\ r.why = "ran"}
            IN  /\ task[n] = "done" => \E r \in ran :
                      /\ ran = {r} /\ r.status = "COMPLETED"
                      /\ r.retries = attempt[n] /\ r.retries <= MaxRetries[n]
                /\ task[n] = "failed" => \E r \in ran :
                      ran = {r} /\ r.status = "FAILED"
                /\ task[n] \notin {"done", "failed"} => ran = {}
                /\ n \in outputs <=> task[n] = "done"

\* No node has been deleted.
NoneDeleted == liveNodes = born

\* execute() says COMPLETED only of a run in which every node that was sorted into
\* a level completed or was routed around; and what it says is durable.  A node
\* that is deleted meanwhile may break this.  A node that another session creates
\* after the sorting is in no level, although the second reading of the graph
\* finds it: it never runs and need not have a row.
CompletedIsTrue ==
    result = "COMPLETED" /\ NoneDeleted =>
        /\ dbStatus = "COMPLETED"
        /\ \A n \in DOMAIN topo : \E r \in dbRecords :
              /\ r.node = n
              /\ \/ r.status = "COMPLETED"
                 \/ r.status = "SKIPPED" /\ r.why = "condition"
        /\ \A r \in dbRecords : r.status # "FAILED"

\* A run that is not cancelled and gets past the sorting reports on every node of
\* every level, also when some failed: siblings and independent branches get
\* their own row.
EveryNodeReported ==
    pc = "returned" /\ result = "FAILED" /\ ~cancelled /\ nodes # {} /\ NoneDeleted =>
        \A n \in DOMAIN topo : \E r \in Rows : r.node = n

\* A node that a condition routed around never runs, unless an edge came in between
\* the sorting and the second reading of the graph: then it may have run before.
RoutedAroundNeverRuns ==
    edges \subseteq topoEdges => \A r \in Rows : r.why = "condition" => ~Started(r.node)

\* After cancel() no further level begins: what starts belongs to a level that
\* had begun when the flag was set.
CancelStopsAtLevel ==
    cancelled => \A n \in DOMAIN topo : Started(n) => topo[n] < cancelLevel

------------------------------------------------------------------------------
(* What the repository says and the code does not do *)

\* .moai/specs/SPEC-011/acceptance.md:154, "Downstream nodes are blocked on
\* failure": what is downstream of a failed node is not run.
DownstreamOfFailureBlocked ==
    \A r \in Rows : r.status = "FAILED" =>
        \A n \in ReachableFrom(Node, topoEdges, {r.node}) \ {r.node} :
            task[n] \notin {"running", "done"}

\* SPEC-011/spec.md:324-326: an execution that was cancelled is not completed afterwards.
CancelledIsFinal ==
    [][dbStatus = "CANCELLED" => dbStatus' = "CANCELLED"]_vars

------------------------------------------------------------------------------
(* Action properties, liveness, refinement *)

\* What is committed about a node stays, and a COMPLETED execution is final:
\* cancel() and the end of the session do not take it back.
CommittedStays ==
    [][ /\ dbRecords \subseteq dbRecords'
        /\ dbStatus = "COMPLETED" => dbStatus' = "COMPLETED" ]_vars

\* execute() comes back, however many attempts time out.
ExecuteReturns == pc # "new" ~> pc \in {"returned", "raised", "closed"}

\* A node in the terms of NodeDataflow.
Phase(n) == CASE task[n] = "idle" -> IF n \in skipped THEN "skipped" ELSE "waiting"
              [] task[n] \in Active -> "running"
              [] task[n] \in {"raised", "aborted"} -> "lost"
              [] OTHER -> task[n]

Dataflow == INSTANCE NodeDataflow WITH
    needs   <- [n \in Node |-> Predecessors(topoEdges, n)],
    planned <- pc \notin {"new", "topology", "sort"},
    phase   <- [n \in Node |-> Phase(n)]

\* Levels, barriers and tasks carry out the dataflow they were made from: what
\* execute() does to a node is a step of NodeDataflow or none.
ImplementsDataflow == Dataflow!DSpec
==============================================================================
