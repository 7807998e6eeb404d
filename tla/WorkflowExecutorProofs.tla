------------------------ MODULE WorkflowExecutorProofs ------------------------
(***************************************************************************)
(* Theorems about WorkflowExecutor for every set of nodes, every graph,    *)
(* any number of retries and edits: first the schedule, what is committed  *)
(* and the refinement of NodeDataflow; then, resting on the schedule, what *)
(* is recorded of a run and what it reports.                               *)
(***************************************************************************)
EXTENDS WorkflowExecutor, FiniteSetTheorems, TLAPS

USE DEF workflow, plan, snapshot, progress, tasks, session, database, control

------------------------------------------------------------------------------
(* The operators *)

\* A search visits only nodes.
LEMMA ReachableAreNodes ==
    ASSUME NEW N, NEW E, NEW S
    PROVE  ReachableFrom(N, E, S) \subseteq N
  BY DEF ReachableFrom

LEMMA PredecessorsAreNodes ==
    ASSUME NEW E \in SUBSET EdgesOver(Node), NEW n
    PROVE  Predecessors(E, n) \subseteq Node
  BY DEF Predecessors, EdgesOver

\* The rows the executor makes are rows of the table.
LEMMA SkippedRecordType ==
    ASSUME NEW n \in Node, NEW m \in Node, NEW why \in {"condition", "upstream"}
    PROVE  SkippedRecord(n, why, m) \in Record
  BY DEF SkippedRecord, Record

LEMMA RunRecordType ==
    ASSUME NEW n \in Node, NEW st \in {"COMPLETED", "FAILED"}, NEW k \in Nat
    PROVE  RunRecord(n, st, k) \in Record
  BY DEF RunRecord, Record

------------------------------------------------------------------------------
(* Type correctness *)

\* Rows wait unflushed only while tasks run; a lost session is noticed there or
\* has ended the call.
SessionInv ==
    /\ pc # "tasks" \/ status = "expired" => pending = {}
    /\ status = "expired" => pc \in {"tasks", "raised"}

\* A task sleeps only when it has an attempt left to wake up for.
AttemptInv == \A n \in Node : task[n] = "backoff" => attempt[n] < MaxRetries[n]

TInv == TypeOK /\ SessionInv /\ AttemptInv

LEMMA InitTInv == Init => TInv
  <1> SUFFICES ASSUME Init PROVE TInv
    OBVIOUS
  <1>1. topo \in [DOMAIN topo -> Nat] /\ DOMAIN topo \subseteq Node
    BY DEF Init
  <1>2. task \in [Node -> {"idle"} \cup Active \cup Ended]
    BY DEF Init
  <1>3. attempt \in [Node -> Nat] /\ \A n \in Node : attempt[n] <= MaxRetries[n]
    BY MaxRetriesAssumption DEF Init
  <1>4. input \in [Node -> SUBSET Node]
    BY DEF Init
  <1>5. edits \in 0 .. MaxEdits
    BY MaxEditsAssumption DEF Init
  <1>6. /\ liveNodes \subseteq Node /\ liveEdges \subseteq EdgesOver(Node)
        /\ liveNodes \subseteq born /\ born \subseteq Node
    BY InitialNodesAssumption, InitialEdgesAssumption DEF Init
  <1>7. /\ pc \in Processes /\ status \in Statuses \cup {"expired"}
        /\ dbStatus \in Statuses
    BY DEF Init, Processes, Statuses
  <1>8. QED
    BY <1>1, <1>2, <1>3, <1>4, <1>5, <1>6, <1>7 DEF Init, TypeOK, TInv, SessionInv, AttemptInv

LEMMA CommitTypeOK ==
    ASSUME TypeOK, NEW st \in Statuses, CommitSession(st)
    PROVE  /\ status' \in Statuses \cup {"expired"} /\ dbStatus' \in Statuses
           /\ pending' \subseteq Record /\ flushed' \subseteq Record
           /\ dbRecords' \subseteq Record
  BY DEF TypeOK, CommitSession, Flush

LEMMA LoseTypeOK ==
    ASSUME TypeOK, LoseSession
    PROVE  /\ status' \in Statuses \cup {"expired"}
           /\ pending' \subseteq Record /\ flushed' \subseteq Record
  BY DEF TypeOK, LoseSession

LEMMA LaunchTypeOK ==
    ASSUME TypeOK, NEW S, Launch(S)
    PROVE  /\ task' \in [Node -> {"idle"} \cup Active \cup Ended]
           /\ attempt' = attempt
           /\ input' \in [Node -> SUBSET Node] /\ outputs' \subseteq Node
           /\ pc' \in Processes
           /\ \A n \in Node : task'[n] = "backoff" => task[n] = "backoff"
  BY DEF TypeOK, Launch, Active, Ended, Processes

\* The steps that touch no more than the type invariant can see at a glance.
LEMMA SimpleStepsTInv ==
    ASSUME TInv,
           \/ Execute \/ QueryTopologyNodes \/ FetchNodes \/ FetchEdges
           \/ StopOnCancel \/ Complete \/ TouchExpired
           \/ DeleteEdge \/ CreateEdge \/ DeleteNode \/ CreateNode
           \/ UNCHANGED vars
    PROVE  TInv'
  <1> USE DEF TInv, SessionInv, AttemptInv
  <1>1. CASE Execute
    BY <1>1 DEF TypeOK, Execute, Processes, Statuses
  <1>2. CASE QueryTopologyNodes
    BY <1>2 DEF TypeOK, QueryTopologyNodes, Processes
  <1>3. CASE FetchNodes
    BY <1>3 DEF TypeOK, FetchNodes, Processes
  <1>4. CASE FetchEdges
    BY <1>4 DEF TypeOK, FetchEdges, Processes
  <1>5. CASE StopOnCancel
    BY <1>5 DEF TypeOK, StopOnCancel, Processes
  <1>6. CASE Complete
    BY <1>6 DEF TypeOK, Complete, Processes, Statuses
  <1>7. CASE TouchExpired
    BY <1>7 DEF TypeOK, TouchExpired, Processes, Ended
  <1>8. CASE DeleteEdge
    BY <1>8, MaxEditsAssumption DEF TypeOK, DeleteEdge, Edit
  <1>9. CASE CreateEdge
    BY <1>9, MaxEditsAssumption DEF TypeOK, CreateEdge, Edit, EdgesOver
  <1>10. CASE DeleteNode
    BY <1>10, MaxEditsAssumption DEF TypeOK, DeleteNode, Edit, EdgesOver
  <1>11. CASE CreateNode
    BY <1>11, MaxEditsAssumption DEF TypeOK, CreateNode, Edit
  <1>12. CASE UNCHANGED vars
    BY <1>12 DEF TypeOK, vars
  <1>13. QED
    BY <1>1, <1>2, <1>3, <1>4, <1>5, <1>6, <1>7, <1>8, <1>9, <1>10, <1>11, <1>12

\* The steps that work on the tasks of a level.
LEMMA TaskStepsTInv ==
    ASSUME TInv,
           \/ BeginLevel \/ StartTasks \/ AbortSiblings \/ JoinTasks
           \/ \E n \in Node : \/ AttemptSucceeds(n) \/ AttemptTimesOut(n)
                              \/ BackoffElapses(n) \/ RetriesExhausted(n)
    PROVE  TInv'
  <1> USE DEF TInv, SessionInv, AttemptInv
  <1>1. CASE BeginLevel
    <2>1. CASE toRoute' # {}
      BY <1>1, <2>1 DEF TypeOK, BeginLevel, Processes
    <2>2. CASE toRoute' = {}
      <3>1. Launch(ToExecute)
        BY <1>1, <2>2 DEF BeginLevel
      <3>2. QED
        BY <1>1, <2>2, <3>1, LaunchTypeOK DEF TypeOK, BeginLevel
    <2>3. QED
      BY <2>1, <2>2
  <1>2. CASE StartTasks
    <2>1. Launch(ToExecute)
      BY <1>2 DEF StartTasks
    <2>2. QED
      BY <1>2, <2>1, LaunchTypeOK DEF TypeOK, StartTasks
  <1>3. CASE AbortSiblings
    BY <1>3 DEF TypeOK, AbortSiblings, Ended
  <1>4. CASE JoinTasks
    <2>1. CASE ForeignKeysHold(pending)
      BY <1>4, <2>1 DEF TypeOK, JoinTasks, Flush, Processes, LevelNodes
    <2>2. CASE ~ForeignKeysHold(pending)
      BY <1>4, <2>2 DEF TypeOK, JoinTasks, LoseSession, Processes
    <2>3. QED
      BY <2>1, <2>2
  <1>5. ASSUME NEW n \in Node, AttemptSucceeds(n)
        PROVE  TInv'
    <2>1. RunRecord(n, "COMPLETED", attempt[n]) \in Record
      BY RunRecordType DEF TypeOK
    <2>2. QED
      BY <1>5, <2>1 DEF TypeOK, AttemptSucceeds, Ended
  <1>6. ASSUME NEW n \in Node, AttemptTimesOut(n)
        PROVE  TInv'
    BY <1>6 DEF TypeOK, AttemptTimesOut, Active
  <1>7. ASSUME NEW n \in Node, BackoffElapses(n)
        PROVE  TInv'
    <2> DEFINE k == attempt[n]
    <2>1. /\ k \in Nat /\ MaxRetries[n] \in Nat /\ k < MaxRetries[n]
          /\ attempt' = [attempt EXCEPT ![n] = k + 1]
      <3>1. task[n] = "backoff" /\ attempt' = [attempt EXCEPT ![n] = k + 1]
        BY <1>7 DEF BackoffElapses
      <3>2. QED
        BY <3>1, MaxRetriesAssumption DEF TypeOK
    <2>2. /\ attempt' \in [Node -> Nat]
          /\ \A m \in Node : attempt'[m] <= MaxRetries[m]
      BY <2>1 DEF TypeOK
    <2>3. task' = [task EXCEPT ![n] = "running"]
      BY <1>7 DEF BackoffElapses
    <2>4. AttemptInv'
      BY <2>1, <2>3 DEF TypeOK
    <2>5. QED
      BY <1>7, <2>2, <2>3, <2>4 DEF TypeOK, BackoffElapses, Active
  <1>8. ASSUME NEW n \in Node, RetriesExhausted(n)
        PROVE  TInv'
    <2>1. RunRecord(n, "FAILED", 0) \in Record
      BY RunRecordType
    <2>2. QED
      BY <1>8, <2>1 DEF TypeOK, RetriesExhausted, Ended
  <1>9. QED
    BY <1>1, <1>2, <1>3, <1>4, <1>5, <1>6, <1>7, <1>8

\* Every step keeps the types.
LEMMA StepTInv == TInv /\ [Next]_vars => TInv'
  <1> SUFFICES ASSUME TInv, [Next]_vars
               PROVE  TInv'
    OBVIOUS
  <1> USE DEF TInv, SessionInv, AttemptInv
  <1>1. CASE SortLevels
    <2> DEFINE N == GraphNodes(DOMAIN topo, liveEdges)
    <2>1. N \subseteq Node
      BY DEF TypeOK, GraphNodes, EdgesOver
    <2>2. Cardinality(N) \in Nat
      BY <2>1, NodeAssumption, FS_Subset, FS_CardinalityType
    <2>3. CASE Acyclic(N, liveEdges)
      <3>1. topo' \in [N -> 0 .. Cardinality(N) - 1]
        BY <1>1, <2>3 DEF SortLevels
      <3> HIDE DEF N
      <3>2. topo' \in [DOMAIN topo' -> Nat] /\ DOMAIN topo' \subseteq Node
        BY <2>1, <2>2, <3>1
      <3>3. /\ topoEdges' = liveEdges /\ status' = "RUNNING" /\ pc' = "running"
            /\ result' = result
        BY <1>1, <2>3 DEF SortLevels, N
      <3>4. QED
        BY <1>1, <3>2, <3>3 DEF SortLevels, TypeOK, Processes, Statuses
    <2>4. CASE ~Acyclic(N, liveEdges)
      BY <1>1, <2>4 DEF SortLevels, TypeOK, Processes, Statuses
    <2>5. QED
      BY <2>3, <2>4
  <1>2. CASE CommitRunning
    <2>1. status \in Statuses
      BY <1>2 DEF CommitRunning, TypeOK
    <2>2. QED
      BY <1>2, <2>1 DEF TypeOK, CommitRunning, CommitSession, Flush, Processes
  <1>3. ASSUME NEW c \in Node, RouteCondition(c)
        PROVE  TInv'
    <2> DEFINE out  == RoutedAround(c)
               rows == {SkippedRecord(n, "condition", c) : n \in out \cap nodes}
    <2>1. out \subseteq Node
      BY ReachableAreNodes DEF RoutedAround
    <2>2. rows \subseteq Record
      BY <2>1, SkippedRecordType
    <2>3. CASE ForeignKeysHold(pending \cup rows)
      BY <1>3, <2>1, <2>2, <2>3 DEF TypeOK, RouteCondition, Flush
    <2>4. CASE ~ForeignKeysHold(pending \cup rows)
      BY <1>3, <2>1, <2>4 DEF TypeOK, RouteCondition, LoseSession, Processes
    <2>5. QED
      BY <2>3, <2>4
  <1>4. CASE MarkBlocked
    <2> DEFINE blocked == ReachableFrom(Node, edges, failed) \ failed
               rows    == {SkippedRecord(n, "upstream", n) : n \in blocked \cap nodes}
    <2>1. blocked \subseteq Node
      BY ReachableAreNodes
    <2>2. rows \subseteq Record
      BY <2>1, SkippedRecordType
    <2>3. CASE ForeignKeysHold(pending \cup rows)
      BY <1>4, <2>2, <2>3 DEF TypeOK, MarkBlocked, Flush, Processes
    <2>4. CASE ~ForeignKeysHold(pending \cup rows)
      BY <1>4, <2>4 DEF TypeOK, MarkBlocked, LoseSession, Processes
    <2>5. QED
      BY <2>3, <2>4
  <1>5. CASE CommitCompleted
    <2>1. status \in Statuses
      BY <1>5 DEF CommitCompleted, TypeOK
    <2>2. QED
      BY <1>5, <2>1 DEF TypeOK, CommitCompleted, CommitSession, Flush, Processes
  <1>6. CASE CloseSession
    <2>1. CASE pc = "returned"
      <3>1. status \in Statuses
        BY <2>1 DEF TypeOK
      <3>2. QED
        BY <1>6, <2>1, <3>1 DEF TypeOK, CloseSession, CommitSession, Flush, Processes
    <2>2. CASE pc # "returned"
      BY <1>6, <2>2 DEF TypeOK, CloseSession, Processes, Statuses
    <2>3. QED
      BY <2>1, <2>2
  <1>7. CASE Cancel
    <2>1. cancelled' \in BOOLEAN /\ cancelLevel' \in Nat
      BY <1>7 DEF TypeOK, Cancel
    <2>2. CASE UNCHANGED <<session, database>>
      BY <1>7, <2>1, <2>2 DEF TypeOK, Cancel
    <2>3. CASE CommitSession("CANCELLED")
      BY <1>7, <2>1, <2>3 DEF TypeOK, Cancel, CommitSession, Flush, Statuses
    <2>4. CASE status = "RUNNING" /\ LoseSession /\ ~ForeignKeysHold(pending) /\ UNCHANGED database
      <3>1. pc = "tasks"
        BY <2>4 DEF ForeignKeysHold
      <3>2. QED
        BY <1>7, <2>1, <2>4, <3>1 DEF TypeOK, Cancel, LoseSession
    <2>5. CASE status' = "CANCELLED" /\ UNCHANGED <<pending, flushed, database>>
      BY <1>7, <2>1, <2>5 DEF TypeOK, Cancel, Statuses
    <2>6. QED
      BY <1>7, <2>2, <2>3, <2>4, <2>5 DEF Cancel
  <1>8. QED
    BY <1>1, <1>2, <1>3, <1>4, <1>5, <1>6, <1>7, SimpleStepsTInv, TaskStepsTInv
       DEF Next, Step, Environment

\* Every reachable state is well typed: among other things no attempt goes
\* beyond the retries of its node.
THEOREM TypeCorrect == Spec => []TypeOK
  <1>1. Spec => []TInv
    BY InitTInv, StepTInv, PTL DEF Spec
  <1>2. QED
    BY <1>1, PTL DEF TInv

------------------------------------------------------------------------------
(* Scheduling *)

\* The rows of edges refer to rows of nodes.
GraphInv == liveEdges \subseteq EdgesOver(liveNodes)

\* The sorted edges go from lower levels to higher ones.
PlanInv ==
    /\ \A e \in topoEdges : /\ e.source \in DOMAIN topo /\ e.target \in DOMAIN topo
                            /\ topo[e.source] < topo[e.target]
    /\ pc \in {"new", "topology", "sort"} =>
          topoEdges = {} /\ level = 0 /\ \A n \in Node : ~Started(n)

\* Below the current level everything has settled, above it nothing started; at
\* it, everything that is not routed around starts together.
LevelInv ==
    /\ \A n \in Node : Started(n) => n \in DOMAIN topo /\ topo[n] <= level
    /\ \A n \in DOMAIN topo : topo[n] < level => Settled(n)
    /\ pc = "tasks" => \A n \in DOMAIN topo :
          topo[n] = level => Started(n) \/ n \in skipped
    /\ pc \notin {"tasks", "raised", "closed"} =>
          \A n \in Node : Started(n) => topo[n] < level
    /\ pc # "tasks" => \A n \in Node : task[n] \notin Active

\* A level that has begun when cancel() is called is below cancelLevel.
CancelInv ==
    /\ cancelled => \A n \in Node : Started(n) => topo[n] < cancelLevel
    /\ cancelled /\ pc \in {"route", "tasks"} => level < cancelLevel

ScheduleInv == GraphInv /\ PlanInv /\ LevelInv /\ CancelInv

\* What is durable is also in the session, and COMPLETED comes last.
DurableInv ==
    /\ dbRecords \subseteq flushed
    /\ dbStatus = "COMPLETED" => status = "COMPLETED"
    /\ status = "COMPLETED" => pc \in {"completed", "returned", "closed"}

IInv == TInv /\ ScheduleInv /\ DurableInv

LEMMA InitScheduleInv == Init => ScheduleInv
  <1> SUFFICES ASSUME Init PROVE ScheduleInv
    OBVIOUS
  <1>1. GraphInv
    BY InitialEdgesAssumption DEF Init, GraphInv
  <1>2. PlanInv /\ LevelInv /\ CancelInv
    BY DEF Init, PlanInv, LevelInv, CancelInv, Started, Active
  <1>3. QED
    BY <1>1, <1>2 DEF ScheduleInv

\* What has settled stays settled.
LEMMA SettledStays ==
    ASSUME NEW n \in Node, Settled(n), skipped \subseteq skipped',
           task'[n] = task[n]
    PROVE  Settled(n)'
  BY DEF Settled

\* The steps that neither plan nor start nor end a task.
LEMMA QuietStepsScheduleInv ==
    ASSUME TInv, ScheduleInv,
           \/ Execute \/ QueryTopologyNodes \/ CommitRunning \/ FetchNodes
           \/ FetchEdges \/ StopOnCancel \/ MarkBlocked \/ Complete
           \/ CommitCompleted \/ CloseSession
           \/ DeleteEdge \/ CreateEdge \/ DeleteNode \/ CreateNode
           \/ UNCHANGED vars
    PROVE  ScheduleInv'
  <1> USE DEF ScheduleInv, GraphInv, PlanInv, LevelInv, CancelInv, Settled, Started
  <1>1. CASE Execute
    BY <1>1 DEF Execute
  <1>2. CASE QueryTopologyNodes
    BY <1>2 DEF QueryTopologyNodes
  <1>3. CASE CommitRunning
    BY <1>3 DEF CommitRunning
  <1>4. CASE FetchNodes
    BY <1>4 DEF FetchNodes
  <1>5. CASE FetchEdges
    BY <1>5 DEF FetchEdges
  <1>6. CASE StopOnCancel
    BY <1>6 DEF StopOnCancel
  <1>7. CASE MarkBlocked
    BY <1>7 DEF MarkBlocked
  <1>8. CASE Complete
    BY <1>8 DEF Complete
  <1>9. CASE CommitCompleted
    BY <1>9 DEF CommitCompleted
  <1>10. CASE CloseSession
    BY <1>10 DEF CloseSession
  <1>11. CASE DeleteEdge
    BY <1>11 DEF DeleteEdge, Edit
  <1>12. CASE CreateEdge
    BY <1>12 DEF CreateEdge, Edit
  <1>13. CASE DeleteNode
    BY <1>13 DEF DeleteNode, Edit, EdgesOver
  <1>14. CASE CreateNode
    BY <1>14 DEF CreateNode, Edit, EdgesOver
  <1>15. CASE UNCHANGED vars
    BY <1>15 DEF vars
  <1>16. QED
    BY <1>1, <1>2, <1>3, <1>4, <1>5, <1>6, <1>7, <1>8, <1>9, <1>10, <1>11,
       <1>12, <1>13, <1>14, <1>15

\* Launching the current level breaks nothing: what is launched has not started.
LEMMA LaunchScheduleInv ==
    ASSUME TInv, ScheduleInv, pc \in {"level", "route"},
           Launch(ToExecute),
           cancelled => level < cancelLevel,
           UNCHANGED <<workflow, plan, level, skipped, control>>
    PROVE  ScheduleInv'
  <1>1. \A n \in Node : task'[n] = task[n] \/ (n \in LevelNodes /\ Started(n)')
    <2> SUFFICES ASSUME NEW n \in Node
                 PROVE  task'[n] = task[n] \/ (n \in LevelNodes /\ Started(n)')
      OBVIOUS
    <2>1. CASE n \in ToExecute
      <3>1. task'[n] \in {"running", "raised"}
        BY <2>1 DEF Launch
      <3>2. QED
        BY <2>1, <3>1 DEF ToExecute, Started
    <2>2. CASE n \notin ToExecute
      BY <2>2 DEF Launch
    <2>3. QED
      BY <2>1, <2>2
  <1>2. \A n \in LevelNodes : Started(n)' \/ n \in skipped'
    BY DEF Launch, ToExecute, LevelNodes, TInv, TypeOK, Started
  <1>3. \A n \in LevelNodes : n \in DOMAIN topo /\ topo[n] = level
    BY DEF LevelNodes
  <1>4. DOMAIN topo \subseteq Node /\ (\A n \in DOMAIN topo : topo[n] \in Nat) /\ level \in Nat
    BY DEF TInv, TypeOK
  <1>5. pc' = "tasks"
    BY DEF Launch
  <1>6. GraphInv' /\ PlanInv'
    BY <1>5 DEF ScheduleInv, GraphInv, PlanInv
  <1>7. LevelInv'
    <2>1. \A n \in Node : Started(n)' => n \in DOMAIN topo /\ topo[n] <= level
      BY <1>1, <1>3, <1>4 DEF ScheduleInv, LevelInv, Started
    <2>2. \A n \in DOMAIN topo : topo[n] < level => Settled(n)'
      BY <1>1, <1>3, <1>4, SettledStays DEF ScheduleInv, LevelInv
    <2>3. \A n \in DOMAIN topo : topo[n] = level => Started(n)' \/ n \in skipped'
      BY <1>2 DEF LevelNodes
    <2>4. QED
      BY <1>5, <2>1, <2>2, <2>3 DEF LevelInv
  <1>8. CancelInv'
    BY <1>1, <1>3, <1>4, <1>5 DEF ScheduleInv, CancelInv, Started
  <1>9. QED
    BY <1>6, <1>7, <1>8 DEF ScheduleInv

\* A task that runs ends, sleeps or wakes up; nothing else moves.
LEMMA TaskMovesScheduleInv ==
    ASSUME TInv, ScheduleInv, pc = "tasks", pc' \in {"tasks", "raised"},
           \A n \in Node : \/ task'[n] = task[n]
                           \/ task[n] \in Active /\ task'[n] \in Active \cup Ended,
           pc' = "raised" => \A n \in Node : task'[n] \notin Active,
           UNCHANGED <<workflow, plan, level, skipped, control>>
    PROVE  ScheduleInv'
  <1>1. \A n \in Node : Started(n)' <=> Started(n)
    BY DEF Started, Active, Ended
  <1>2. \A n \in Node : Settled(n) => Settled(n)'
    BY DEF Settled, Active, Ended
  <1>3. DOMAIN topo \subseteq Node
    BY DEF TInv, TypeOK
  <1>4. GraphInv' /\ PlanInv'
    BY DEF ScheduleInv, GraphInv, PlanInv
  <1>5. LevelInv'
    BY <1>1, <1>2, <1>3 DEF ScheduleInv, LevelInv
  <1>6. CancelInv'
    BY <1>1 DEF ScheduleInv, CancelInv
  <1>7. QED
    BY <1>4, <1>5, <1>6 DEF ScheduleInv

LEMMA StepScheduleInv == TInv /\ ScheduleInv /\ [Next]_vars => ScheduleInv'
  <1> SUFFICES ASSUME TInv, ScheduleInv, [Next]_vars
               PROVE  ScheduleInv'
    OBVIOUS
  <1>1. CASE SortLevels
    <2> DEFINE N == GraphNodes(DOMAIN topo, liveEdges)
    <2>1. CASE Acyclic(N, liveEdges)
      <3>1. /\ DOMAIN topo' = N
            /\ topoEdges' = liveEdges
            /\ \A e \in liveEdges : topo'[e.source] < topo'[e.target]
        BY <1>1, <2>1 DEF SortLevels, IsLevelling
      <3>2. \A e \in liveEdges : e.source \in N /\ e.target \in N
        BY DEF GraphNodes
      <3> HIDE DEF N
      <3>3. PlanInv'
        BY <1>1, <3>1, <3>2 DEF SortLevels, PlanInv, ScheduleInv
      <3>4. /\ level = 0 /\ \A n \in Node : ~Started(n)
            /\ UNCHANGED <<level, task>>
        BY <1>1 DEF SortLevels, ScheduleInv, PlanInv
      <3>5. \A n \in DOMAIN topo' : topo'[n] \in Nat
        BY StepTInv DEF TInv, TypeOK
      <3>6. LevelInv'
        BY <1>1, <2>1, <3>4, <3>5 DEF SortLevels, LevelInv, Started, Active
      <3>7. GraphInv' /\ CancelInv'
        BY <1>1, <2>1, <3>4
           DEF SortLevels, ScheduleInv, GraphInv, CancelInv, Started
      <3>8. QED
        BY <3>3, <3>6, <3>7 DEF ScheduleInv
    <2>2. CASE ~Acyclic(N, liveEdges)
      BY <1>1, <2>2 DEF SortLevels, ScheduleInv, GraphInv, PlanInv, LevelInv,
                        CancelInv, Settled, Started
    <2>3. QED
      BY <2>1, <2>2
  <1>2. CASE BeginLevel
    <2>1. CASE toRoute' # {}
      BY <1>2, <2>1 DEF BeginLevel, ScheduleInv, GraphInv, PlanInv, LevelInv,
                        CancelInv, Settled, Started
    <2>2. CASE toRoute' = {}
      BY <1>2, <2>2, LaunchScheduleInv DEF BeginLevel
    <2>3. QED
      BY <2>1, <2>2
  <1>3. CASE StartTasks
    <2>1. cancelled => level < cancelLevel
      BY <1>3 DEF StartTasks, ScheduleInv, CancelInv
    <2>2. QED
      BY <1>3, <2>1, LaunchScheduleInv DEF StartTasks
  <1>4. ASSUME NEW c \in Node, RouteCondition(c)
        PROVE  ScheduleInv'
    <2>1. /\ pc = "route" /\ pc' \in {"route", "raised"}
          /\ skipped \subseteq skipped'
          /\ UNCHANGED <<workflow, plan, level, tasks, control>>
      BY <1>4 DEF RouteCondition
    <2>2. GraphInv' /\ PlanInv' /\ CancelInv'
      BY <2>1 DEF ScheduleInv, GraphInv, PlanInv, CancelInv, Started
    <2>3. LevelInv'
      BY <2>1 DEF ScheduleInv, LevelInv, Settled, Started
    <2>4. QED
      BY <2>2, <2>3 DEF ScheduleInv
  <1>5. ASSUME NEW n \in Node,
               \/ AttemptSucceeds(n) \/ AttemptTimesOut(n)
               \/ BackoffElapses(n) \/ RetriesExhausted(n)
        PROVE  ScheduleInv'
    <2>1. PICK to \in Active \cup Ended :
             task[n] \in Active /\ task' = [task EXCEPT ![n] = to]
      BY <1>5 DEF AttemptSucceeds, AttemptTimesOut, BackoffElapses,
                  RetriesExhausted, Active, Ended
    <2>2. \A m \in Node : \/ task'[m] = task[m]
                          \/ task[m] \in Active /\ task'[m] \in Active \cup Ended
      BY <2>1 DEF TInv, TypeOK
    <2>3. /\ pc = "tasks" /\ pc' = "tasks"
          /\ UNCHANGED <<workflow, plan, level, skipped, control>>
      BY <1>5 DEF AttemptSucceeds, AttemptTimesOut, BackoffElapses,
                  RetriesExhausted
    <2>4. QED
      BY <2>2, <2>3, TaskMovesScheduleInv
  <1>6. CASE AbortSiblings \/ TouchExpired
    <2>1. \A n \in Node : \/ task'[n] = task[n]
                          \/ task[n] \in Active /\ task'[n] \in Active \cup Ended
      BY <1>6 DEF AbortSiblings, TouchExpired, Ended
    <2>2. \A n \in Node : task'[n] \notin Active
      BY <1>6 DEF AbortSiblings, TouchExpired, Active
    <2>3. /\ pc = "tasks" /\ pc' \in {"tasks", "raised"}
          /\ UNCHANGED <<workflow, plan, level, skipped, control>>
      BY <1>6 DEF AbortSiblings, TouchExpired
    <2>4. QED
      BY <2>1, <2>2, <2>3, TaskMovesScheduleInv
  <1>7. CASE JoinTasks
    <2>1. /\ pc = "tasks" /\ \A n \in Node : task[n] \notin Active
          /\ UNCHANGED <<workflow, plan, skipped, tasks, control>>
          /\ \/ level' = level + 1 /\ pc' = "level"
             \/ level' = level /\ pc' = "raised"
      BY <1>7 DEF JoinTasks
    <2>2. /\ level \in Nat
          /\ \A n \in DOMAIN topo : n \in Node /\ topo[n] \in Nat
      BY DEF TInv, TypeOK
    <2>3. \A n \in DOMAIN topo : topo[n] <= level => Settled(n)
      <3>1. \A n \in Node : Started(n) => task[n] \in Ended
        BY <2>1 DEF Started, TInv, TypeOK
      <3>2. \A n \in DOMAIN topo : topo[n] = level => Settled(n)
        BY <2>1, <2>2, <3>1 DEF ScheduleInv, LevelInv, Settled, Started
      <3>3. QED
        BY <2>2, <3>2 DEF ScheduleInv, LevelInv
    <2>4. LevelInv'
      BY <2>1, <2>2, <2>3 DEF ScheduleInv, LevelInv, Settled, Started
    <2>5. GraphInv' /\ PlanInv' /\ CancelInv'
      BY <2>1 DEF ScheduleInv, GraphInv, PlanInv, CancelInv, Started
    <2>6. QED
      BY <2>4, <2>5 DEF ScheduleInv
  <1>8. CASE Cancel
    <2>1. GraphInv' /\ PlanInv' /\ LevelInv'
      BY <1>8 DEF Cancel, ScheduleInv, GraphInv, PlanInv, LevelInv, Settled,
                  Started
    <2>2. CancelInv'
      <3>1. CASE cancelled
        BY <1>8, <3>1 DEF Cancel, ScheduleInv, CancelInv, Started
      <3>2. CASE ~cancelled /\ pc \in {"route", "tasks", "raised"}
        BY <1>8, <3>2 DEF Cancel, ScheduleInv, LevelInv, CancelInv, Started,
                          TInv, TypeOK
      <3>3. CASE ~cancelled /\ pc \notin {"route", "tasks", "raised"}
        BY <1>8, <3>3 DEF Cancel, ScheduleInv, LevelInv, CancelInv, Started
      <3>4. QED
        BY <3>1, <3>2, <3>3
    <2>3. QED
      BY <2>1, <2>2 DEF ScheduleInv
  <1>9. QED
    BY <1>1, <1>2, <1>3, <1>4, <1>5, <1>6, <1>7, <1>8, QuietStepsScheduleInv
       DEF Next, Step, Environment

\* A step keeps what is durable, and keeps it part of the session.
LEMMA StepDurableInv ==
    ASSUME TInv, DurableInv, [Next]_vars
    PROVE  /\ DurableInv'
           /\ dbRecords \subseteq dbRecords'
           /\ dbStatus = "COMPLETED" => dbStatus' = "COMPLETED"
  <1> DEFINE Goal == /\ DurableInv'
                     /\ dbRecords \subseteq dbRecords'
                     /\ dbStatus = "COMPLETED" => dbStatus' = "COMPLETED"
  <1> USE DEF DurableInv
  <1>1. CASE Execute
    BY <1>1 DEF Execute
  <1>2. CASE QueryTopologyNodes \/ FetchNodes \/ FetchEdges
    BY <1>2 DEF QueryTopologyNodes, FetchNodes, FetchEdges
  <1>3. CASE SortLevels
    BY <1>3 DEF SortLevels
  <1>4. CASE CommitRunning \/ CommitCompleted
    BY <1>4 DEF CommitRunning, CommitCompleted, CommitSession, Flush
  <1>5. CASE StopOnCancel \/ BeginLevel \/ StartTasks
    BY <1>5 DEF StopOnCancel, BeginLevel, StartTasks, Launch
  <1>6. ASSUME NEW n \in Node, RouteCondition(n)
        PROVE  Goal
    BY <1>6 DEF RouteCondition, Flush, LoseSession
  <1>7. ASSUME NEW n \in Node,
               \/ AttemptSucceeds(n) \/ AttemptTimesOut(n)
               \/ BackoffElapses(n) \/ RetriesExhausted(n)
        PROVE  Goal
    BY <1>7 DEF AttemptSucceeds, AttemptTimesOut, BackoffElapses, RetriesExhausted
  <1>8. CASE AbortSiblings \/ TouchExpired
    BY <1>8 DEF AbortSiblings, TouchExpired
  <1>9. CASE JoinTasks
    BY <1>9 DEF JoinTasks, Flush, LoseSession
  <1>10. CASE MarkBlocked
    BY <1>10 DEF MarkBlocked, Flush, LoseSession
  <1>11. CASE Complete
    BY <1>11 DEF Complete
  <1>12. CASE Cancel
    BY <1>12 DEF Cancel, CommitSession, Flush, LoseSession
  <1>13. CASE CloseSession
    BY <1>13 DEF CloseSession, CommitSession, Flush
  <1>14. CASE DeleteEdge \/ CreateEdge \/ DeleteNode \/ CreateNode
    BY <1>14 DEF DeleteEdge, CreateEdge, DeleteNode, CreateNode, Edit
  <1>15. CASE UNCHANGED vars
    BY <1>15 DEF vars
  <1>16. QED
    BY <1>1, <1>2, <1>3, <1>4, <1>5, <1>6, <1>7, <1>8, <1>9, <1>10, <1>11,
       <1>12, <1>13, <1>14, <1>15 DEF Next, Step, Environment

LEMMA InductiveInvariant == Spec => []IInv
  <1>1. Init => IInv
    BY InitTInv, InitScheduleInv DEF Init, IInv, DurableInv
  <1>2. IInv /\ [Next]_vars => IInv'
    BY StepTInv, StepScheduleInv, StepDurableInv DEF IInv
  <1>3. QED
    BY <1>1, <1>2, PTL DEF Spec

LEMMA PredecessorsSettled == ASSUME IInv PROVE PredecessorsFirst
  <1> SUFFICES ASSUME NEW e \in topoEdges, Started(e.target)
               PROVE  Settled(e.source)
    BY DEF PredecessorsFirst
  <1>1. /\ e.source \in DOMAIN topo /\ e.target \in DOMAIN topo
        /\ topo[e.source] < topo[e.target]
    BY DEF IInv, ScheduleInv, PlanInv
  <1>2. /\ topo[e.source] \in Nat /\ topo[e.target] \in Nat /\ level \in Nat
        /\ DOMAIN topo \subseteq Node
    BY <1>1 DEF IInv, TInv, TypeOK
  <1>3. topo[e.target] <= level
    BY <1>1, <1>2 DEF IInv, ScheduleInv, LevelInv
  <1>4. QED
    BY <1>1, <1>2, <1>3 DEF IInv, ScheduleInv, LevelInv

\* No node starts before all it depends on has settled, whatever graph is
\* sorted, fails, is cancelled or edited: the barrier between the levels is as
\* good as waiting for each edge.
THEOREM DependenciesHold == Spec => []PredecessorsFirst
  <1>1. IInv => PredecessorsFirst
    BY PredecessorsSettled
  <1>2. QED
    BY <1>1, InductiveInvariant, PTL

\* After cancel() no level begins, whenever the flag is set.
THEOREM CancellationStops == Spec => []CancelStopsAtLevel
  <1>1. IInv => CancelStopsAtLevel
    BY DEF IInv, TInv, TypeOK, ScheduleInv, CancelInv, CancelStopsAtLevel
  <1>2. QED
    BY <1>1, InductiveInvariant, PTL

\* No commit, rollback, lost session or cancel() takes back a committed row or
\* a COMPLETED execution.
THEOREM CommitsAreFinal == Spec => CommittedStays
  <1>1. IInv /\ [Next]_vars =>
          [ /\ dbRecords \subseteq dbRecords'
            /\ dbStatus = "COMPLETED" => dbStatus' = "COMPLETED" ]_vars
    BY StepDurableInv DEF IInv
  <1>2. QED
    BY <1>1, InductiveInvariant, PTL DEF Spec, CommittedStays

------------------------------------------------------------------------------
(* Refinement of NodeDataflow *)

Early == {"new", "topology", "sort"}

LEMMA PhaseValues ==
    ASSUME TypeOK, NEW n \in Node
    PROVE  /\ task[n] = "idle" /\ n \notin skipped <=> Phase(n) = "waiting"
           /\ task[n] = "idle" /\ n \in skipped <=> Phase(n) = "skipped"
           /\ task[n] \in Active <=> Phase(n) = "running"
           /\ Settled(n) <=> Phase(n) \in Dataflow!Settled
  BY DEF TypeOK, Phase, Settled, Dataflow!Settled, Active, Ended

\* A step that moves no task, skips nothing and plans nothing.
LEMMA StutterSteps ==
    ASSUME UNCHANGED <<topoEdges, task, skipped>>, pc \in Early <=> pc' \in Early
    PROVE  UNCHANGED Dataflow!dvars
  BY DEF Dataflow!dvars, Phase, Early

LEMMA QuietStepsStutter ==
    ASSUME TypeOK,
           \/ QueryTopologyNodes \/ CommitRunning \/ FetchNodes \/ FetchEdges
           \/ StopOnCancel \/ JoinTasks \/ MarkBlocked \/ Complete
           \/ CommitCompleted \/ CloseSession \/ Cancel
           \/ DeleteEdge \/ CreateEdge \/ DeleteNode \/ CreateNode
           \/ UNCHANGED vars
    PROVE  UNCHANGED Dataflow!dvars
  <1> USE DEF Early
  <1>1. CASE QueryTopologyNodes
    BY <1>1, StutterSteps DEF QueryTopologyNodes
  <1>2. CASE CommitRunning
    BY <1>2, StutterSteps DEF CommitRunning
  <1>3. CASE FetchNodes
    BY <1>3, StutterSteps DEF FetchNodes
  <1>4. CASE FetchEdges
    BY <1>4, StutterSteps DEF FetchEdges
  <1>5. CASE StopOnCancel
    BY <1>5, StutterSteps DEF StopOnCancel
  <1>6. CASE JoinTasks
    BY <1>6, StutterSteps DEF JoinTasks
  <1>7. CASE MarkBlocked
    BY <1>7, StutterSteps DEF MarkBlocked
  <1>8. CASE Complete
    BY <1>8, StutterSteps DEF Complete
  <1>9. CASE CommitCompleted
    BY <1>9, StutterSteps DEF CommitCompleted
  <1>10. CASE CloseSession
    BY <1>10, StutterSteps DEF CloseSession
  <1>11. CASE Cancel
    BY <1>11, StutterSteps DEF Cancel
  <1>12. CASE DeleteEdge \/ CreateEdge \/ DeleteNode \/ CreateNode
    BY <1>12, StutterSteps DEF DeleteEdge, CreateEdge, DeleteNode, CreateNode, Edit
  <1>13. CASE UNCHANGED vars
    BY <1>13, StutterSteps DEF vars
  <1>14. QED
    BY <1>1, <1>2, <1>3, <1>4, <1>5, <1>6, <1>7, <1>8, <1>9, <1>10, <1>11,
       <1>12, <1>13

\* Launching a level starts its nodes, and everything they need has settled.
LEMMA LaunchStarts ==
    ASSUME IInv, IInv', pc \in {"level", "route"}, Launch(ToExecute),
           UNCHANGED <<plan, skipped>>
    PROVE  Dataflow!DStart(ToExecute)
  <1> DEFINE s == [n \in ToExecute |-> IF n \in nodes THEN "running" ELSE "lost"]
  <1>1. /\ ToExecute \subseteq Node
        /\ DOMAIN topo \subseteq Node /\ level \in Nat
        /\ \A n \in DOMAIN topo : topo[n] \in Nat
    BY DEF ToExecute, LevelNodes, IInv, TInv, TypeOK
  <1>2. ASSUME NEW n \in ToExecute
        PROVE  /\ Phase(n) = "waiting"
               /\ \A m \in Predecessors(topoEdges, n) : Phase(m) \in Dataflow!Settled
    <2>1. n \in Node /\ n \notin skipped /\ n \in DOMAIN topo /\ topo[n] = level
      BY <1>1 DEF ToExecute, LevelNodes
    <2>2. task[n] = "idle"
      BY <1>1, <2>1 DEF IInv, ScheduleInv, LevelInv, Started
    <2>3. ASSUME NEW m \in Predecessors(topoEdges, n)
          PROVE  Phase(m) \in Dataflow!Settled
      <3>1. m \in DOMAIN topo /\ topo[m] < level
        BY <2>1 DEF Predecessors, IInv, ScheduleInv, PlanInv
      <3>2. m \in Node /\ Settled(m)
        BY <1>1, <3>1 DEF IInv, ScheduleInv, LevelInv
      <3>3. QED
        BY <3>2, PhaseValues DEF IInv, TInv
    <2>4. QED
      BY <2>1, <2>2, <2>3, PhaseValues DEF IInv, TInv
  <1>3. s \in [ToExecute -> {"running", "lost"}]
    OBVIOUS
  <1>4. \A n \in Node : Phase(n)' = IF n \in ToExecute THEN s[n] ELSE Phase(n)
    <2> SUFFICES ASSUME NEW n \in Node
                 PROVE  Phase(n)' = IF n \in ToExecute THEN s[n] ELSE Phase(n)
      OBVIOUS
    <2>1. CASE n \in ToExecute
      <3>1. task'[n] = IF n \in nodes THEN "running" ELSE "raised"
        BY <2>1 DEF Launch
      <3>2. QED
        BY <2>1, <3>1 DEF Phase, Active
    <2>2. CASE n \notin ToExecute
      <3>1. task'[n] = task[n] /\ skipped' = skipped
        BY <2>2 DEF Launch
      <3>2. QED
        BY <2>2, <3>1 DEF Phase
    <2>3. QED
      BY <2>1, <2>2
  <1>5. pc \notin Early /\ pc' \notin Early
    BY DEF Launch, Early
  <1>6. [n \in Node |-> Phase(n)]' =
          [n \in Node |-> IF n \in ToExecute THEN s[n] ELSE [m \in Node |-> Phase(m)][n]]
    BY <1>4
  <1>7. \A n \in ToExecute :
          /\ [m \in Node |-> Phase(m)][n] = "waiting"
          /\ \A m \in [k \in Node |-> Predecessors(topoEdges, k)][n] :
                [k \in Node |-> Phase(k)][m] \in Dataflow!Settled
    <2>1. \A n \in Node : Predecessors(topoEdges, n) \subseteq Node
      BY PredecessorsAreNodes DEF IInv, TInv, TypeOK
    <2>2. QED
      BY <1>1, <1>2, <2>1
  <1>8. QED
    BY <1>3, <1>5, <1>6, <1>7 DEF Dataflow!DStart, Early

\* Tasks that were active end, the others stay as they are.
LEMMA TasksSettle ==
    ASSUME TypeOK, NEW B \in SUBSET Node, NEW st \in {"done", "failed", "aborted"},
           \A n \in B : task[n] \in Active /\ task'[n] = st,
           \A n \in Node \ B : task'[n] = task[n],
           UNCHANGED <<topoEdges, skipped>>, pc = "tasks", pc' \notin Early
    PROVE  Dataflow!DSettle(B)
  <1> DEFINE to == IF st = "aborted" THEN "lost" ELSE st
             s  == [n \in B |-> to]
  <1>1. s \in [B -> {"done", "failed", "lost"}]
    OBVIOUS
  <1>2. \A n \in B : Phase(n) = "running"
    BY PhaseValues
  <1>3. \A n \in Node : Phase(n)' = IF n \in B THEN s[n] ELSE Phase(n)
    BY DEF Phase, Active
  <1>4. QED
    BY <1>1, <1>2, <1>3 DEF Dataflow!DSettle, Early

LEMMA StepRefines ==
    ASSUME IInv, IInv', [Next]_vars
    PROVE  [Dataflow!DNext]_(Dataflow!dvars)
  <1> USE DEF Early
  <1>1. CASE Execute
    <2>1. UNCHANGED <<topoEdges, task, skipped>>
      BY <1>1 DEF Execute
    <2>2. CASE cancelled
      <3>1. Dataflow!DPlan
        BY <1>1, <2>1, <2>2, PredecessorsAreNodes
           DEF Execute, Dataflow!DPlan, Phase, IInv, TInv, TypeOK
      <3>2. QED
        BY <3>1 DEF Dataflow!DNext
    <2>3. CASE ~cancelled
      BY <1>1, <2>1, <2>3, StutterSteps DEF Execute
    <2>4. QED
      BY <2>2, <2>3
  <1>2. CASE SortLevels
    <2>1. topoEdges' \in SUBSET EdgesOver(Node)
      BY DEF IInv, TInv, TypeOK
    <2>2. Dataflow!DPlan
      BY <1>2, <2>1, PredecessorsAreNodes DEF SortLevels, Dataflow!DPlan, Phase
    <2>3. QED
      BY <2>2 DEF Dataflow!DNext
  <1>3. CASE BeginLevel
    <2>1. CASE toRoute' # {}
      BY <1>3, <2>1, StutterSteps DEF BeginLevel
    <2>2. CASE toRoute' = {}
      <3>1. Dataflow!DStart(ToExecute)
        BY <1>3, <2>2, LaunchStarts DEF BeginLevel
      <3>2. ToExecute \in SUBSET Node
        BY DEF ToExecute, LevelNodes, IInv, TInv, TypeOK
      <3>3. QED
        BY <3>1, <3>2 DEF Dataflow!DNext
    <2>3. QED
      BY <2>1, <2>2
  <1>4. CASE StartTasks
    <2>1. Dataflow!DStart(ToExecute)
      BY <1>4, LaunchStarts DEF StartTasks
    <2>2. ToExecute \in SUBSET Node
      BY DEF ToExecute, LevelNodes, IInv, TInv, TypeOK
    <2>3. QED
      BY <2>1, <2>2 DEF Dataflow!DNext
  <1>5. ASSUME NEW c \in Node, RouteCondition(c)
        PROVE  Dataflow!DNext
    <2> DEFINE out == RoutedAround(c)
    <2>1. /\ skipped' = skipped \cup out /\ UNCHANGED <<topoEdges, task>>
          /\ pc = "route" /\ pc' \notin Early
      BY <1>5 DEF RouteCondition
    <2>2. out \in SUBSET Node
      BY ReachableAreNodes DEF RoutedAround
    <2>3. \A n \in Node : Phase(n)' = IF n \in out /\ Phase(n) = "waiting"
                                      THEN "skipped" ELSE Phase(n)
      BY <2>1, PhaseValues DEF Phase, IInv, TInv
    <2>4. Dataflow!DSkip(out)
      BY <2>1, <2>3 DEF Dataflow!DSkip
    <2>5. QED
      BY <2>2, <2>4 DEF Dataflow!DNext
  <1>6. ASSUME NEW n \in Node, AttemptSucceeds(n) \/ RetriesExhausted(n)
        PROVE  Dataflow!DNext
    <2>1. PICK st \in {"done", "failed"} :
             task[n] \in Active /\ task' = [task EXCEPT ![n] = st]
      BY <1>6 DEF AttemptSucceeds, RetriesExhausted, Active
    <2>2. /\ task'[n] = st /\ \A m \in Node \ {n} : task'[m] = task[m]
      BY <2>1 DEF IInv, TInv, TypeOK
    <2>3. UNCHANGED <<topoEdges, skipped>> /\ pc = "tasks" /\ pc' \notin Early
      BY <1>6 DEF AttemptSucceeds, RetriesExhausted
    <2>4. Dataflow!DSettle({n})
      BY <2>1, <2>2, <2>3, TasksSettle DEF IInv, TInv
    <2>5. QED
      BY <2>4 DEF Dataflow!DNext
  <1>7. ASSUME NEW n \in Node, AttemptTimesOut(n) \/ BackoffElapses(n)
        PROVE  UNCHANGED Dataflow!dvars
    <2>1. PICK st \in Active : task[n] \in Active /\ task' = [task EXCEPT ![n] = st]
      BY <1>7 DEF AttemptTimesOut, BackoffElapses, Active
    <2>2. UNCHANGED <<topoEdges, skipped>> /\ pc = "tasks" /\ pc' = "tasks"
      BY <1>7 DEF AttemptTimesOut, BackoffElapses
    <2>3. \A m \in Node : Phase(m)' = Phase(m)
      BY <2>1, <2>2 DEF Phase, Active, IInv, TInv, TypeOK
    <2>4. QED
      BY <2>2, <2>3 DEF Dataflow!dvars
  <1>8. CASE AbortSiblings \/ TouchExpired
    <2> DEFINE B == {n \in Node : task[n] \in Active}
    <2>1. /\ \A n \in B : task[n] \in Active /\ task'[n] = "aborted"
          /\ \A n \in Node \ B : task'[n] = task[n]
          /\ UNCHANGED <<topoEdges, skipped>> /\ pc = "tasks" /\ pc' \notin Early
      BY <1>8 DEF AbortSiblings, TouchExpired
    <2>2. Dataflow!DSettle(B)
      BY <2>1, TasksSettle DEF IInv, TInv
    <2>3. QED
      BY <2>2 DEF Dataflow!DNext
  <1>9. QED
    BY <1>1, <1>2, <1>3, <1>4, <1>5, <1>6, <1>7, <1>8, QuietStepsStutter
       DEF Next, Step, Environment, IInv, TInv

\* The executor implements NodeDataflow: levels, barriers, conditions, retries,
\* cancellation and lost sessions never make a node start before its turn, start
\* twice, or run after it was routed around.
THEOREM Refinement == Spec => ImplementsDataflow
  <1>1. ASSUME Init PROVE Dataflow!DInit
    <2>1. \A n \in Node : Predecessors(topoEdges, n) = {} /\ Phase(n) = "waiting"
      <3>1. topoEdges = {}
        BY <1>1 DEF Init
      <3>2. \A n \in Node : Predecessors(topoEdges, n) = {}
        BY <3>1 DEF Predecessors
      <3>3. \A n \in Node : task[n] = "idle" /\ n \notin skipped
        BY <1>1 DEF Init
      <3>4. \A n \in Node : Phase(n) = "waiting"
        BY <3>3 DEF Phase, Active
      <3>5. QED
        BY <3>2, <3>4
    <2>2. QED
      BY <1>1, <2>1 DEF Init, Dataflow!DInit
  <1>2. IInv /\ IInv' /\ [Next]_vars => [Dataflow!DNext]_(Dataflow!dvars)
    BY StepRefines
  <1>3. QED
    BY <1>1, <1>2, InductiveInvariant, PTL
       DEF Spec, ImplementsDataflow, Dataflow!DSpec

------------------------------------------------------------------------------
(* What is recorded and reported: the invariant *)

\* The rows in the session still count: execute() has not raised, and the session has
\* neither been lost nor closed.
Safe == pc \notin {"raised", "closed"} /\ status # "expired"

RanRows(n) == {r \in Rows : r.node = n /\ r.why = "ran"}

\* Before the first level nothing has happened; conditions are evaluated at their level.
EarlyInv ==
    /\ pc \in {"new", "topology", "sort", "running", "fetchNodes", "fetchEdges"} =>
          /\ skipped = {} /\ failed = {} /\ pending = {} /\ flushed = {}
          /\ \A n \in Node : ~Started(n)
    /\ pc \in {"new", "topology", "sort", "running", "fetchNodes"} => nodes = {}
    /\ pc = "route" => toRoute \subseteq LevelNodes

\* Who makes which rows.
RowsInv ==
    \A r \in Rows : /\ r.status = "SKIPPED" \/ r.why = "ran"
                    /\ r.why = "condition" => r.node \in skipped

\* The context holds the outputs of the tasks that are done.
OutputsInv == \A n \in Node : n \in outputs <=> task[n] = "done"

\* What a condition routes around lies behind the current level.
SkippedInv == edges \subseteq topoEdges => \A n \in skipped : ~Started(n)

\* Whatever the run knows of has been created.
BornInv == /\ DOMAIN topo \subseteq born /\ nodes \subseteq born
           /\ \A r \in pending : r.node \in born

\* As long as no node is deleted all nodes of the levels are fetched, no task and no
\* flush fails for the lack of a node, and who failed or was routed around is known.
WholeInv ==
    NoneDeleted =>
        /\ pc \in {"fetchEdges", "level", "route", "tasks", "completed"} =>
              DOMAIN topo \subseteq nodes
        /\ status # "expired"
        /\ \A n \in Node : task[n] \notin {"raised", "aborted"}
        /\ pc \in {"level", "route", "tasks", "completed"} =>
              /\ \A n \in Node : task[n] = "failed" /\ topo[n] < level => n \in failed
              /\ \A n \in skipped \cap DOMAIN topo :
                    \E r \in Rows : r.node = n /\ r.why = "condition"

\* Every node of the levels completed or was routed around.
AllWell(rows) ==
    /\ \A n \in DOMAIN topo : \E r \in rows :
          /\ r.node = n
          /\ \/ r.status = "COMPLETED"
             \/ r.status = "SKIPPED" /\ r.why = "condition"
    /\ \A r \in rows : r.status # "FAILED"

\* A run that comes to its end is well, and stays as it was committed.
EndInv ==
    /\ pc = "completed" =>
          status = "COMPLETED" /\ (NoneDeleted => AllWell(Rows))
    /\ result = "COMPLETED" =>
          /\ pc \in {"returned", "closed"} /\ Rows = dbRecords
          /\ status = "COMPLETED" /\ dbStatus = "COMPLETED"
          /\ NoneDeleted => AllWell(Rows)

OInv == /\ EarlyInv /\ RowsInv /\ OutputsInv /\ SkippedInv /\ BornInv /\ WholeInv
        /\ EndInv /\ OneOutcomePerNode /\ InputsComplete /\ EveryNodeReported

LEMMA InitOInv == ASSUME Init PROVE OInv
<1>1. EarlyInv /\ RowsInv /\ OutputsInv /\ SkippedInv
    BY DEF Init, EarlyInv, RowsInv, OutputsInv, SkippedInv, Rows, Started
<1>2. BornInv /\ WholeInv /\ EndInv
    BY DEF Init, BornInv, WholeInv, EndInv
<1>3. OneOutcomePerNode
    BY DEF Init, OneOutcomePerNode, Rows
<1>4. InputsComplete /\ EveryNodeReported
    BY DEF Init, InputsComplete, EveryNodeReported, Active
<1> QED BY <1>1, <1>2, <1>3, <1>4 DEF OInv

------------------------------------------------------------------------------
(* The kinds of steps *)

\* Tasks do not move, and no row is made.
Quiet == UNCHANGED tasks /\ Rows' \subseteq Rows /\ (Safe' => Rows' = Rows)

LaunchStep ==
    /\ pc \in {"level", "route"}
    /\ Launch(ToExecute)
    /\ UNCHANGED <<workflow, plan, snapshot, level, skipped, failed, session, result, database>>

TaskStep(n) ==
    AttemptSucceeds(n) \/ AttemptTimesOut(n) \/ BackoffElapses(n) \/ RetriesExhausted(n)

LEMMA CommitKeepsRows ==
    ASSUME NEW st, CommitSession(st)
    PROVE  Rows' = Rows
BY DEF CommitSession, Flush, Rows

LEMMA LoseDropsRows ==
    ASSUME DurableInv, LoseSession
    PROVE  Rows' \subseteq Rows /\ ~Safe'
BY DEF DurableInv, LoseSession, Rows, Safe

LEMMA Kinds ==
    ASSUME TInv, DurableInv, [Next]_vars
    PROVE  \/ Quiet
           \/ \E c \in Node : RouteCondition(c)
           \/ LaunchStep
           \/ \E n \in Node : TaskStep(n)
           \/ AbortSiblings \/ TouchExpired \/ MarkBlocked
<1>1. CASE \/ Execute \/ QueryTopologyNodes \/ SortLevels \/ FetchNodes \/ FetchEdges
           \/ StopOnCancel \/ Complete \/ DeleteEdge \/ CreateEdge \/ DeleteNode \/ CreateNode
           \/ UNCHANGED vars
    BY <1>1 DEF Execute, QueryTopologyNodes, SortLevels, FetchNodes, FetchEdges, StopOnCancel,
                Complete, DeleteEdge, CreateEdge, DeleteNode, CreateNode, Edit, vars, Quiet, Rows
<1>2. CASE CommitRunning \/ CommitCompleted
    BY <1>2, CommitKeepsRows DEF CommitRunning, CommitCompleted, Quiet
<1>3. CASE BeginLevel
    BY <1>3 DEF BeginLevel, Quiet, LaunchStep, Rows
<1>4. CASE StartTasks
    BY <1>4 DEF StartTasks, LaunchStep
<1>5. CASE JoinTasks
    <2>1. CASE ForeignKeysHold(pending)
        BY <1>5, <2>1 DEF JoinTasks, Flush, Quiet, Rows
    <2>2. CASE ~ForeignKeysHold(pending)
        BY <1>5, <2>2, LoseDropsRows DEF JoinTasks, Quiet
    <2> QED BY <2>1, <2>2
<1>6. CASE CloseSession
    <2>1. CASE pc = "returned"
        BY <1>6, <2>1, CommitKeepsRows DEF CloseSession, Quiet
    <2>2. CASE pc # "returned"
        BY <1>6, <2>2 DEF CloseSession, Quiet, Rows, Safe, DurableInv
    <2> QED BY <2>1, <2>2
<1>7. CASE Cancel
    <2>0. UNCHANGED tasks
        BY <1>7 DEF Cancel
    <2>1. CASE UNCHANGED <<session, database>>
        BY <2>0, <2>1 DEF Quiet, Rows
    <2>2. CASE CommitSession("CANCELLED")
        BY <2>0, <2>2, CommitKeepsRows DEF Quiet
    <2>3. CASE LoseSession
        BY <2>0, <2>3, LoseDropsRows DEF Quiet
    <2>4. CASE UNCHANGED <<pending, flushed, database>>
        BY <2>0, <2>4 DEF Quiet, Rows
    <2> QED BY <1>7, <2>1, <2>2, <2>3, <2>4 DEF Cancel
<1> QED BY <1>1, <1>2, <1>3, <1>4, <1>5, <1>6, <1>7 DEF Next, Step, Environment, TaskStep

\* What has been lost does not come back.
LEMMA SafeBefore ==
    ASSUME TInv, [Next]_vars, Safe'
    PROVE  Safe
<1> USE DEF TInv, SessionInv, Safe
<1>1. CASE \/ Execute \/ QueryTopologyNodes \/ SortLevels \/ CommitRunning \/ FetchNodes
           \/ FetchEdges \/ StopOnCancel \/ BeginLevel \/ StartTasks \/ JoinTasks
           \/ MarkBlocked \/ Complete \/ CommitCompleted
    BY <1>1 DEF Execute, QueryTopologyNodes, SortLevels, CommitRunning, FetchNodes, FetchEdges,
                StopOnCancel, BeginLevel, StartTasks, JoinTasks, MarkBlocked, Complete,
                CommitCompleted
<1>2. CASE \/ \E n \in Node : RouteCondition(n) \/ TaskStep(n)
           \/ AbortSiblings \/ TouchExpired
    BY <1>2 DEF RouteCondition, TaskStep, AttemptSucceeds, AttemptTimesOut, BackoffElapses,
                RetriesExhausted, AbortSiblings, TouchExpired
<1>3. CASE Cancel \/ CloseSession \/ DeleteEdge \/ CreateEdge \/ DeleteNode \/ CreateNode
    BY <1>3 DEF Cancel, CloseSession, DeleteEdge, CreateEdge, DeleteNode, CreateNode, Edit
<1>4. CASE UNCHANGED vars
    BY <1>4 DEF vars
<1> QED BY <1>1, <1>2, <1>3, <1>4 DEF Next, Step, Environment, TaskStep

\* Only the routing of a condition changes who is routed around.
LEMMA SkippedChanges ==
    ASSUME [Next]_vars
    PROVE  skipped' = skipped \/ \E c \in Node : RouteCondition(c)
<1>1. CASE \/ Execute \/ QueryTopologyNodes \/ SortLevels \/ CommitRunning \/ FetchNodes
           \/ FetchEdges \/ StopOnCancel \/ BeginLevel \/ StartTasks \/ JoinTasks
           \/ MarkBlocked \/ Complete \/ CommitCompleted
    BY <1>1 DEF Execute, QueryTopologyNodes, SortLevels, CommitRunning, FetchNodes, FetchEdges,
                StopOnCancel, BeginLevel, StartTasks, JoinTasks, MarkBlocked, Complete,
                CommitCompleted
<1>2. CASE \/ \E n \in Node : TaskStep(n)
           \/ AbortSiblings \/ TouchExpired
    BY <1>2 DEF TaskStep, AttemptSucceeds, AttemptTimesOut, BackoffElapses,
                RetriesExhausted, AbortSiblings, TouchExpired
<1>3. CASE Cancel \/ CloseSession \/ DeleteEdge \/ CreateEdge \/ DeleteNode \/ CreateNode
    BY <1>3 DEF Cancel, CloseSession, DeleteEdge, CreateEdge, DeleteNode, CreateNode, Edit
<1>4. CASE UNCHANGED vars
    BY <1>4 DEF vars
<1> QED BY <1>1, <1>2, <1>3, <1>4 DEF Next, Step, Environment, TaskStep

------------------------------------------------------------------------------
(* The rows *)

LEMMA StepEarlyInv ==
    ASSUME TInv, DurableInv, EarlyInv, [Next]_vars
    PROVE  EarlyInv'
<1> USE DEF EarlyInv, Started, LevelNodes
<1>1. CASE \/ Execute \/ QueryTopologyNodes \/ FetchNodes \/ FetchEdges \/ StopOnCancel
           \/ Complete \/ DeleteEdge \/ CreateEdge \/ DeleteNode \/ CreateNode \/ UNCHANGED vars
    BY <1>1 DEF Execute, QueryTopologyNodes, FetchNodes, FetchEdges, StopOnCancel,
                Complete, DeleteEdge, CreateEdge, DeleteNode, CreateNode, Edit, vars
<1>2. CASE SortLevels
    BY <1>2 DEF SortLevels
<1>3. CASE CommitRunning \/ CommitCompleted
    BY <1>3 DEF CommitRunning, CommitCompleted, CommitSession, Flush
<1>4. CASE BeginLevel \/ StartTasks
    BY <1>4 DEF BeginLevel, StartTasks, Launch
<1>5. CASE \E c \in Node : RouteCondition(c)
    BY <1>5 DEF RouteCondition
<1>6. CASE \/ \E n \in Node : TaskStep(n)
           \/ AbortSiblings \/ TouchExpired \/ JoinTasks \/ MarkBlocked \/ CloseSession
    BY <1>6 DEF TaskStep, AttemptSucceeds, AttemptTimesOut, BackoffElapses, RetriesExhausted,
                AbortSiblings, TouchExpired, JoinTasks, MarkBlocked, CloseSession
<1>7. CASE Cancel
    BY <1>7 DEF Cancel, CommitSession, Flush, LoseSession, DurableInv
<1> QED BY <1>1, <1>2, <1>3, <1>4, <1>5, <1>6, <1>7 DEF Next, Step, Environment, TaskStep

\* The rows that the routing of a condition and the marking of what is blocked add.
LEMMA RouteRows ==
    ASSUME TInv, DurableInv, NEW c \in Node, RouteCondition(c)
    PROVE  /\ skipped' = skipped \cup RoutedAround(c)
           /\ Rows' \subseteq Rows \cup {SkippedRecord(n, "condition", c) :
                                           n \in RoutedAround(c) \cap nodes}
           /\ Safe' => Rows' = Rows \cup {SkippedRecord(n, "condition", c) :
                                           n \in RoutedAround(c) \cap nodes}
<1> DEFINE rows == {SkippedRecord(n, "condition", c) : n \in RoutedAround(c) \cap nodes}
<1>1. /\ skipped' = skipped \cup RoutedAround(c)
      /\ \/ Flush(pending \cup rows)
         \/ LoseSession
    BY DEF RouteCondition
<1> HIDE DEF rows
<1>2. CASE Flush(pending \cup rows)
    BY <1>1, <1>2 DEF Flush, Rows, rows
<1>3. CASE LoseSession
    BY <1>1, <1>3, LoseDropsRows DEF rows
<1> QED BY <1>1, <1>2, <1>3

LEMMA BlockedRows ==
    ASSUME TInv, DurableInv, MarkBlocked
    PROVE  \E rows : /\ \A r \in rows : r.status = "SKIPPED" /\ r.why = "upstream"
                     /\ Rows' \subseteq Rows \cup rows
                     /\ Safe' => Rows' = Rows \cup rows
<1> DEFINE blocked == ReachableFrom(Node, edges, failed) \ failed
           rows == {SkippedRecord(n, "upstream", n) : n \in blocked \cap nodes}
<1>1. Flush(pending \cup rows) \/ LoseSession
    BY DEF MarkBlocked
<1>2. \A r \in rows : r.status = "SKIPPED" /\ r.why = "upstream"
    BY DEF SkippedRecord
<1> HIDE DEF rows
<1>3. CASE Flush(pending \cup rows)
    BY <1>2, <1>3 DEF Flush, Rows
<1>4. CASE LoseSession
    BY <1>2, <1>4, LoseDropsRows
<1> QED BY <1>1, <1>3, <1>4

LEMMA StepRowsInv ==
    ASSUME TInv, DurableInv, RowsInv, [Next]_vars
    PROVE  RowsInv'
<1>0. skipped \subseteq skipped'
    BY SkippedChanges DEF RouteCondition
<1>1. CASE Quiet
    BY <1>0, <1>1 DEF Quiet, RowsInv
<1>2. ASSUME NEW c \in Node, RouteCondition(c) PROVE RowsInv'
    BY <1>0, <1>2, RouteRows DEF RowsInv, SkippedRecord
<1>3. CASE LaunchStep
    BY <1>0, <1>3 DEF LaunchStep, RowsInv, Rows
<1>4. ASSUME NEW n \in Node, TaskStep(n) PROVE RowsInv'
    BY <1>0, <1>4 DEF TaskStep, AttemptSucceeds, AttemptTimesOut, BackoffElapses,
                      RetriesExhausted, RowsInv, Rows, RunRecord
<1>5. CASE AbortSiblings \/ TouchExpired
    BY <1>0, <1>5 DEF AbortSiblings, TouchExpired, RowsInv, Rows
<1>6. CASE MarkBlocked
    BY <1>0, <1>6, BlockedRows DEF RowsInv
<1> QED BY <1>1, <1>2, <1>3, <1>4, <1>5, <1>6, Kinds

------------------------------------------------------------------------------
(* One outcome per node *)

\* What a task has to show.
Outcome(n) ==
    /\ task[n] = "done" => \E r \in RanRows(n) :
          /\ RanRows(n) = {r} /\ r.status = "COMPLETED"
          /\ r.retries = attempt[n] /\ r.retries <= MaxRetries[n]
    /\ task[n] = "failed" => \E r \in RanRows(n) : RanRows(n) = {r} /\ r.status = "FAILED"
    /\ task[n] \notin {"done", "failed"} => RanRows(n) = {}
    /\ n \in outputs <=> task[n] = "done"

LEMMA OutcomeIs == OneOutcomePerNode <=> (Safe => \A n \in Node : Outcome(n))
BY DEF OneOutcomePerNode, Outcome, RanRows, Safe

\* The node of a level that is launched has not started.
LEMMA LaunchFresh ==
    ASSUME TInv, ScheduleInv, LaunchStep, NEW n \in Node
    PROVE  \/ task'[n] = task[n]
           \/ /\ task[n] = "idle" /\ n \in LevelNodes \ skipped
              /\ task'[n] = "running" /\ n \in nodes
           \/ /\ task[n] = "idle" /\ n \in LevelNodes \ skipped
              /\ task'[n] = "raised" /\ n \notin nodes
<1>1. CASE n \in ToExecute
    <2>1. n \in LevelNodes \ skipped /\ topo[n] = level
        BY <1>1 DEF ToExecute, LevelNodes
    <2>2. ~Started(n)
        BY <2>1 DEF ScheduleInv, LevelInv, LaunchStep, TInv, TypeOK
    <2>3. task'[n] = IF n \in nodes THEN "running" ELSE "raised"
        BY <1>1 DEF LaunchStep, Launch
    <2> QED BY <2>1, <2>2, <2>3 DEF Started
<1>2. CASE n \notin ToExecute
    BY <1>2 DEF LaunchStep, Launch
<1> QED BY <1>1, <1>2

\* Where neither the task nor its rows change, its outcome stays.
LEMMA OutcomeStays ==
    ASSUME NEW n \in Node, Outcome(n), task'[n] = task[n], attempt'[n] = attempt[n],
           n \in outputs' <=> n \in outputs, RanRows(n)' = RanRows(n)
    PROVE  Outcome(n)'
BY DEF Outcome

LEMMA StepOutcome ==
    ASSUME TInv, ScheduleInv, DurableInv, OneOutcomePerNode, [Next]_vars
    PROVE  OneOutcomePerNode'
<1> SUFFICES ASSUME Safe', NEW n \in Node PROVE Outcome(n)'
    BY DEF OneOutcomePerNode, Outcome, RanRows, Safe
<1>0. Outcome(n)
    BY SafeBefore, OutcomeIs
<1>1. CASE Quiet
    BY <1>0, <1>1, OutcomeStays DEF Quiet, RanRows
<1>2. ASSUME NEW c \in Node, RouteCondition(c) PROVE Outcome(n)'
    <2>1. RanRows(n)' = RanRows(n)
        BY <1>2, RouteRows DEF RanRows, SkippedRecord
    <2>2. UNCHANGED tasks
        BY <1>2 DEF RouteCondition
    <2> QED BY <1>0, <2>1, <2>2, OutcomeStays
<1>3. CASE LaunchStep
    <2>1. RanRows(n)' = RanRows(n) /\ UNCHANGED <<outputs, attempt>>
        BY <1>3 DEF LaunchStep, Launch, RanRows, Rows
    <2> QED BY <1>0, <1>3, <2>1, LaunchFresh DEF Outcome
<1>4. ASSUME NEW m \in Node, TaskStep(m) PROVE Outcome(n)'
    <2>0. task \in [Node -> {"idle"} \cup Active \cup Ended] /\ attempt \in [Node -> Nat]
          /\ attempt[n] <= MaxRetries[n]
        BY DEF TInv, TypeOK
    <2>1. CASE AttemptSucceeds(m)
        <3>1. /\ task' = [task EXCEPT ![m] = "done"] /\ outputs' = outputs \cup {m}
              /\ attempt' = attempt /\ task[m] = "running"
              /\ Rows' = Rows \cup {RunRecord(m, "COMPLETED", attempt[m])}
            BY <2>1 DEF AttemptSucceeds, Rows
        <3>2. CASE n = m
            <4>1. RanRows(n) = {}
                BY <1>0, <3>1, <3>2 DEF Outcome
            <4>2. RanRows(n)' = {RunRecord(m, "COMPLETED", attempt[m])}
                BY <3>1, <3>2, <4>1 DEF RanRows, RunRecord
            <4>3. task'[n] = "done" /\ n \in outputs'
                BY <2>0, <3>1, <3>2
            <4> QED BY <2>0, <3>1, <3>2, <4>2, <4>3 DEF Outcome, RunRecord
        <3>3. CASE n # m
            <4>1. RanRows(n)' = RanRows(n)
                BY <3>1, <3>3 DEF RanRows, RunRecord
            <4> QED BY <1>0, <2>0, <3>1, <3>3, <4>1, OutcomeStays
        <3> QED BY <3>2, <3>3
    <2>2. CASE RetriesExhausted(m)
        <3>1. /\ task' = [task EXCEPT ![m] = "failed"] /\ outputs' = outputs
              /\ attempt' = attempt /\ task[m] = "running"
              /\ Rows' = Rows \cup {RunRecord(m, "FAILED", 0)}
            BY <2>2 DEF RetriesExhausted, Rows
        <3>2. CASE n = m
            <4>1. RanRows(n) = {} /\ n \notin outputs
                BY <1>0, <3>1, <3>2 DEF Outcome
            <4>2. RanRows(n)' = {RunRecord(m, "FAILED", 0)}
                BY <3>1, <3>2, <4>1 DEF RanRows, RunRecord
            <4>3. task'[n] = "failed"
                BY <2>0, <3>1, <3>2
            <4> QED BY <3>1, <4>1, <4>2, <4>3 DEF Outcome, RunRecord
        <3>3. CASE n # m
            <4>1. RanRows(n)' = RanRows(n)
                BY <3>1, <3>3 DEF RanRows, RunRecord
            <4> QED BY <1>0, <2>0, <3>1, <3>3, <4>1, OutcomeStays
        <3> QED BY <3>2, <3>3
    <2>3. CASE AttemptTimesOut(m) \/ BackoffElapses(m)
        <3>1. RanRows(n)' = RanRows(n) /\ outputs' = outputs
            BY <2>3 DEF AttemptTimesOut, BackoffElapses, RanRows, Rows
        <3>2. CASE n # m
            <4>1. task'[n] = task[n] /\ attempt'[n] = attempt[n]
                BY <2>0, <2>3, <3>2 DEF AttemptTimesOut, BackoffElapses
            <4> QED BY <1>0, <3>1, <4>1, OutcomeStays
        <3>3. CASE n = m
            <4>1. task[n] \in Active /\ task'[n] \in Active
                BY <2>0, <2>3, <3>3 DEF AttemptTimesOut, BackoffElapses, Active
            <4> QED BY <1>0, <3>1, <4>1 DEF Outcome, Active
        <3> QED BY <3>2, <3>3
    <2> QED BY <1>4, <2>1, <2>2, <2>3 DEF TaskStep
<1>5. CASE AbortSiblings \/ TouchExpired
    <2>1. AbortSiblings
        BY <1>5 DEF TouchExpired, Safe
    <2>2. /\ task' = [k \in Node |-> IF task[k] \in Active THEN "aborted" ELSE task[k]]
          /\ RanRows(n)' = RanRows(n) /\ UNCHANGED <<outputs, attempt>>
        BY <2>1 DEF AbortSiblings, RanRows, Rows
    <2>3. \/ task'[n] = task[n]
          \/ task[n] \in Active /\ task'[n] = "aborted"
        BY <2>2
    <2> QED BY <1>0, <2>2, <2>3 DEF Outcome, Active
<1>6. CASE MarkBlocked
    <2>1. RanRows(n)' = RanRows(n)
        BY <1>6, BlockedRows DEF RanRows
    <2>2. UNCHANGED tasks
        BY <1>6 DEF MarkBlocked
    <2> QED BY <1>0, <2>1, <2>2, OutcomeStays
<1> QED BY <1>1, <1>2, <1>3, <1>4, <1>5, <1>6, Kinds

LEMMA StepOutputsInv ==
    ASSUME TInv, ScheduleInv, DurableInv, OutputsInv, [Next]_vars
    PROVE  OutputsInv'
<1>0. task \in [Node -> {"idle"} \cup Active \cup Ended]
    BY DEF TInv, TypeOK
<1>1. CASE Quiet
    BY <1>1 DEF Quiet, OutputsInv
<1>2. ASSUME NEW c \in Node, RouteCondition(c) PROVE OutputsInv'
    BY <1>2 DEF RouteCondition, OutputsInv
<1>3. CASE LaunchStep
    BY <1>3, LaunchFresh DEF LaunchStep, Launch, OutputsInv
<1>4. ASSUME NEW n \in Node, TaskStep(n) PROVE OutputsInv'
    BY <1>0, <1>4 DEF TaskStep, AttemptSucceeds, AttemptTimesOut, BackoffElapses,
                      RetriesExhausted, OutputsInv
<1>5. CASE AbortSiblings \/ TouchExpired
    BY <1>0, <1>5 DEF AbortSiblings, TouchExpired, OutputsInv, Active
<1>6. CASE MarkBlocked
    BY <1>6 DEF MarkBlocked, OutputsInv
<1> QED BY <1>1, <1>2, <1>3, <1>4, <1>5, <1>6, Kinds

------------------------------------------------------------------------------
(* Inputs and routing: the graph that was read is part of the one that was sorted *)

\* The plan and the graph that was read change only before anything starts.
LEMMA GraphsChangeEarly ==
    ASSUME [Next]_vars
    PROVE  \/ UNCHANGED <<topoEdges, edges>>
           \/ pc \in {"sort", "fetchEdges"} /\ UNCHANGED <<tasks, skipped>>
<1>1. CASE SortLevels \/ FetchEdges
    BY <1>1 DEF SortLevels, FetchEdges
<1>2. CASE \/ Execute \/ QueryTopologyNodes \/ CommitRunning \/ FetchNodes
           \/ StopOnCancel \/ BeginLevel \/ StartTasks \/ JoinTasks
           \/ MarkBlocked \/ Complete \/ CommitCompleted
    BY <1>2 DEF Execute, QueryTopologyNodes, CommitRunning, FetchNodes,
                StopOnCancel, BeginLevel, StartTasks, JoinTasks, MarkBlocked, Complete,
                CommitCompleted
<1>3. CASE \/ \E n \in Node : RouteCondition(n) \/ TaskStep(n)
           \/ AbortSiblings \/ TouchExpired
    BY <1>3 DEF RouteCondition, TaskStep, AttemptSucceeds, AttemptTimesOut, BackoffElapses,
                RetriesExhausted, AbortSiblings, TouchExpired
<1>4. CASE Cancel \/ CloseSession \/ DeleteEdge \/ CreateEdge \/ DeleteNode \/ CreateNode
    BY <1>4 DEF Cancel, CloseSession, DeleteEdge, CreateEdge, DeleteNode, CreateNode, Edit
<1>5. CASE UNCHANGED vars
    BY <1>5 DEF vars
<1> QED BY <1>1, <1>2, <1>3, <1>4, <1>5 DEF Next, Step, Environment, TaskStep

LEMMA StepInputs ==
    ASSUME IInv, EarlyInv, InputsComplete, [Next]_vars
    PROVE  InputsComplete'
<1>0. /\ task \in [Node -> {"idle"} \cup Active \cup Ended] /\ TInv /\ ScheduleInv
      /\ DurableInv /\ input \in [Node -> SUBSET Node]
    BY DEF IInv, TInv, TypeOK
<1>1. CASE ~UNCHANGED <<topoEdges, edges>>
    <2>1. \A n \in Node : task'[n] = "idle"
        BY <1>1, GraphsChangeEarly DEF EarlyInv, Started
    <2> QED BY <2>1 DEF InputsComplete, Active
<1>2. CASE UNCHANGED <<topoEdges, edges>>
    <2>1. SUFFICES ASSUME edges \subseteq topoEdges, NEW n \in Node,
                          task'[n] \in Active \cup {"done", "failed"}
                   PROVE  input'[n] = Predecessors(edges, n) \cap outputs'
        BY <1>2 DEF InputsComplete
    <2>2. task[n] \in Active \cup {"done", "failed"} =>
              input[n] = Predecessors(edges, n) \cap outputs
        BY <2>1 DEF InputsComplete
    <2>3. CASE LaunchStep
        BY <1>0, <2>1, <2>2, <2>3, LaunchFresh DEF LaunchStep, Launch, ToExecute, Active
    <2>4. ASSUME NEW m \in Node, TaskStep(m)
          PROVE  input'[n] = Predecessors(edges, n) \cap outputs'
        <3>1. task[n] \in Active \cup {"done", "failed"} /\ input' = input
            BY <1>0, <2>1, <2>4 DEF TaskStep, AttemptSucceeds, AttemptTimesOut, BackoffElapses,
                                    RetriesExhausted, Active
        <3>2. CASE outputs' = outputs
            BY <2>2, <3>1, <3>2
        <3>3. CASE outputs' = outputs \cup {m} /\ task[m] = "running"
            <4>1. m \notin Predecessors(edges, n)
                <5>1. SUFFICES ASSUME NEW e \in edges, e.source = m, e.target = n
                               PROVE  FALSE
                    BY DEF Predecessors
                <5>2. Started(n)
                    BY <3>1 DEF Started, Active
                <5>3. Settled(m)
                    BY <2>1, <5>1, <5>2, PredecessorsSettled DEF PredecessorsFirst
                <5> QED BY <3>3, <5>3 DEF Settled, Ended
            <4> QED BY <2>2, <3>1, <3>3, <4>1
        <3> QED BY <2>4, <3>2, <3>3
                DEF TaskStep, AttemptSucceeds, AttemptTimesOut, BackoffElapses, RetriesExhausted
    <2>5. CASE \/ Quiet \/ \E c \in Node : RouteCondition(c)
               \/ AbortSiblings \/ TouchExpired \/ MarkBlocked
        <3>1. input' = input /\ outputs' = outputs
            BY <2>5 DEF Quiet, RouteCondition, AbortSiblings, TouchExpired, MarkBlocked
        <3>2. task[n] \in Active \cup {"done", "failed"}
            BY <2>1, <2>5 DEF Quiet, RouteCondition, AbortSiblings, TouchExpired, MarkBlocked,
                              Active
        <3> QED BY <2>2, <3>1, <3>2
    <2> QED BY <1>0, <2>3, <2>4, <2>5, Kinds
<1> QED BY <1>1, <1>2

\* What lies behind the nodes that the routing excludes lies behind the current level.
LEMMA RoutedAroundAhead ==
    ASSUME IInv, EarlyInv, edges \subseteq topoEdges, NEW c \in Node, RouteCondition(c)
    PROVE  \A n \in RoutedAround(c) : n \in Node /\ ~Started(n)
<1>0. /\ pc = "route" /\ c \in LevelNodes
      /\ DOMAIN topo \subseteq Node /\ level \in Nat
      /\ \A n \in DOMAIN topo : topo[n] \in Nat
      /\ edges \subseteq EdgesOver(Node)
    BY DEF RouteCondition, EarlyInv, IInv, TInv, TypeOK
<1>1. \A e \in edges : /\ e.source \in DOMAIN topo /\ e.target \in DOMAIN topo
                       /\ topo[e.source] < topo[e.target]
    BY DEF IInv, ScheduleInv, PlanInv
<1> DEFINE ahead == {n \in Node : n \in DOMAIN topo => topo[n] > level}
<1>2. Closed(edges, ahead)
    <2>1. SUFFICES ASSUME NEW e \in edges, e.source \in ahead PROVE e.target \in ahead
        BY DEF Closed
    <2>2. topo[e.source] > level /\ topo[e.source] < topo[e.target] /\ e.target \in Node
        BY <1>0, <1>1, <2>1
    <2>3. topo[e.source] \in Nat /\ topo[e.target] \in Nat
        BY <1>0, <1>1
    <2> QED BY <1>0, <2>2, <2>3
<1>3. Successors(edges, c) \subseteq ahead
    <2>1. SUFFICES ASSUME NEW e \in edges, e.source = c PROVE e.target \in ahead
        BY DEF Successors
    <2>2. topo[c] = level /\ topo[c] < topo[e.target] /\ e.target \in Node
        BY <1>0, <1>1, <2>1 DEF LevelNodes
    <2> QED BY <2>2, <1>0
<1>4. RoutedAround(c) \subseteq ahead
    <2>1. ahead \in SUBSET Node
        OBVIOUS
    <2> HIDE DEF ahead
    <2>2. Successors(edges, c) \ Successors(liveEdges \cap edges, c) \subseteq ahead
        BY <1>3
    <2> QED BY <1>2, <2>1, <2>2 DEF RoutedAround, ReachableFrom
<1>5. \A n \in ahead : ~Started(n)
    BY <1>0 DEF IInv, ScheduleInv, LevelInv
<1> QED BY <1>4, <1>5

LEMMA StepSkippedInv ==
    ASSUME IInv, EarlyInv, SkippedInv, [Next]_vars
    PROVE  SkippedInv'
<1>0. /\ task \in [Node -> {"idle"} \cup Active \cup Ended] /\ TInv /\ ScheduleInv
      /\ DurableInv /\ skipped \subseteq Node
    BY DEF IInv, TInv, TypeOK
<1>1. CASE ~UNCHANGED <<topoEdges, edges>>
    <2>1. skipped' = {}
        BY <1>1, GraphsChangeEarly DEF EarlyInv
    <2> QED BY <2>1 DEF SkippedInv
<1>2. CASE UNCHANGED <<topoEdges, edges>>
    <2>1. SUFFICES ASSUME edges \subseteq topoEdges, NEW n \in skipped'
                   PROVE  ~Started(n)'
        BY <1>2 DEF SkippedInv
    <2>2. n \in skipped => n \in Node /\ task[n] = "idle"
        BY <1>0, <2>1 DEF SkippedInv, Started
    <2>3. ASSUME NEW c \in Node, RouteCondition(c) PROVE ~Started(n)'
        BY <2>1, <2>2, <2>3, RoutedAroundAhead DEF RouteCondition, Started
    <2>4. CASE LaunchStep
        BY <1>0, <2>1, <2>2, <2>4, LaunchFresh DEF LaunchStep, Started
    <2>5. ASSUME NEW m \in Node, TaskStep(m) PROVE ~Started(n)'
        <3>1. n \in skipped /\ n # m
            BY <2>1, <2>2, <2>5 DEF TaskStep, AttemptSucceeds, AttemptTimesOut, BackoffElapses,
                                    RetriesExhausted
        <3> QED BY <1>0, <2>2, <2>5, <3>1 DEF TaskStep, AttemptSucceeds, AttemptTimesOut,
                                    BackoffElapses, RetriesExhausted, Started
    <2>6. CASE AbortSiblings \/ TouchExpired \/ MarkBlocked
        BY <2>1, <2>2, <2>6 DEF AbortSiblings, TouchExpired, MarkBlocked, Started, Active
    <2>7. CASE Quiet /\ skipped' = skipped
        BY <2>1, <2>2, <2>7 DEF Quiet, Started
    <2> QED BY <1>0, <2>3, <2>4, <2>5, <2>6, <2>7, Kinds, SkippedChanges
<1> QED BY <1>1, <1>2

------------------------------------------------------------------------------
(* Runs during which no node is deleted *)

\* A deleted node does not come back.
LEMMA DeletedForGood ==
    ASSUME TInv, [Next]_vars, NoneDeleted'
    PROVE  NoneDeleted
<1> USE DEF NoneDeleted
<1>0. liveNodes \subseteq born
    BY DEF TInv, TypeOK
<1>1. CASE DeleteNode
    BY <1>0, <1>1 DEF DeleteNode
<1>2. CASE CreateNode
    BY <1>0, <1>2 DEF CreateNode
<1>3. CASE UNCHANGED <<liveNodes, born>>
    BY <1>3
<1>4. CASE \/ Execute \/ QueryTopologyNodes \/ SortLevels \/ CommitRunning \/ FetchNodes
           \/ FetchEdges \/ StopOnCancel \/ BeginLevel \/ StartTasks \/ JoinTasks
           \/ MarkBlocked \/ Complete \/ CommitCompleted
    BY <1>3, <1>4 DEF Execute, QueryTopologyNodes, SortLevels, CommitRunning, FetchNodes,
                FetchEdges, StopOnCancel, BeginLevel, StartTasks, JoinTasks, MarkBlocked,
                Complete, CommitCompleted, workflow
<1>5. CASE \/ \E n \in Node : RouteCondition(n) \/ TaskStep(n)
           \/ AbortSiblings \/ TouchExpired
    BY <1>3, <1>5 DEF RouteCondition, TaskStep, AttemptSucceeds, AttemptTimesOut,
                BackoffElapses, RetriesExhausted, AbortSiblings, TouchExpired, workflow
<1>6. CASE Cancel \/ CloseSession \/ DeleteEdge \/ CreateEdge
    BY <1>3, <1>6 DEF Cancel, CloseSession, DeleteEdge, CreateEdge, workflow
<1>7. CASE UNCHANGED vars
    BY <1>3, <1>7 DEF vars, workflow
<1> QED BY <1>1, <1>2, <1>4, <1>5, <1>6, <1>7 DEF Next, Step, Environment, TaskStep

\* What the run knows of is what its reads have shown it, and ids are for good.
LEMMA StepBorn ==
    ASSUME IInv, BornInv, [Next]_vars
    PROVE  BornInv'
<1> USE DEF BornInv
<1>0. /\ TInv /\ ScheduleInv /\ DurableInv /\ liveNodes \subseteq born
      /\ liveEdges \subseteq EdgesOver(liveNodes)
      /\ task \in [Node -> {"idle"} \cup Active \cup Ended]
    BY DEF IInv, ScheduleInv, GraphInv, TInv, TypeOK
<1>1. CASE QueryTopologyNodes
    BY <1>0, <1>1 DEF QueryTopologyNodes, workflow
<1>2. CASE SortLevels
    <2> DEFINE N == GraphNodes(DOMAIN topo, liveEdges)
    <2>1. N \subseteq born
        BY <1>0 DEF GraphNodes, EdgesOver
    <2>2. DOMAIN topo' \subseteq N
        BY <1>2 DEF SortLevels, plan, GraphNodes
    <2>3. UNCHANGED <<nodes, pending, born>>
        BY <1>2 DEF SortLevels, workflow, snapshot
    <2> QED BY <2>1, <2>2, <2>3
<1>3. CASE FetchNodes
    BY <1>0, <1>3 DEF FetchNodes, workflow, plan, session
<1>4. CASE CreateNode
    BY <1>4 DEF CreateNode, Edit, plan, snapshot, session
<1>5. CASE UNCHANGED <<topo, nodes, born>> /\ pending' \subseteq pending
    BY <1>5
<1>6. ASSUME NEW n \in Node, TaskStep(n) PROVE BornInv'
    <2>1. n \in DOMAIN topo
        <3>1. task[n] \in Active
            BY <1>6 DEF TaskStep, AttemptSucceeds, AttemptTimesOut, BackoffElapses,
                        RetriesExhausted, Active
        <3> QED BY <1>0, <3>1 DEF ScheduleInv, LevelInv, Started, Active
    <2>2. UNCHANGED <<topo, nodes, born>>
        BY <1>6 DEF TaskStep, AttemptSucceeds, AttemptTimesOut, BackoffElapses,
                    RetriesExhausted, plan, snapshot, workflow
    <2>3. \A r \in pending' : r \in pending \/ r.node = n
        BY <1>6 DEF TaskStep, AttemptSucceeds, AttemptTimesOut, BackoffElapses,
                    RetriesExhausted, RunRecord, session
    <2> QED BY <2>1, <2>2, <2>3
<1>7. CASE \/ Execute \/ CommitRunning \/ FetchEdges \/ StopOnCancel \/ BeginLevel
           \/ StartTasks \/ JoinTasks \/ MarkBlocked \/ Complete \/ CommitCompleted
    BY <1>5, <1>7 DEF Execute, CommitRunning, FetchEdges, StopOnCancel, BeginLevel, StartTasks,
                JoinTasks, MarkBlocked, Complete, CommitCompleted, CommitSession, Flush,
                LoseSession, workflow, plan, snapshot, session
<1>8. CASE (\E n \in Node : RouteCondition(n)) \/ AbortSiblings \/ TouchExpired
    BY <1>5, <1>8 DEF RouteCondition, AbortSiblings, TouchExpired, Flush, LoseSession,
                workflow, plan, snapshot, session
<1>9. CASE Cancel \/ CloseSession
    BY <1>5, <1>9 DEF Cancel, CloseSession, CommitSession, Flush, LoseSession,
                workflow, plan, snapshot, session
<1>10. CASE DeleteEdge \/ CreateEdge \/ DeleteNode \/ UNCHANGED vars
    BY <1>5, <1>10 DEF DeleteEdge, CreateEdge, DeleteNode, Edit, vars, workflow, plan,
                snapshot, session
<1> QED BY <1>1, <1>2, <1>3, <1>4, <1>6, <1>7, <1>8, <1>9, <1>10
        DEF Next, Step, Environment, TaskStep

LEMMA RowsGrow ==
    ASSUME TInv, DurableInv, [Next]_vars, Safe'
    PROVE  Rows \subseteq Rows'
<1>1. CASE Quiet
    BY <1>1 DEF Quiet
<1>2. ASSUME NEW c \in Node, RouteCondition(c) PROVE Rows \subseteq Rows'
    BY <1>2, RouteRows
<1>3. CASE LaunchStep \/ AbortSiblings \/ TouchExpired
    BY <1>3 DEF LaunchStep, AbortSiblings, TouchExpired, Rows
<1>4. ASSUME NEW n \in Node, TaskStep(n) PROVE Rows \subseteq Rows'
    BY <1>4 DEF TaskStep, AttemptSucceeds, AttemptTimesOut, BackoffElapses,
                RetriesExhausted, Rows
<1>5. CASE MarkBlocked
    BY <1>5, BlockedRows
<1> QED BY <1>1, <1>2, <1>3, <1>4, <1>5, Kinds

\* Every row that is sent refers to a node that is there.
LEMMA ForeignKeysFine ==
    ASSUME NoneDeleted, NEW rows, \A r \in rows : r.node \in born
    PROVE  ForeignKeysHold(rows)
BY DEF ForeignKeysHold, NoneDeleted

LEMMA StepWhole ==
    ASSUME IInv, EarlyInv, BornInv, WholeInv, [Next]_vars
    PROVE  WholeInv'
<1> SUFFICES ASSUME NoneDeleted'
             PROVE  /\ pc' \in {"fetchEdges", "level", "route", "tasks", "completed"} =>
                          DOMAIN topo' \subseteq nodes'
                    /\ status' # "expired"
                    /\ \A n \in Node : task'[n] \notin {"raised", "aborted"}
                    /\ pc' \in {"level", "route", "tasks", "completed"} =>
                          /\ \A n \in Node :
                                task'[n] = "failed" /\ topo'[n] < level' => n \in failed'
                          /\ \A n \in skipped' \cap DOMAIN topo' :
                                \E r \in Rows' : r.node = n /\ r.why = "condition"
    BY DEF WholeInv
<1> DEFINE Goal ==
                    /\ pc' \in {"fetchEdges", "level", "route", "tasks", "completed"} =>
                          DOMAIN topo' \subseteq nodes'
                    /\ status' # "expired"
                    /\ \A n \in Node : task'[n] \notin {"raised", "aborted"}
                    /\ pc' \in {"level", "route", "tasks", "completed"} =>
                          /\ \A n \in Node :
                                task'[n] = "failed" /\ topo'[n] < level' => n \in failed'
                          /\ \A n \in skipped' \cap DOMAIN topo' :
                                \E r \in Rows' : r.node = n /\ r.why = "condition"
<1>0. /\ TInv /\ ScheduleInv /\ DurableInv
      /\ task \in [Node -> {"idle"} \cup Active \cup Ended] /\ level \in Nat
      /\ \A n \in DOMAIN topo : topo[n] \in Nat
      /\ dbStatus \in Statuses /\ skipped \subseteq Node
      /\ DOMAIN topo \subseteq born /\ nodes \subseteq born
      /\ \A r \in pending : r.node \in born
    BY DEF IInv, TInv, TypeOK, BornInv
<1>1. /\ NoneDeleted
      /\ pc \in {"fetchEdges", "level", "route", "tasks", "completed"} =>
            DOMAIN topo \subseteq nodes
      /\ status # "expired"
      /\ \A n \in Node : task[n] \notin {"raised", "aborted"}
      /\ pc \in {"level", "route", "tasks", "completed"} =>
            /\ \A n \in Node : task[n] = "failed" /\ topo[n] < level => n \in failed
            /\ \A n \in skipped \cap DOMAIN topo :
                  \E r \in Rows : r.node = n /\ r.why = "condition"
    BY <1>0, DeletedForGood DEF WholeInv
<1>2. ForeignKeysHold(pending)
    BY <1>0, <1>1, ForeignKeysFine
<1>3. CASE Execute \/ QueryTopologyNodes \/ CommitRunning \/ FetchNodes
    BY <1>0, <1>1, <1>3 DEF Execute, QueryTopologyNodes, CommitRunning, CommitSession,
                            FetchNodes, NoneDeleted
<1>4. CASE SortLevels
    BY <1>1, <1>4 DEF SortLevels
<1>5. CASE FetchEdges
    <2>1. skipped' = {} /\ \A n \in Node : task'[n] = "idle"
        BY <1>5 DEF FetchEdges, EarlyInv, Started
    <2> QED BY <1>1, <1>5, <2>1 DEF FetchEdges
<1>6. CASE StopOnCancel \/ CommitCompleted \/ CloseSession
    BY <1>0, <1>1, <1>6 DEF StopOnCancel, CommitCompleted, CommitSession, CloseSession, Statuses
<1>7. CASE MarkBlocked
    <2>1. \A n \in nodes : SkippedRecord(n, "upstream", n).node \in born
        BY <1>0 DEF SkippedRecord
    <2>2. ForeignKeysHold(pending \cup
              {SkippedRecord(n, "upstream", n) :
                  n \in (ReachableFrom(Node, edges, failed) \ failed) \cap nodes})
        BY <1>0, <1>1, <2>1, ForeignKeysFine
    <2> QED BY <1>1, <1>7, <2>2 DEF MarkBlocked
<1>8. CASE BeginLevel /\ toRoute' # {}
    BY <1>1, <1>8 DEF BeginLevel, Rows
<1>9. CASE LaunchStep
    <2>1. Rows' = Rows /\ pc \in {"level", "route"} /\ pc' = "tasks"
          /\ UNCHANGED <<topo, nodes, status, level, failed, skipped>>
        BY <1>9 DEF LaunchStep, Launch, Rows
    <2>2. \A n \in Node : task'[n] \in {task[n], "running"}
        <3>1. LevelNodes \subseteq nodes
            BY <1>1, <2>1 DEF LevelNodes
        <3> QED BY <1>0, <1>9, <3>1, LaunchFresh
    <2> QED BY <1>1, <2>1, <2>2
<1>10. ASSUME NEW c \in Node, RouteCondition(c) PROVE Goal
    <2> DEFINE rows == {SkippedRecord(n, "condition", c) : n \in RoutedAround(c) \cap nodes}
    <2>1. pc = "route" /\ DOMAIN topo \subseteq nodes
        BY <1>1, <1>10 DEF RouteCondition
    <2>2. \A n \in nodes : SkippedRecord(n, "condition", c).node = n
                          /\ SkippedRecord(n, "condition", c).why = "condition"
        BY DEF SkippedRecord
    <2>3. ForeignKeysHold(pending \cup rows)
        BY <1>0, <1>1, <2>1, <2>2, ForeignKeysFine
    <2>4. /\ Flush(pending \cup rows) /\ UNCHANGED <<status, pc>>
          /\ skipped' = skipped \cup RoutedAround(c)
          /\ UNCHANGED <<topo, nodes, level, failed, tasks>>
        BY <1>10, <2>3 DEF RouteCondition
    <2> HIDE DEF rows
    <2>5. Rows' = Rows \cup rows
        BY <2>4 DEF Flush, Rows
    <2>6. \A n \in RoutedAround(c) \cap DOMAIN topo :
              \E r \in rows : r.node = n /\ r.why = "condition"
        BY <2>1, <2>2 DEF rows
    <2>7. \A n \in skipped' \cap DOMAIN topo' :
              \E r \in Rows' : r.node = n /\ r.why = "condition"
        BY <1>1, <2>1, <2>4, <2>5, <2>6
    <2> QED BY <1>1, <2>4, <2>7
<1>11. ASSUME NEW m \in Node, TaskStep(m) PROVE Goal
    <2>1. /\ pc = "tasks" /\ pc' = "tasks" /\ task[m] \in Active
          /\ UNCHANGED <<topo, nodes, status, level, failed, skipped>>
          /\ Rows \subseteq Rows'
          /\ \E to \in Active \cup {"done", "failed"} : task' = [task EXCEPT ![m] = to]
        BY <1>11 DEF TaskStep, AttemptSucceeds, AttemptTimesOut, BackoffElapses,
                     RetriesExhausted, Active, Rows
    <2>2. \A n \in Node : n # m => task'[n] = task[n]
        BY <1>0, <2>1
    <2>3. task'[m] \in Active \cup {"done", "failed"}
        BY <1>0, <2>1
    <2>4. ~(topo[m] < level)
        <3>1. m \in DOMAIN topo
            BY <1>0, <2>1 DEF ScheduleInv, LevelInv, Started, Active
        <3> QED BY <2>1, <3>1 DEF IInv, ScheduleInv, LevelInv, Settled, Active, Ended
    <2> QED BY <1>1, <2>1, <2>2, <2>3, <2>4 DEF Active
<1>12. CASE AbortSiblings \/ TouchExpired
    BY <1>1, <1>12 DEF AbortSiblings, TouchExpired
<1>13. CASE JoinTasks
    <2>1. /\ Rows' = Rows /\ pc = "tasks" /\ pc' = "level" /\ level' = level + 1
          /\ failed' = failed \cup {n \in LevelNodes : task[n] = "failed"}
          /\ UNCHANGED <<topo, nodes, status, skipped, task>>
        BY <1>2, <1>13 DEF JoinTasks, Flush, Rows
    <2>2. \A n \in Node : task[n] = "failed" /\ topo[n] < level + 1 => n \in failed'
        <3>1. SUFFICES ASSUME NEW n \in Node, task[n] = "failed", topo[n] < level + 1
                       PROVE  n \in failed'
            OBVIOUS
        <3>2. n \in DOMAIN topo /\ topo[n] \in Nat
            BY <1>0, <3>1 DEF ScheduleInv, LevelInv, Started
        <3>3. topo[n] < level \/ n \in LevelNodes
            BY <1>0, <3>1, <3>2 DEF LevelNodes
        <3> QED BY <1>1, <2>1, <3>1, <3>3
    <2> QED BY <1>1, <2>1, <2>2
<1>14. CASE Complete
    BY <1>1, <1>14 DEF Complete, Rows
<1>15. CASE Cancel
    <2>1. /\ UNCHANGED <<pc, topo, nodes, level, failed, skipped, task>>
          /\ status' # "expired" /\ Rows' = Rows
        <3>1. CASE UNCHANGED <<session, database>>
            BY <1>1, <1>15, <3>1 DEF Cancel, Rows
        <3>2. CASE CommitSession("CANCELLED")
            BY <1>15, <3>2, CommitKeepsRows DEF Cancel, CommitSession
        <3>3. CASE status' = "CANCELLED" /\ UNCHANGED <<pending, flushed, database>>
            BY <1>15, <3>3 DEF Cancel, Rows
        <3> QED BY <1>2, <1>15, <3>1, <3>2, <3>3 DEF Cancel
    <2> QED BY <1>1, <2>1
<1>16. CASE DeleteEdge \/ CreateEdge \/ DeleteNode \/ CreateNode
    BY <1>0, <1>1, <1>16 DEF DeleteEdge, CreateEdge, DeleteNode, CreateNode, Edit, Rows
<1>17. CASE UNCHANGED vars
    BY <1>1, <1>17 DEF vars, Rows
<1>18. BeginLevel \/ StartTasks => LaunchStep \/ (BeginLevel /\ toRoute' # {})
    BY DEF BeginLevel, StartTasks, LaunchStep
<1> QED BY <1>3, <1>4, <1>5, <1>6, <1>7, <1>8, <1>9, <1>10, <1>11, <1>12, <1>13, <1>14, <1>15,
           <1>16, <1>17, <1>18 DEF Next, Step, Environment, TaskStep

------------------------------------------------------------------------------
(* Reports *)

\* After the last level every node has a row that says how it ended.
LEMMA AfterLastLevel ==
    ASSUME IInv, WholeInv, RowsInv, OneOutcomePerNode, NoneDeleted,
           pc = "level", ~MoreLevels, NEW n \in DOMAIN topo
    PROVE  \E r \in Rows :
              /\ r.node = n
              /\ \/ r.status = "COMPLETED"
                 \/ r.status = "SKIPPED" /\ r.why = "condition"
                 \/ n \in failed
<1>0. /\ n \in Node /\ status # "expired" /\ Safe
      /\ task[n] \notin {"raised", "aborted"}
      /\ task \in [Node -> {"idle"} \cup Active \cup Ended] /\ level \in Nat
      /\ \A m \in DOMAIN topo : topo[m] \in Nat
    BY DEF WholeInv, IInv, TInv, TypeOK, Safe
<1>1. n \in DOMAIN topo /\ topo[n] < level
    BY <1>0 DEF MoreLevels
<1>2. Settled(n)
    BY <1>1 DEF IInv, ScheduleInv, LevelInv
<1>3. Outcome(n)
    BY <1>0, OutcomeIs
<1>4. CASE task[n] = "done"
    BY <1>3, <1>4 DEF Outcome, RanRows
<1>5. CASE task[n] = "failed"
    <2>1. n \in failed
        BY <1>0, <1>1, <1>5 DEF WholeInv
    <2> QED BY <1>3, <1>5, <2>1 DEF Outcome, RanRows
<1>6. CASE task[n] = "idle" /\ n \in skipped
    <2>1. \E r \in Rows : r.node = n /\ r.why = "condition"
        BY <1>6 DEF WholeInv
    <2> QED BY <2>1 DEF RowsInv
<1> QED BY <1>0, <1>2, <1>4, <1>5, <1>6 DEF Settled, Ended

LEMMA CompleteIsWell ==
    ASSUME IInv, WholeInv, RowsInv, OneOutcomePerNode, NoneDeleted, Complete
    PROVE  AllWell(Rows)
<1>0. pc = "level" /\ ~MoreLevels /\ failed = {} /\ Safe
    BY DEF Complete, WholeInv, Safe
<1>1. \A r \in Rows : r.status # "FAILED"
    <2>1. SUFFICES ASSUME NEW r \in Rows, r.status = "FAILED" PROVE FALSE
        OBVIOUS
    <2>2. r.why = "ran"
        BY <2>1 DEF RowsInv
    <2>3. r.node \in Node
        BY <2>1 DEF Rows, IInv, TInv, TypeOK, Record
    <2>4. Outcome(r.node) /\ r \in RanRows(r.node)
        BY <1>0, <2>1, <2>2, <2>3, OutcomeIs DEF RanRows
    <2>5. task[r.node] = "failed"
        BY <2>1, <2>4 DEF Outcome
    <2>6. r.node \in DOMAIN topo /\ topo[r.node] < level
        <3>1. r.node \in DOMAIN topo
            BY <2>3, <2>5 DEF IInv, ScheduleInv, LevelInv, Started
        <3> QED BY <1>0, <3>1 DEF MoreLevels, IInv, TInv, TypeOK
    <2> QED BY <1>0, <2>3, <2>5, <2>6 DEF WholeInv
<1>2. \A n \in DOMAIN topo : \E r \in Rows :
          /\ r.node = n
          /\ \/ r.status = "COMPLETED"
             \/ r.status = "SKIPPED" /\ r.why = "condition"
    BY <1>0, AfterLastLevel
<1> QED BY <1>1, <1>2 DEF AllWell

LEMMA StepEnd ==
    ASSUME IInv, WholeInv, RowsInv, OneOutcomePerNode, EndInv, [Next]_vars
    PROVE  EndInv'
<1> USE DEF EndInv, AllWell
<1>0. TInv /\ DurableInv /\ (NoneDeleted' => NoneDeleted)
    BY DeletedForGood DEF IInv
<1>1. CASE Complete
    <2>1. Rows' = Rows /\ topo' = topo /\ status' = "COMPLETED" /\ result' = result
          /\ pc = "level"
        BY <1>1 DEF Complete, Rows
    <2>2. NoneDeleted => AllWell(Rows)
        BY <1>1, CompleteIsWell
    <2> QED BY <1>0, <2>1, <2>2
<1>2. CASE CommitCompleted
    <2>1. /\ Rows' = Rows /\ dbRecords' = Rows' /\ topo' = topo /\ pc' = "returned"
          /\ status' = status /\ dbStatus' = status /\ pc = "completed"
        BY <1>2, CommitKeepsRows DEF CommitCompleted, CommitSession, Flush, Rows
    <2> QED BY <1>0, <2>1
<1>3. CASE CloseSession
    <2>1. topo' = topo /\ result' = result /\ pc' = "closed"
        BY <1>3 DEF CloseSession
    <2>2. CASE result = "COMPLETED"
        <3>1. pc = "returned"
            BY <1>3, <2>2 DEF CloseSession
        <3>2. /\ Rows' = Rows /\ dbRecords' = Rows' /\ status' = status /\ dbStatus' = status
            BY <1>3, <3>1, CommitKeepsRows DEF CloseSession, CommitSession, Flush, Rows
        <3> QED BY <1>0, <2>1, <2>2, <3>2
    <2> QED BY <2>1, <2>2
<1>4. CASE Cancel
    <2>1. UNCHANGED <<topo, result, pc>>
        BY <1>4 DEF Cancel
    <2>2. CASE status = "COMPLETED"
        <3>1. UNCHANGED <<session, database>>
            BY <1>4, <2>2 DEF Cancel
        <3> QED BY <1>0, <2>1, <3>1 DEF Rows
    <2> QED BY <2>1, <2>2
<1>5. CASE DeleteEdge \/ CreateEdge \/ DeleteNode \/ CreateNode
    BY <1>0, <1>5 DEF DeleteEdge, CreateEdge, DeleteNode, CreateNode, Edit, Rows
<1>6. CASE UNCHANGED vars
    BY <1>0, <1>6 DEF vars, Rows
<1>7. CASE \/ Execute \/ QueryTopologyNodes \/ SortLevels \/ CommitRunning \/ FetchNodes
           \/ FetchEdges \/ StopOnCancel \/ BeginLevel \/ StartTasks \/ JoinTasks \/ MarkBlocked
    BY <1>7 DEF Execute, QueryTopologyNodes, SortLevels, CommitRunning, FetchNodes, FetchEdges,
                StopOnCancel, BeginLevel, StartTasks, Launch, JoinTasks, MarkBlocked
<1>8. CASE \/ \E n \in Node : RouteCondition(n) \/ TaskStep(n)
           \/ AbortSiblings \/ TouchExpired
    BY <1>8 DEF RouteCondition, TaskStep, AttemptSucceeds, AttemptTimesOut, BackoffElapses,
                RetriesExhausted, AbortSiblings, TouchExpired
<1> QED BY <1>1, <1>2, <1>3, <1>4, <1>5, <1>6, <1>7, <1>8 DEF Next, Step, Environment, TaskStep

LEMMA StepReported ==
    ASSUME IInv, EarlyInv, WholeInv, RowsInv, OneOutcomePerNode, EveryNodeReported,
           WholeInv', [Next]_vars
    PROVE  EveryNodeReported'
<1> SUFFICES ASSUME pc' = "returned", result' = "FAILED", ~cancelled', nodes' # {},
                    NoneDeleted'
             PROVE  \A n \in DOMAIN topo' : \E r \in Rows' : r.node = n
    BY DEF EveryNodeReported
<1>0. TInv /\ DurableInv /\ NoneDeleted /\ Safe'
    BY DeletedForGood DEF IInv, WholeInv, Safe
<1>1. Rows \subseteq Rows'
    BY <1>0, RowsGrow
<1>2. CASE MarkBlocked
    <2>1. topo' = topo /\ pc = "level" /\ ~MoreLevels
        BY <1>2 DEF MarkBlocked
    <2>2. \A n \in DOMAIN topo : \E r \in Rows : r.node = n
        BY <1>0, <2>1, AfterLastLevel
    <2> QED BY <1>1, <2>1, <2>2
<1>3. CASE SortLevels
    BY <1>3 DEF SortLevels, EarlyInv
<1>4. CASE StopOnCancel \/ CommitCompleted
    BY <1>4 DEF StopOnCancel, CommitCompleted
<1>5. CASE pc = "returned" /\ UNCHANGED <<topo, nodes, result>> /\ (cancelled => cancelled')
    BY <1>0, <1>1, <1>5 DEF EveryNodeReported
<1>6. CASE Cancel \/ DeleteEdge \/ CreateEdge \/ DeleteNode \/ CreateNode \/ UNCHANGED vars
    BY <1>5, <1>6 DEF Cancel, DeleteEdge, CreateEdge, DeleteNode, CreateNode,
                     Edit, vars
<1>7. CASE \/ Execute \/ QueryTopologyNodes \/ CommitRunning \/ FetchNodes
           \/ FetchEdges \/ BeginLevel \/ StartTasks \/ JoinTasks \/ Complete \/ CloseSession
    BY <1>7 DEF Execute, QueryTopologyNodes, CommitRunning, FetchNodes, FetchEdges,
                BeginLevel, StartTasks, Launch, JoinTasks, Complete, CloseSession
<1>8. CASE \/ \E n \in Node : RouteCondition(n) \/ TaskStep(n)
           \/ AbortSiblings \/ TouchExpired
    BY <1>8 DEF RouteCondition, TaskStep, AttemptSucceeds, AttemptTimesOut, BackoffElapses,
                RetriesExhausted, AbortSiblings, TouchExpired
<1> QED BY <1>2, <1>3, <1>4, <1>6, <1>7, <1>8 DEF Next, Step, Environment, TaskStep

------------------------------------------------------------------------------
(* The theorems *)

LEMMA StepOInv == ASSUME IInv, OInv, [Next]_vars PROVE OInv'
<1>1. TInv /\ ScheduleInv /\ DurableInv
    BY DEF IInv
<1>2. EarlyInv' /\ RowsInv' /\ OutputsInv' /\ OneOutcomePerNode'
    BY <1>1, StepEarlyInv, StepRowsInv, StepOutputsInv, StepOutcome DEF OInv
<1>3. SkippedInv' /\ InputsComplete' /\ BornInv' /\ WholeInv' /\ EndInv'
    BY StepSkippedInv, StepInputs, StepBorn, StepWhole, StepEnd DEF OInv
<1>4. EveryNodeReported'
    BY <1>3, StepReported DEF OInv
<1> QED BY <1>2, <1>3, <1>4 DEF OInv

LEMMA AlwaysOInv == Spec => []OInv
<1>1. Spec => Init /\ [][Next]_vars
    BY DEF Spec
<1> QED BY <1>1, InitOInv, StepOInv, InductiveInvariant, PTL

\* What a node gets from get_input (context.py) is all that its predecessors have given,
\* unless an edge came in between the two readings of the graph.
THEOREM InputsAreComplete == Spec => []InputsComplete
<1>1. OInv => InputsComplete
    BY DEF OInv
<1> QED BY <1>1, AlwaysOInv, PTL

\* Through flushes, commits by cancel(), retries and lost sessions each node that ran has
\* one row saying how, and its output is in the context exactly when it completed.
THEOREM OutcomesAreUnique == Spec => []OneOutcomePerNode
<1>1. OInv => OneOutcomePerNode
    BY DEF OInv
<1> QED BY <1>1, AlwaysOInv, PTL

\* The routing of a condition (_apply_condition_routing) excludes nodes that have not run
\* and never will, unless an edge came in between the two readings of the graph.
THEOREM RoutingIsFinal == Spec => []RoutedAroundNeverRuns
<1>1. OInv => RoutedAroundNeverRuns
    BY DEF OInv, RowsInv, SkippedInv, RoutedAroundNeverRuns
<1> QED BY <1>1, AlwaysOInv, PTL

\* COMPLETED is true of every node of the levels, and durable, as long as no node is
\* deleted.
THEOREM CompletionIsTrue == Spec => []CompletedIsTrue
<1>1. OInv => CompletedIsTrue
    BY DEF OInv, EndInv, AllWell, CompletedIsTrue
<1> QED BY <1>1, AlwaysOInv, PTL

\* A run that fails reports on every node of the levels, as long as none is deleted.
THEOREM FailureIsReported == Spec => []EveryNodeReported
<1>1. OInv => EveryNodeReported
    BY DEF OInv
<1> QED BY <1>1, AlwaysOInv, PTL
==============================================================================
