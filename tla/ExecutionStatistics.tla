-------------------------- MODULE ExecutionStatistics --------------------------
(***************************************************************************)
(* WorkflowExecutionService.get_statistics: six COUNT queries, one for     *)
(* each member of ExecutionStatus in the order of the enumeration, then an *)
(* AVG query.  Each query sees what is committed when it runs, and the     *)
(* other sessions go on committing in between.  What they commit was       *)
(* checked, if at all, against objects loaded long before                  *)
(* (ExecutionService), so it need not be a step of ExecutionLifecycle from *)
(* the row that is there.                                                  *)
(***************************************************************************)
EXTENDS ExecutionLifecycle, Sequences

VARIABLES
    past,      \* past[e]: the statuses, final ones left out, that an object of e
               \* may still have, whatever has become of the row
    executing, \* the executions a WorkflowExecutor is working on
    next,      \* the query that comes next; 0 when nobody has asked
    counted,   \* <<e, s>>: the count of status s included execution e
    average,   \* what AVG returned: NULL, a value, or a negative one
    existed,   \* history: the executions there were when the counting began
    overtaken, \* history: those ever written over in a status that forbids it
    disturbed  \* history: those of them since the counting began

others  == <<row, past, executing, overtaken>>
queries == <<next, counted, average, existed>>
stvars  == <<others, queries, disturbed>>

\* (mutant: the final statuses are counted first)
StatusOrderFinalFirst ==
    <<"COMPLETED", "FAILED", "SKIPPED", "CANCELLED", "RUNNING", "PENDING">>

\* The members of ExecutionStatus, in the order in which they are counted.
StatusOrder ==
    <<"PENDING", "RUNNING", "COMPLETED", "FAILED", "SKIPPED", "CANCELLED">>

Workflows == Execution \ NodeRows

Existing == {e \in Workflows : row[e].status # "absent"}

Init ==
    /\ LInit
    /\ past = [e \in Workflows |-> {}]
    /\ next = 0 /\ counted = {} /\ average = "NULL"
    /\ executing = {} /\ existed = {} /\ overtaken = {} /\ disturbed = {}

\* get_statistics is called, for the first time or again.
Ask ==
    /\ next \in {0, 8}
    /\ next' = 1
    /\ counted' = {} /\ average' = "NULL"
    /\ existed' = Existing /\ disturbed' = {}
    /\ UNCHANGED others

CountStatus ==
    /\ next \in 1 .. 6
    /\ counted' = counted \cup
          {<<e, StatusOrder[next]>> : e \in {x \in Workflows :
                                             row[x].status = StatusOrder[next]}}
    /\ next' = next + 1
    /\ UNCHANGED <<others, average, existed, disturbed>>

\* The COMPLETED executions that have both timestamps.
Timed == {e \in Workflows : /\ row[e].status = "COMPLETED"
                            /\ row[e].started /\ row[e].ended}

\* The average of their durations.  Where a row was written over, its timestamps
\* may come from different attempts: then the average can be negative, and the
\* caller gets None for it.
QueryAverage ==
    /\ next = 7
    /\ average' \in IF Timed = {} THEN {"NULL"}
                    ELSE IF Timed \cap overtaken = {} THEN {"value"}
                    ELSE {"value", "negative"}
    /\ next' = 8
    /\ UNCHANGED <<others, counted, existed, disturbed>>

\* create() of another session.
Create(e) ==
    /\ LCreate(e)
    /\ past' = [past EXCEPT ![e] = {"PENDING"}]
    /\ UNCHANGED <<executing, overtaken, disturbed, queries>>

\* The row of an executor carries started_at from the beginning.  It is first
\* committed as RUNNING; where the graph has a cycle it stays PENDING.
Execute(e) ==
    /\ row[e] = Absent
    /\ \E status \in {"PENDING", "RUNNING"} :
          /\ row' = [row EXCEPT ![e] = [Fresh EXCEPT !.status = status,
                                                     !.started = TRUE]]
          /\ past' = [past EXCEPT ![e] = {status}]
          /\ executing' = executing \cup {x \in {e} : status = "RUNNING"}
    /\ UNCHANGED <<overtaken, disturbed, queries>>

\* A commit has taken e along; allowed holds the statuses its operation allows.
Note(e, allowed) ==
    LET stale == {x \in {e} : row[x].status \notin allowed}
    IN  /\ overtaken' = overtaken \cup stale
        /\ disturbed' = disturbed \cup stale

\* Another session commits an operation of the service.  Its status was checked
\* on an object, loaded whenever; the columns it assigns go over the row as it is
\* now.  (Several operations of one transaction are several of these steps.)
Write(e, op) ==
    /\ past[e] \cap From[op] # {}
    /\ row' = [row EXCEPT ![e] = After(op, @)]
    /\ past' = [past EXCEPT ![e] = @ \cup ({To[op]} \ Terminal)]
    /\ Note(e, From[op])
    /\ UNCHANGED <<executing, queries>>

\* The executor is done: it writes COMPLETED and checks nothing.
Finish(e) ==
    /\ e \in executing
    /\ row' = [row EXCEPT ![e].status = "COMPLETED", ![e].ended = TRUE]
    /\ executing' = executing \ {e}
    /\ Note(e, {"RUNNING"})
    /\ UNCHANGED <<past, queries>>

Next ==
    \/ Ask \/ CountStatus \/ QueryAverage
    \/ \E e \in Workflows : \/ Create(e) \/ Execute(e) \/ Finish(e)
                            \/ \E op \in Operations(e) : Write(e, op)

Spec == Init /\ [][Next]_stvars

------------------------------------------------------------------------------
TypeOK ==
    /\ row \in [Execution -> Row]
    /\ past \in [Workflows -> SUBSET {"PENDING", "RUNNING"}]
    /\ executing \subseteq Workflows
    /\ next \in 0 .. 8
    /\ counted \subseteq Workflows \X Statuses
    /\ average \in {"NULL", "value", "negative"}
    /\ existed \subseteq Workflows
    /\ overtaken \subseteq Workflows
    /\ disturbed \subseteq overtaken

\* No execution slips through between two counts as long as nobody writes over it
\* in a status that forbids it: whatever existed when the counting began is in at
\* least one count.  This hangs on the order of the enumeration, which every step
\* of the life cycle follows.  (A disturbed one can be missed: running, cancelled
\* before the count of RUNNING, and set RUNNING after it by a start() that had passed
\* its check.)
NoneMissed ==
    next = 8 => \A e \in existed \ disturbed : \E s \in Statuses : <<e, s>> \in counted

\* Executions may be counted in several statuses, but in two final ones only when
\* somebody wrote over the first of them: the denominator of success_rate counts
\* each undisturbed execution once.
FinalOnce ==
    \A c, d \in counted :
        /\ c[1] = d[1] /\ c[1] \notin disturbed
        /\ c[2] \in Terminal /\ d[2] \in Terminal
        => c = d

\* When an undisturbed execution was counted as completed, the last query still
\* finds it completed and with both timestamps, whatever happened to it before the
\* counting; and where no execution was ever written over, an average is reported.
CompletedHaveAverage ==
    next = 8 => \A c \in counted :
        c[2] = "COMPLETED" /\ c[1] \notin disturbed =>
            average # "NULL" /\ (overtaken = {} => average = "value")

===============================================================================
