-------------------------- MODULE ExecutionLifecycle --------------------------
(***************************************************************************)
(* The life of an execution row as models/execution.py and                 *)
(* services/execution_service.py define it: which operation is allowed in  *)
(* which status and what it assigns.  Here an operation is one atomic      *)
(* step, which is what each of the methods promises its caller;            *)
(* ExecutionService shows what becomes of it in concurrent transactions.   *)
(* A row is a workflow execution or a node execution; timestamps are kept  *)
(* as "set or not", messages and payloads are left out.                    *)
(***************************************************************************)
EXTENDS Naturals

CONSTANTS
    Execution,   \* the rows that may come to exist
    NodeRows     \* those of them that are node executions

ASSUME NodeRowsAssumption == NodeRows \subseteq Execution

VARIABLE row     \* row[e]: the committed row

Terminal == {"COMPLETED", "FAILED", "SKIPPED", "CANCELLED"}
Statuses == {"PENDING", "RUNNING"} \cup Terminal

Operations(e) == IF e \in NodeRows
                 THEN {"start", "complete", "fail", "skip", "retry"}
                 ELSE {"start", "complete", "fail", "cancel"}

AllOperations == {"start", "complete", "fail", "skip", "retry", "cancel"}

\* (mutant: a finished execution can still be cancelled)
FromCancelAnything ==
    [start    |-> {"PENDING"},
     complete |-> {"RUNNING"},
     fail     |-> {"RUNNING"},
     cancel   |-> Statuses,
     skip     |-> {"PENDING"},
     retry    |-> {"FAILED"}]

\* The statuses in which an operation does not raise ValueError.
From == [start    |-> {"PENDING"},
         complete |-> {"RUNNING"},
         fail     |-> {"RUNNING"},
         cancel   |-> {"PENDING", "RUNNING"},
         skip     |-> {"PENDING"},
         retry    |-> {"FAILED"}]

To == [start |-> "RUNNING", complete |-> "COMPLETED", fail |-> "FAILED",
       cancel |-> "CANCELLED", skip |-> "SKIPPED", retry |-> "PENDING"]

\* (mutant: complete() does not record ended_at)
EndingUnlessComplete == {"fail", "cancel", "skip"}

\* The operations that record ended_at.
Ending == {"complete", "fail", "cancel", "skip"}

Absent == [status |-> "absent", started |-> FALSE, ended |-> FALSE, retries |-> 0]
Fresh  == [status |-> "PENDING", started |-> FALSE, ended |-> FALSE, retries |-> 0]

Row == [status : Statuses \cup {"absent"}, started : BOOLEAN, ended : BOOLEAN,
        retries : Nat]

\* The object v after the assignments of the operation.
After(op, v) ==
    [status  |-> To[op],
     started |-> op = "start" \/ (v.started /\ op # "retry"),
     ended   |-> op \in Ending \/ (v.ended /\ op # "retry"),
     retries |-> IF op = "retry" THEN v.retries + 1 ELSE v.retries]

------------------------------------------------------------------------------
LInit == row = [e \in Execution |-> Absent]

LCreate(e) == /\ row[e] = Absent
              /\ row' = [row EXCEPT ![e] = Fresh]

LMove(e, op) == /\ row[e].status \in From[op]
                /\ row' = [row EXCEPT ![e] = After(op, @)]
================================================================================
