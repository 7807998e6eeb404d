---------------------------- MODULE ExecutionService ----------------------------
(***************************************************************************)
(* WorkflowExecutionService and NodeExecutionService (services/            *)
(* execution_service.py) used by several database sessions at once.  Every *)
(* operation is "load the object, check its status, assign, flush,         *)
(* refresh", and its caller commits (api/v1/executions.py, db/session.py). *)
(* The coroutine is suspended between the load and the UPDATE, between the *)
(* UPDATE and the refresh, and before the commit.                          *)
(*                                                                         *)
(* The database is PostgreSQL at its default isolation level: a SELECT     *)
(* sees what is committed, an UPDATE waits for the row lock and then       *)
(* overwrites the columns it names in the newest committed row.  The       *)
(* session is SQLAlchemy's with expire_on_commit=False: it keeps the       *)
(* object it loaded (its identity map) and hands the same object out again *)
(* without looking at the row, until a rollback expires it or the caller   *)
(* lets go of it.                                                          *)
(***************************************************************************)
EXTENDS ExecutionLifecycle

CONSTANTS
    Session,     \* database sessions, each used by one coroutine
    MaxCalls,    \* bound: the calls a session makes
    MaxRetry     \* bound: the retry_count up to which increment_retry is called

ASSUME MaxCallsAssumption == MaxCalls \in Nat
ASSUME MaxRetryAssumption == MaxRetry \in Nat

VARIABLES
    at,       \* at[s]: where the call of s is suspended
    target,   \* target[s]: the row it works on
    doing,    \* doing[s]: its operation
    held,     \* held[s][e]: the object of e in the identity map, or Absent
    sent,     \* sent[s]: the columns its UPDATE names
    draft,    \* draft[s]: the row as its own transaction sees it
    lock,     \* lock[e]: the sessions holding the row lock of e
    calls,    \* calls[s]: how many calls s has made
    basis     \* history: the object as the call of s found it

svars == <<row, at, target, doing, held, sent, draft, lock, calls, basis>>

Places == {"idle", "update", "refresh", "commit"}

Init ==
    /\ row = [e \in Execution |-> Absent]
    /\ at = [s \in Session |-> "idle"]
    /\ target \in [Session -> Execution]
    /\ doing = [s \in Session |-> "start"]
    /\ held = [s \in Session |-> [e \in Execution |-> Absent]]
    /\ sent = [s \in Session |-> {}]
    /\ draft = [s \in Session |-> Absent]
    /\ lock = [e \in Execution |-> {}]
    /\ calls = [s \in Session |-> 0]
    /\ basis = [s \in Session |-> Absent]

\* create(): the row exists when its caller has committed it.
Create(e) ==
    /\ row[e] = Absent
    /\ row' = [row EXCEPT ![e] = Fresh]
    /\ UNCHANGED <<at, target, doing, held, sent, draft, lock, calls, basis>>

\* get(): a SELECT, but an object in the identity map wins over the row read.
Loaded(s, e) == IF held[s][e] # Absent THEN held[s][e] ELSE row[e]

\* (mutant: a retry keeps the timestamps of the attempt before)
ColumnsKeepingTimes(op, v) ==
    {"status"}
    \cup (IF op = "start" THEN {"started"} ELSE {})
    \cup (IF op \in Ending THEN {"ended"} ELSE {})
    \cup (IF op = "retry" THEN {"retries"} ELSE {})

\* What the UPDATE names: the columns the operation assigned, without those
\* assigned None that were None already.
Columns(op, v) ==
    {"status"}
    \cup (IF op = "start" THEN {"started"} ELSE {})
    \cup (IF op \in Ending THEN {"ended"} ELSE {})
    \cup (IF op = "retry"
          THEN {"retries"} \cup {c \in {"started", "ended"} : v[c]} ELSE {})

\* (mutant: the rest of the row is lost)
OverwriteChanged(old, new, columns) == [c \in columns |-> new[c]]

\* The object of a session replaces those columns in the newest row.
Overwrite(old, new, columns) ==
    [c \in DOMAIN old |-> IF c \in columns THEN new[c] ELSE old[c]]

\* (mutant: the status is not checked)
CallUnchecked(s, e, op) ==
    /\ at[s] = "idle" /\ calls[s] < MaxCalls
    /\ op \in Operations(e)
    /\ op = "retry" => Loaded(s, e).retries < MaxRetry
    /\ Loaded(s, e).status # "absent"
    /\ at' = [at EXCEPT ![s] = "update"]
    /\ target' = [target EXCEPT ![s] = e]
    /\ doing' = [doing EXCEPT ![s] = op]
    /\ held' = [held EXCEPT ![s][e] = After(op, Loaded(s, e))]
    /\ sent' = [sent EXCEPT ![s] = Columns(op, Loaded(s, e))]
    /\ calls' = [calls EXCEPT ![s] = @ + 1]
    /\ basis' = [basis EXCEPT ![s] = Loaded(s, e)]
    /\ UNCHANGED <<row, draft, lock>>

\* The load, the check and the assignments; then the UPDATE is under way.
Call(s, e, op) ==
    /\ at[s] = "idle" /\ calls[s] < MaxCalls
    /\ op \in Operations(e)
    /\ op = "retry" => Loaded(s, e).retries < MaxRetry
    /\ Loaded(s, e).status \in From[op]
    /\ at' = [at EXCEPT ![s] = "update"]
    /\ target' = [target EXCEPT ![s] = e]
    /\ doing' = [doing EXCEPT ![s] = op]
    /\ held' = [held EXCEPT ![s][e] = After(op, Loaded(s, e))]
    /\ sent' = [sent EXCEPT ![s] = Columns(op, Loaded(s, e))]
    /\ calls' = [calls EXCEPT ![s] = @ + 1]
    /\ basis' = [basis EXCEPT ![s] = Loaded(s, e)]
    /\ UNCHANGED <<row, draft, lock>>

\* The row is missing or its status does not allow the operation: ValueError,
\* and nothing but the load has happened.  A request that does not catch it is
\* rolled back by get_db, which is Forget here.
Refuse(s, e, op) ==
    /\ at[s] = "idle" /\ calls[s] < MaxCalls
    /\ op \in Operations(e)
    /\ Loaded(s, e).status \notin From[op]
    /\ held' = [held EXCEPT ![s][e] = Loaded(s, e)]
    /\ calls' = [calls EXCEPT ![s] = @ + 1]
    /\ UNCHANGED <<row, at, target, doing, sent, draft, lock, basis>>

\* (mutant: the UPDATE does not wait for the transaction before it)
UpdateEager(s) ==
    /\ at[s] = "update"
    /\ lock' = [lock EXCEPT ![target[s]] = @ \cup {s}]
    /\ draft' = [draft EXCEPT
          ![s] = Overwrite(row[target[s]], held[s][target[s]], sent[s])]
    /\ at' = [at EXCEPT ![s] = "refresh"]
    /\ UNCHANGED <<row, target, doing, held, sent, calls, basis>>

\* flush(): the UPDATE gets the row lock when nobody else holds it.
Update(s) ==
    /\ at[s] = "update"
    /\ lock[target[s]] \subseteq {s}
    /\ lock' = [lock EXCEPT ![target[s]] = {s}]
    /\ draft' = [draft EXCEPT
          ![s] = Overwrite(row[target[s]], held[s][target[s]], sent[s])]
    /\ at' = [at EXCEPT ![s] = "refresh"]
    /\ UNCHANGED <<row, target, doing, held, sent, calls, basis>>

\* refresh(): the object takes over the row its transaction sees.
Refresh(s) ==
    /\ at[s] = "refresh"
    /\ held' = [held EXCEPT ![s][target[s]] = draft[s]]
    /\ at' = [at EXCEPT ![s] = "commit"]
    /\ UNCHANGED <<row, target, doing, sent, draft, lock, calls, basis>>

\* The transaction of s is over.
EndTransaction(s) ==
    /\ at' = [at EXCEPT ![s] = "idle"]
    /\ sent' = [sent EXCEPT ![s] = {}]
    /\ draft' = [draft EXCEPT ![s] = Absent]
    /\ basis' = [basis EXCEPT ![s] = Absent]

\* The caller commits; the object stays as it is (expire_on_commit=False).
Commit(s) ==
    /\ at[s] = "commit"
    /\ row' = [row EXCEPT ![target[s]] = draft[s]]
    /\ lock' = [lock EXCEPT ![target[s]] = {}]
    /\ EndTransaction(s)
    /\ UNCHANGED <<target, doing, held, calls>>

\* (mutant: the rollback leaves the transaction, and with it the lock, open)
RollbackHolding(s) ==
    /\ at[s] # "idle"
    /\ EndTransaction(s)
    /\ held' = [held EXCEPT ![s] = [x \in Execution |-> Absent]]
    /\ UNCHANGED <<row, target, doing, lock, calls>>

\* The request dies at one of its awaits: get_db rolls back and the session
\* expires what it holds.
Rollback(s) ==
    /\ at[s] # "idle"
    /\ lock' = [e \in Execution |-> lock[e] \ {s}]
    /\ EndTransaction(s)
    /\ held' = [held EXCEPT ![s] = [x \in Execution |-> Absent]]
    /\ UNCHANGED <<row, target, doing, calls>>

\* The caller lets go of the objects: the identity map refers to them weakly.
Forget(s) ==
    /\ at[s] = "idle"
    /\ held[s] # [x \in Execution |-> Absent]
    /\ held' = [held EXCEPT ![s] = [x \in Execution |-> Absent]]
    /\ UNCHANGED <<row, at, target, doing, sent, draft, lock, calls, basis>>

\* What the database and the event loop do for a call under way.
Proceed(s) == Update(s) \/ Refresh(s) \/ Commit(s)

Next ==
    \/ \E e \in Execution : Create(e)
    \/ \E s \in Session : \/ \E e \in Execution : \E op \in AllOperations :
                                Call(s, e, op) \/ Refuse(s, e, op)
                          \/ Proceed(s) \/ Rollback(s) \/ Forget(s)

Spec == Init /\ [][Next]_svars

\* A coroutine that is not waiting for a lock is resumed; nobody has to call.
FairSpec == Spec /\ \A s \in Session : WF_svars(Proceed(s))

------------------------------------------------------------------------------
(* Properties of any use *)

TypeOK ==
    /\ row \in [Execution -> Row]
    /\ at \in [Session -> Places]
    /\ target \in [Session -> Execution]
    /\ doing \in [Session -> AllOperations]
    /\ held \in [Session -> [Execution -> Row]]
    /\ sent \in [Session -> SUBSET {"status", "started", "ended", "retries"}]
    /\ draft \in [Session -> Row]
    /\ lock \in [Execution -> SUBSET Session]
    /\ calls \in [Session -> 0 .. MaxCalls]
    /\ basis \in [Session -> Row]

\* The timestamps of a row go with its status.
TimesFit(r) ==
    /\ r.status = "PENDING" => ~r.started /\ ~r.ended
    /\ r.status \in {"RUNNING", "COMPLETED", "FAILED"} => r.started
    /\ r.status \in Terminal => r.ended

\* However the transactions interleave and whatever stale objects the sessions
\* hold, a workflow execution never says RUNNING or COMPLETED without started_at,
\* nor a final status without ended_at: operations overwrite each other column by
\* column, but none of them clears a timestamp.
WorkflowTimesFit == \A e \in Execution \ NodeRows : TimesFit(row[e])

\* What a call has written but not committed differs from the committed row only
\* in the columns of its own UPDATE: no other commit slips in between, so the
\* object that refresh() gives the caller is the row that its commit leaves.
RefreshIsCommitted ==
    \A s \in Session : at[s] \in {"refresh", "commit"} =>
        \A c \in {"status", "started", "ended", "retries"} \ sent[s] :
            draft[s][c] = row[target[s]][c]

\* A call that got past its check ends, committed or rolled back: waiting for a
\* row lock is waiting for a call that ends.
CallsEnd == \A s \in Session : at[s] # "idle" ~> at[s] = "idle"

\* Concurrency is the only thing that breaks the life cycle: a call whose row is,
\* when it commits, still what the call found takes the row along by exactly one
\* step of ExecutionLifecycle - whatever was refused, rolled back or forgotten in
\* the session before.
FreshCallsAreSteps ==
    [][\A s \in Session :
          /\ at[s] = "commit" /\ row' # row
          /\ lock[target[s]] = {s} /\ lock'[target[s]] = {}
          /\ basis[s] = row[target[s]]
          => LMove(target[s], doing[s])]_svars

------------------------------------------------------------------------------
(* What the repository says and the code does not do *)

\* .moai/specs/SPEC-005/spec.md REQ-005: completed, skipped and cancelled are
\* final.
FinalStays ==
    [][\A e \in Execution : row[e].status \in {"COMPLETED", "SKIPPED", "CANCELLED"}
            => row'[e].status = row[e].status]_svars
===============================================================================
