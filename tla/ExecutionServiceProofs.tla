------------------------ MODULE ExecutionServiceProofs ------------------------
(***************************************************************************)
(* Proofs about ExecutionService, for any number of sessions, rows and     *)
(* calls: what holds of workflow executions however the transactions       *)
(* interleave and however stale the objects of the sessions are.           *)
(***************************************************************************)
EXTENDS ExecutionService, TLAPS

Column    == {"status", "started", "ended", "retries"}
Workflows == Execution \ NodeRows
Written(s) == at[s] \in {"refresh", "commit"}

\* A call under way is one its row offers, and its UPDATE names what the
\* operation assigns.
CallFits ==
    \A s \in Session : at[s] # "idle" =>
        /\ doing[s] \in Operations(target[s])
        /\ "status" \in sent[s]
        /\ "started" \in sent[s] => doing[s] \in {"start", "retry"}
        /\ "ended" \in sent[s] => doing[s] \in Ending \cup {"retry"}

\* Before the UPDATE the values wait in the object of the session.
UpdateReady ==
    \A s \in Session : at[s] = "update" =>
        LET v == held[s][target[s]]
        IN  /\ v.status = To[doing[s]]
            /\ doing[s] = "start" => "started" \in sent[s] /\ v.started
            /\ doing[s] \in Ending => "ended" \in sent[s] /\ v.ended

\* After it they are in the row of the transaction, and the row is locked.
UpdateSent ==
    \A s \in Session : Written(s) =>
        /\ lock[target[s]] = {s}
        /\ draft[s].status = To[doing[s]]
        /\ doing[s] = "start" => draft[s].started
        /\ doing[s] \in Ending => draft[s].ended

\* Whoever is about to complete or fail a workflow execution saw it running, so
\* it was started; and it still is, since nothing clears started_at.
RunningWasStarted ==
    \A s \in Session :
        /\ at[s] # "idle" /\ target[s] \in Workflows
           /\ doing[s] \in {"complete", "fail"} => row[target[s]].started
        /\ \A e \in Workflows : held[s][e].status = "RUNNING" =>
              \/ row[e].started
              \/ at[s] # "idle" /\ target[s] = e /\ doing[s] = "start"

SInv == /\ TypeOK /\ CallFits /\ UpdateReady /\ UpdateSent /\ RefreshIsCommitted
        /\ RunningWasStarted /\ WorkflowTimesFit

------------------------------------------------------------------------------
\* An UPDATE replaces the columns it names and no other.
LEMMA OverwriteColumns ==
    ASSUME NEW old \in Row, NEW new \in Row, NEW columns \in SUBSET Column
    PROVE  /\ Overwrite(old, new, columns) \in Row
           /\ \A c \in Column : Overwrite(old, new, columns)[c] =
                                    IF c \in columns THEN new[c] ELSE old[c]
<1>1. DOMAIN old = Column
  BY DEF Row, Column
<1>2. \A c \in Column : Overwrite(old, new, columns)[c] =
                            IF c \in columns THEN new[c] ELSE old[c]
  BY <1>1 DEF Overwrite, Column
<1>3. Overwrite(old, new, columns) \in Row
  BY <1>1 DEF Overwrite, Row, Column
<1> QED
  BY <1>2, <1>3

\* What an operation makes of an object.
LEMMA AfterColumns ==
    ASSUME NEW e, NEW op \in Operations(e), NEW v \in Row
    PROVE  /\ After(op, v) \in Row
           /\ After(op, v).status = To[op]
           /\ op = "start" => After(op, v).started
           /\ op \in Ending => After(op, v).ended
<1>1. After(op, v) \in Row
  BY DEF Operations, After, Row, To, Ending, Statuses, Terminal
<1>2. After(op, v).status = To[op]
  BY DEF After
<1>3. v.started \in BOOLEAN /\ v.ended \in BOOLEAN
  BY DEF Row
<1>4. /\ After(op, v).started = (op = "start" \/ (v.started /\ op # "retry"))
      /\ After(op, v).ended = (op \in Ending \/ (v.ended /\ op # "retry"))
  BY DEF After
<1> QED
  BY <1>1, <1>2, <1>3, <1>4

LEMMA WorkflowOperations ==
    ASSUME NEW e \in Workflows, NEW op \in Operations(e)
    PROVE  /\ op \in {"start", "complete", "fail", "cancel"}
           /\ op # "start" => op \in Ending
           /\ To[op] \in {"RUNNING", "COMPLETED", "FAILED", "CANCELLED"}
           /\ To[op] = "RUNNING" => op = "start"
           /\ To[op] \in {"COMPLETED", "FAILED"} => op \in {"complete", "fail"}
BY DEF Workflows, Operations, Ending, To

LEMMA InitSInv == Init => SInv
BY NodeRowsAssumption, MaxCallsAssumption
   DEF Init, SInv, TypeOK, CallFits, UpdateReady, UpdateSent, Written,
       RefreshIsCommitted, RunningWasStarted, WorkflowTimesFit, TimesFit, Absent, Row,
       Workflows, Places, AllOperations, Statuses, Terminal

------------------------------------------------------------------------------
LEMMA CreateStep ==
    ASSUME SInv, NEW e \in Execution, Create(e)
    PROVE  SInv'
<1> USE DEF SInv
<1>1. row[e] = Absent /\ row' = [row EXCEPT ![e] = Fresh] /\ Fresh \in Row
  BY DEF Create, Fresh, Row, Statuses
<1>2. UNCHANGED <<at, target, doing, held, sent, draft, lock, calls, basis>>
  BY DEF Create
<1>3. row \in [Execution -> Row]
  BY DEF TypeOK
<1>4. \A x \in Execution : row[x].started => row'[x].started
  BY <1>1, <1>3 DEF Absent, Fresh
<1>5. TypeOK'
  BY <1>1, <1>2, <1>3 DEF TypeOK
<1>6. CallFits' /\ UpdateReady' /\ UpdateSent'
  BY <1>2 DEF CallFits, UpdateReady, UpdateSent, Written
<1>7. RefreshIsCommitted'
  <2> SUFFICES ASSUME NEW s \in Session, Written(s), NEW c \in Column \ sent[s]
               PROVE  draft[s][c] = row'[target[s]][c]
    BY <1>2 DEF RefreshIsCommitted, Written, Column
  <2>1. draft[s][c] = row[target[s]][c] /\ target[s] \in Execution /\ c # "status"
    BY DEF RefreshIsCommitted, Written, Column, CallFits, TypeOK
  <2>2. Fresh[c] = Absent[c]
    <3>1. c = "started" \/ c = "ended" \/ c = "retries"
      BY <2>1 DEF Column
    <3>2. /\ Fresh.started = Absent.started /\ Fresh.ended = Absent.ended
          /\ Fresh.retries = Absent.retries
      BY DEF Absent, Fresh
    <3> QED
      BY <3>1, <3>2
  <2>3. row'[target[s]][c] = row[target[s]][c]
    BY <1>1, <1>3, <2>1, <2>2
  <2> QED
    BY <2>1, <2>3
<1>8. RunningWasStarted'
  BY <1>2, <1>4 DEF RunningWasStarted, Workflows, TypeOK
<1>9. WorkflowTimesFit'
  BY <1>1, <1>3 DEF WorkflowTimesFit, TimesFit, Fresh, Terminal
<1> QED
  BY <1>5, <1>6, <1>7, <1>8, <1>9

\* What a session gets from get() is a row, and a workflow execution that it
\* shows running was started.
LEMMA LoadedFits ==
    ASSUME SInv, NEW s \in Session, NEW e \in Execution, at[s] = "idle"
    PROVE  /\ Loaded(s, e) \in Row
           /\ e \in Workflows /\ Loaded(s, e).status = "RUNNING" => row[e].started
<1>1. Loaded(s, e) \in Row
  BY DEF SInv, TypeOK, Loaded
<1>2. CASE held[s][e] # Absent
  BY <1>1, <1>2 DEF SInv, RunningWasStarted, Loaded
<1>3. CASE held[s][e] = Absent
  BY <1>1, <1>3 DEF SInv, WorkflowTimesFit, TimesFit, Loaded, Workflows
<1> QED
  BY <1>1, <1>2, <1>3

LEMMA CallStep ==
    ASSUME SInv, NEW s \in Session, NEW e \in Execution, NEW op \in AllOperations,
           Call(s, e, op)
    PROVE  SInv'
<1> DEFINE v == Loaded(s, e)
<1>1. /\ at[s] = "idle" /\ op \in Operations(e) /\ v.status \in From[op]
      /\ at' = [at EXCEPT ![s] = "update"]
      /\ target' = [target EXCEPT ![s] = e]
      /\ doing' = [doing EXCEPT ![s] = op]
      /\ held' = [held EXCEPT ![s][e] = After(op, v)]
      /\ sent' = [sent EXCEPT ![s] = Columns(op, v)]
      /\ calls' = [calls EXCEPT ![s] = @ + 1]
      /\ calls[s] < MaxCalls
      /\ basis' = [basis EXCEPT ![s] = v]
      /\ UNCHANGED <<row, draft, lock>>
  BY DEF Call
<1> HIDE DEF v
<1>2. v \in Row /\ (e \in Workflows /\ v.status = "RUNNING" => row[e].started)
  BY <1>1, LoadedFits DEF v
<1>3. /\ After(op, v) \in Row /\ After(op, v).status = To[op]
      /\ op = "start" => After(op, v).started
      /\ op \in Ending => After(op, v).ended
  BY <1>1, <1>2, AfterColumns
<1>4. /\ Columns(op, v) \in SUBSET Column /\ "status" \in Columns(op, v)
      /\ "started" \in Columns(op, v) => op \in {"start", "retry"}
      /\ "ended" \in Columns(op, v) => op \in Ending \cup {"retry"}
      /\ op = "start" => "started" \in Columns(op, v)
      /\ op \in Ending => "ended" \in Columns(op, v)
  BY DEF Columns, Column, Ending
<1> DEFINE typed == /\ at \in [Session -> Places] /\ target \in [Session -> Execution]
                    /\ doing \in [Session -> AllOperations]
                    /\ held \in [Session -> [Execution -> Row]]
                    /\ sent \in [Session -> SUBSET Column]
<1>5. typed
  BY DEF SInv, TypeOK, Column
<1>6. /\ at'[s] = "update" /\ target'[s] = e /\ doing'[s] = op
      /\ held'[s][e] = After(op, v) /\ sent'[s] = Columns(op, v)
      /\ \A x \in Execution : x # e => held'[s][x] = held[s][x]
  BY <1>1, <1>5
<1>7. \A z \in Session : z # s =>
         /\ at'[z] = at[z] /\ target'[z] = target[z] /\ doing'[z] = doing[z]
         /\ held'[z] = held[z] /\ sent'[z] = sent[z]
  BY <1>1, <1>5
<1>8. TypeOK'
  <2>1. held' \in [Session -> [Execution -> Row]]
    BY <1>1, <1>3, <1>5
  <2>2. calls' \in [Session -> 0 .. MaxCalls]
    BY <1>1, MaxCallsAssumption DEF SInv, TypeOK
  <2>3. basis' \in [Session -> Row]
    BY <1>1, <1>2 DEF SInv, TypeOK
  <2> QED
    BY <1>1, <1>4, <1>5, <2>1, <2>2, <2>3 DEF SInv, TypeOK, Places, Column
<1>9. CallFits'
  BY <1>1, <1>4, <1>6, <1>7 DEF SInv, CallFits
<1>10. UpdateReady'
  BY <1>3, <1>4, <1>6, <1>7 DEF SInv, UpdateReady
<1>11. UpdateSent' /\ RefreshIsCommitted'
  <2>1. ASSUME NEW z \in Session, Written(z)' PROVE z # s /\ Written(z)
    BY <1>6, <1>7, <2>1 DEF Written
  <2>2. UpdateSent'
    <3> SUFFICES ASSUME NEW z \in Session, Written(z)'
                 PROVE  /\ lock[target'[z]] = {z}
                        /\ draft[z].status = To[doing'[z]]
                        /\ doing'[z] = "start" => draft[z].started
                        /\ doing'[z] \in Ending => draft[z].ended
      BY <1>1 DEF UpdateSent
    <3>1. Written(z) /\ target'[z] = target[z] /\ doing'[z] = doing[z]
      BY <1>7, <2>1
    <3> QED
      BY <3>1 DEF SInv, UpdateSent
  <2>3. RefreshIsCommitted'
    BY <1>1, <1>7, <2>1 DEF SInv, RefreshIsCommitted, Written
  <2> QED
    BY <2>2, <2>3
<1>12. RunningWasStarted'
  <2> SUFFICES ASSUME NEW z \in Session
               PROVE  /\ at'[z] # "idle" /\ target'[z] \in Workflows
                         /\ doing'[z] \in {"complete", "fail"} => row[target'[z]].started
                      /\ \A x \in Workflows : held'[z][x].status = "RUNNING" =>
                            \/ row[x].started
                            \/ at'[z] # "idle" /\ target'[z] = x /\ doing'[z] = "start"
    BY <1>1 DEF RunningWasStarted
  <2>1. CASE z # s
    BY <1>7, <2>1 DEF SInv, RunningWasStarted
  <2>2. CASE z = s
    <3>1. op \in {"complete", "fail"} /\ e \in Workflows => row[e].started
      BY <1>1, <1>2 DEF From
    <3>2. ASSUME NEW x \in Workflows, held'[s][x].status = "RUNNING"
          PROVE  row[x].started \/ (target'[s] = x /\ doing'[s] = "start")
      <4>1. CASE x = e
        BY <1>1, <1>3, <1>6, <3>2, <4>1, WorkflowOperations
      <4>2. CASE x # e
        BY <1>1, <1>6, <3>2, <4>2 DEF SInv, RunningWasStarted, Workflows
      <4> QED
        BY <4>1, <4>2
    <3> QED
      BY <1>6, <2>2, <3>1, <3>2
  <2> QED
    BY <2>1, <2>2
<1>13. WorkflowTimesFit'
  BY <1>1 DEF SInv, WorkflowTimesFit
<1> QED
  BY <1>8, <1>9, <1>10, <1>11, <1>12, <1>13 DEF SInv

LEMMA RefuseStep ==
    ASSUME SInv, NEW s \in Session, NEW e \in Execution, NEW op \in AllOperations,
           Refuse(s, e, op)
    PROVE  SInv'
<1> DEFINE v == Loaded(s, e)
<1>1. /\ at[s] = "idle" /\ calls[s] < MaxCalls
      /\ held' = [held EXCEPT ![s][e] = v]
      /\ calls' = [calls EXCEPT ![s] = @ + 1]
      /\ UNCHANGED <<row, at, target, doing, sent, draft, lock, basis>>
  BY DEF Refuse
<1> HIDE DEF v
<1>2. v \in Row /\ (e \in Workflows /\ v.status = "RUNNING" => row[e].started)
  BY <1>1, LoadedFits DEF v
<1>3. held \in [Session -> [Execution -> Row]] /\ calls \in [Session -> 0 .. MaxCalls]
  BY DEF SInv, TypeOK
<1>4. /\ held'[s][e] = v
      /\ \A x \in Execution : x # e => held'[s][x] = held[s][x]
      /\ \A z \in Session : z # s => held'[z] = held[z]
  BY <1>1, <1>3
<1>5. TypeOK'
  <2>1. held' \in [Session -> [Execution -> Row]]
    BY <1>1, <1>2, <1>3
  <2>2. calls' \in [Session -> 0 .. MaxCalls]
    BY <1>1, <1>3, MaxCallsAssumption
  <2> QED
    BY <1>1, <2>1, <2>2 DEF SInv, TypeOK
<1>6. CallFits' /\ UpdateSent' /\ RefreshIsCommitted' /\ WorkflowTimesFit'
  BY <1>1 DEF SInv, CallFits, UpdateSent, RefreshIsCommitted, WorkflowTimesFit, Written
<1>7. UpdateReady'
  BY <1>1, <1>4 DEF SInv, UpdateReady
<1>8. RunningWasStarted'
  BY <1>1, <1>2, <1>4 DEF SInv, RunningWasStarted, Workflows
<1> QED
  BY <1>5, <1>6, <1>7, <1>8 DEF SInv

LEMMA UpdateStep ==
    ASSUME SInv, NEW s \in Session, Update(s)
    PROVE  SInv'
<1> DEFINE e == target[s]
           d == Overwrite(row[e], held[s][e], sent[s])
<1>1. /\ at[s] = "update" /\ lock[e] \subseteq {s}
      /\ lock' = [lock EXCEPT ![e] = {s}]
      /\ draft' = [draft EXCEPT ![s] = d]
      /\ at' = [at EXCEPT ![s] = "refresh"]
      /\ UNCHANGED <<row, target, doing, held, sent, calls, basis>>
  BY DEF Update
<1>2. /\ e \in Execution /\ row[e] \in Row /\ held[s][e] \in Row
      /\ sent[s] \in SUBSET Column /\ lock \in [Execution -> SUBSET Session]
      /\ draft \in [Session -> Row] /\ at \in [Session -> Places]
  BY DEF SInv, TypeOK, Column
<1>3. /\ d \in Row
      /\ \A c \in Column : d[c] = IF c \in sent[s] THEN held[s][e][c] ELSE row[e][c]
  BY <1>2, OverwriteColumns
<1>4. /\ d.status = To[doing[s]]
      /\ doing[s] = "start" => d.started
      /\ doing[s] \in Ending => d.ended
  BY <1>1, <1>3 DEF SInv, UpdateReady, CallFits, Column
<1> HIDE DEF d
<1>5. /\ at'[s] = "refresh" /\ draft'[s] = d /\ lock'[e] = {s}
      /\ \A z \in Session : z # s => at'[z] = at[z] /\ draft'[z] = draft[z]
      /\ \A x \in Execution : x # e => lock'[x] = lock[x]
  BY <1>1, <1>2
<1>6. \A z \in Session : z # s /\ Written(z) => target[z] # e
  BY <1>1 DEF SInv, UpdateSent
<1>7. TypeOK'
  BY <1>1, <1>2, <1>3 DEF SInv, TypeOK, Places
<1>8. CallFits' /\ UpdateReady' /\ RunningWasStarted' /\ WorkflowTimesFit'
  BY <1>1, <1>5
     DEF SInv, CallFits, UpdateReady, RunningWasStarted, WorkflowTimesFit, TypeOK
<1>9. UpdateSent'
  <2> SUFFICES ASSUME NEW z \in Session, Written(z)'
               PROVE  /\ lock'[target[z]] = {z}
                      /\ draft'[z].status = To[doing[z]]
                      /\ doing[z] = "start" => draft'[z].started
                      /\ doing[z] \in Ending => draft'[z].ended
    BY <1>1 DEF UpdateSent
  <2>1. CASE z = s
    BY <1>4, <1>5, <2>1
  <2>2. CASE z # s
    <3>1. Written(z) /\ target[z] \in Execution
      BY <1>5, <2>2 DEF Written, SInv, TypeOK
    <3> QED
      BY <1>5, <1>6, <2>2, <3>1 DEF SInv, UpdateSent
  <2> QED
    BY <2>1, <2>2
<1>10. RefreshIsCommitted'
  BY <1>1, <1>3, <1>5 DEF SInv, RefreshIsCommitted, Column
<1> QED
  BY <1>7, <1>8, <1>9, <1>10 DEF SInv

LEMMA RefreshStep ==
    ASSUME SInv, NEW s \in Session, Refresh(s)
    PROVE  SInv'
<1> DEFINE e == target[s]
<1>1. /\ at[s] = "refresh"
      /\ held' = [held EXCEPT ![s][e] = draft[s]]
      /\ at' = [at EXCEPT ![s] = "commit"]
      /\ UNCHANGED <<row, target, doing, sent, draft, lock, calls, basis>>
  BY DEF Refresh
<1>2. /\ e \in Execution /\ draft[s] \in Row /\ at \in [Session -> Places]
      /\ held \in [Session -> [Execution -> Row]]
  BY DEF SInv, TypeOK
<1>3. /\ at'[s] = "commit" /\ held'[s][e] = draft[s]
      /\ \A x \in Execution : x # e => held'[s][x] = held[s][x]
      /\ \A z \in Session : z # s => at'[z] = at[z] /\ held'[z] = held[z]
  BY <1>1, <1>2
<1>4. \A z \in Session : Written(z)' <=> Written(z)
  BY <1>1, <1>3 DEF Written
<1>5. TypeOK'
  BY <1>1, <1>2 DEF SInv, TypeOK, Places
<1>6. CallFits' /\ UpdateReady' /\ WorkflowTimesFit'
  BY <1>1, <1>3 DEF SInv, CallFits, UpdateReady, WorkflowTimesFit
<1>7. UpdateSent'
  BY <1>1, <1>4 DEF SInv, UpdateSent
<1>8. RefreshIsCommitted'
  BY <1>1, <1>4 DEF SInv, RefreshIsCommitted, Written
<1>9. RunningWasStarted'
  <2>1. draft[s].status = "RUNNING" /\ e \in Workflows => doing[s] = "start"
    BY <1>1, WorkflowOperations DEF SInv, UpdateSent, CallFits, Written
  <2> QED
    BY <1>1, <1>3, <2>1 DEF SInv, RunningWasStarted, Workflows
<1> QED
  BY <1>5, <1>6, <1>7, <1>8, <1>9 DEF SInv

\* The row a call leaves: its status is the operation's, started_at is not
\* cleared, and the timestamps fit.
LEMMA CommittedRow ==
    ASSUME SInv, NEW s \in Session, Written(s), target[s] \in Workflows
    PROVE  /\ row[target[s]].started => draft[s].started
           /\ TimesFit(draft[s])
           /\ doing[s] = "start" => draft[s].started
<1> DEFINE e == target[s]
<1>1. /\ e \in Workflows /\ doing[s] \in Operations(e)
      /\ draft[s].status = To[doing[s]]
      /\ doing[s] = "start" => draft[s].started
      /\ doing[s] \in Ending => draft[s].ended
      /\ at[s] # "idle"
  BY DEF SInv, CallFits, UpdateSent, Written
<1>2. doing[s] # "start" => draft[s].started = row[e].started
  <2>1. doing[s] # "start" => "started" \in Column \ sent[s]
    BY <1>1, WorkflowOperations DEF SInv, CallFits, Column
  <2> QED
    BY <2>1 DEF SInv, RefreshIsCommitted, Written, Column
<1>3. row[e].started => draft[s].started
  BY <1>1, <1>2
<1>4. doing[s] \in {"complete", "fail"} => draft[s].started
  BY <1>1, <1>3 DEF SInv, RunningWasStarted
<1>5. TimesFit(draft[s])
  <2>1. draft[s].status \in {"RUNNING", "COMPLETED", "FAILED", "CANCELLED"}
    BY <1>1, WorkflowOperations
  <2>2. draft[s].status # "CANCELLED" => doing[s] \in {"start", "complete", "fail"}
    BY <1>1, WorkflowOperations
  <2>3. draft[s].status # "RUNNING" => doing[s] \in Ending
    BY <1>1, WorkflowOperations DEF To
  <2>4. draft[s].status # "CANCELLED" => draft[s].started
    BY <1>1, <1>4, <2>2
  <2>5. draft[s].status # "RUNNING" => draft[s].ended
    BY <1>1, <2>3
  <2> QED
    BY <2>1, <2>4, <2>5 DEF TimesFit, Terminal
<1> QED
  BY <1>1, <1>3, <1>5

LEMMA CommitStep ==
    ASSUME SInv, NEW s \in Session, Commit(s)
    PROVE  SInv'
<1> DEFINE e == target[s]
<1>1. /\ at[s] = "commit"
      /\ row' = [row EXCEPT ![e] = draft[s]]
      /\ lock' = [lock EXCEPT ![e] = {}]
      /\ at' = [at EXCEPT ![s] = "idle"]
      /\ sent' = [sent EXCEPT ![s] = {}]
      /\ draft' = [draft EXCEPT ![s] = Absent]
      /\ basis' = [basis EXCEPT ![s] = Absent]
      /\ UNCHANGED <<target, doing, held, calls>>
  BY DEF Commit, EndTransaction
<1>2. /\ e \in Execution /\ row \in [Execution -> Row] /\ draft \in [Session -> Row]
      /\ lock \in [Execution -> SUBSET Session] /\ at \in [Session -> Places]
      /\ sent \in [Session -> SUBSET Column] /\ basis \in [Session -> Row]
  BY DEF SInv, TypeOK, Column
<1>3. /\ at'[s] = "idle" /\ row'[e] = draft[s]
      /\ \A x \in Execution : x # e => row'[x] = row[x] /\ lock'[x] = lock[x]
      /\ \A z \in Session : z # s => /\ at'[z] = at[z] /\ sent'[z] = sent[z]
                                     /\ draft'[z] = draft[z]
  BY <1>1, <1>2
<1>4. Written(s)
  BY <1>1 DEF Written
<1>5. \A z \in Session : Written(z)' => z # s /\ Written(z) /\ target[z] # e
  BY <1>3, <1>4 DEF SInv, UpdateSent, Written
<1>6. e \in Workflows => /\ row[e].started => draft[s].started
                         /\ TimesFit(draft[s])
                         /\ doing[s] = "start" => draft[s].started
  BY <1>4, CommittedRow
<1>7. TypeOK'
  <2>1. basis' \in [Session -> Row]
    BY <1>1, <1>2 DEF Absent, Row
  <2>2. row' \in [Execution -> Row] /\ draft' \in [Session -> Row]
    BY <1>1, <1>2 DEF Absent, Row
  <2> QED
    BY <1>1, <1>2, <2>1, <2>2 DEF SInv, TypeOK, Places, Column
<1>8. CallFits' /\ UpdateReady'
  BY <1>1, <1>3 DEF SInv, CallFits, UpdateReady
<1>9. UpdateSent'
  BY <1>1, <1>3, <1>5 DEF SInv, UpdateSent, TypeOK
<1>10. RefreshIsCommitted'
  BY <1>1, <1>3, <1>5 DEF SInv, RefreshIsCommitted, Written, TypeOK
<1>11. \A x \in Workflows : row[x].started => row'[x].started
  BY <1>3, <1>6 DEF Workflows
<1>12. RunningWasStarted'
  BY <1>1, <1>3, <1>6, <1>11 DEF SInv, RunningWasStarted
<1>13. WorkflowTimesFit'
  BY <1>3, <1>6 DEF SInv, WorkflowTimesFit, Workflows
<1> QED
  BY <1>7, <1>8, <1>9, <1>10, <1>12, <1>13 DEF SInv

LEMMA RollbackStep ==
    ASSUME SInv, NEW s \in Session, Rollback(s)
    PROVE  SInv'
<1>1. /\ lock' = [x \in Execution |-> lock[x] \ {s}]
      /\ at' = [at EXCEPT ![s] = "idle"]
      /\ sent' = [sent EXCEPT ![s] = {}]
      /\ draft' = [draft EXCEPT ![s] = Absent]
      /\ held' = [held EXCEPT ![s] = [x \in Execution |-> Absent]]
      /\ basis' = [basis EXCEPT ![s] = Absent]
      /\ UNCHANGED <<row, target, doing, calls>>
  BY DEF Rollback, EndTransaction
<1>2. /\ Absent \in Row /\ Absent.status = "absent"
  BY DEF Absent, Row
<1>3. /\ draft \in [Session -> Row] /\ held \in [Session -> [Execution -> Row]]
      /\ lock \in [Execution -> SUBSET Session] /\ at \in [Session -> Places]
      /\ sent \in [Session -> SUBSET Column] /\ target \in [Session -> Execution]
  BY DEF SInv, TypeOK, Column
<1>4. /\ at'[s] = "idle" /\ \A x \in Execution : held'[s][x] = Absent
      /\ \A z \in Session : z # s => /\ at'[z] = at[z] /\ sent'[z] = sent[z]
                                     /\ draft'[z] = draft[z] /\ held'[z] = held[z]
  BY <1>1, <1>3
<1>5. TypeOK'
  BY <1>1, <1>2, <1>3 DEF SInv, TypeOK, Places, Column
<1>6. CallFits' /\ UpdateReady' /\ WorkflowTimesFit'
  BY <1>1, <1>4 DEF SInv, CallFits, UpdateReady, WorkflowTimesFit
<1>7. \A z \in Session : Written(z)' => z # s /\ Written(z)
  BY <1>4 DEF Written
<1>8. UpdateSent'
  BY <1>1, <1>3, <1>4, <1>7 DEF SInv, UpdateSent
<1>9. RefreshIsCommitted'
  BY <1>1, <1>4, <1>7 DEF SInv, RefreshIsCommitted, Written
<1>10. RunningWasStarted'
  BY <1>1, <1>2, <1>4 DEF SInv, RunningWasStarted, Workflows
<1> QED
  BY <1>5, <1>6, <1>8, <1>9, <1>10 DEF SInv

LEMMA ForgetStep ==
    ASSUME SInv, NEW s \in Session, Forget(s)
    PROVE  SInv'
<1>1. /\ at[s] = "idle"
      /\ held' = [held EXCEPT ![s] = [x \in Execution |-> Absent]]
      /\ UNCHANGED <<row, at, target, doing, sent, draft, lock, calls, basis>>
  BY DEF Forget
<1>2. Absent \in Row /\ Absent.status = "absent"
  BY DEF Absent, Row
<1>3. held \in [Session -> [Execution -> Row]]
  BY DEF SInv, TypeOK
<1>4. /\ \A x \in Execution : held'[s][x] = Absent
      /\ \A z \in Session : z # s => held'[z] = held[z]
  BY <1>1, <1>3
<1>5. TypeOK'
  BY <1>1, <1>2, <1>3 DEF SInv, TypeOK
<1>6. CallFits' /\ UpdateSent' /\ RefreshIsCommitted' /\ WorkflowTimesFit'
  BY <1>1 DEF SInv, CallFits, UpdateSent, RefreshIsCommitted, WorkflowTimesFit, Written
<1>7. UpdateReady' /\ RunningWasStarted'
  BY <1>1, <1>2, <1>4 DEF SInv, UpdateReady, RunningWasStarted, Workflows
<1> QED
  BY <1>5, <1>6, <1>7 DEF SInv

------------------------------------------------------------------------------
LEMMA ServiceInvariant == Spec => []SInv
<1>1. Init => SInv
  BY InitSInv
<1>2. SInv /\ [Next]_svars => SInv'
  <2> SUFFICES ASSUME SInv, [Next]_svars
               PROVE  SInv'
    OBVIOUS
  <2>1. CASE UNCHANGED svars
    BY <2>1 DEF svars, SInv, TypeOK, CallFits, UpdateReady, UpdateSent, Written,
                RefreshIsCommitted, RunningWasStarted, WorkflowTimesFit
  <2>2. CASE Next
    BY <2>2, CreateStep, CallStep, RefuseStep, UpdateStep, RefreshStep, CommitStep,
       RollbackStep, ForgetStep DEF Next, Proceed
  <2> QED
    BY <2>1, <2>2
<1> QED
  BY <1>1, <1>2, PTL DEF Spec

(***************************************************************************)
(* Every reachable state is well typed.                                    *)
(***************************************************************************)
THEOREM TypeCorrect == Spec => []TypeOK
<1>1. SInv => TypeOK
  BY DEF SInv
<1> QED
  BY <1>1, ServiceInvariant, PTL

(***************************************************************************)
(* The timestamps of a workflow execution go with its status, in every     *)
(* interleaving of transactions, rollbacks and stale objects.              *)
(***************************************************************************)
THEOREM TimestampsFit == Spec => []WorkflowTimesFit
<1>1. SInv => WorkflowTimesFit
  BY DEF SInv
<1> QED
  BY <1>1, ServiceInvariant, PTL

(***************************************************************************)
(* What refresh() shows a caller is what its commit leaves.                *)
(***************************************************************************)
THEOREM NothingSlipsIn == Spec => []RefreshIsCommitted
<1>1. SInv => RefreshIsCommitted
  BY DEF SInv
<1> QED
  BY <1>1, ServiceInvariant, PTL
------------------------------------------------------------------------------
(* Calls on rows that nobody else touched *)

\* What the call of s makes of the object it found.
Outcome(s) == After(doing[s], basis[s])

\* The object that a call found allowed the operation; the UPDATE names what the
\* operation changed in it, and carries what it assigned.
BasisInv ==
    \A s \in Session : at[s] # "idle" =>
        /\ basis[s].status \in From[doing[s]]
        /\ sent[s] = Columns(doing[s], basis[s])
        /\ at[s] = "update" => held[s][target[s]] = Outcome(s)
        /\ Written(s) => \A c \in sent[s] : draft[s][c] = Outcome(s)[c]

\* An operation changes the columns its UPDATE names and no other.
LEMMA UnnamedColumnsStay ==
    ASSUME NEW op \in AllOperations, NEW v \in Row, NEW c \in Column \ Columns(op, v)
    PROVE  After(op, v)[c] = v[c]
<1>1. c = "started" \/ c = "ended" \/ c = "retries"
  BY DEF Column, Columns
<1>2. v.started \in BOOLEAN /\ v.ended \in BOOLEAN /\ v.retries \in Nat
  BY DEF Row
<1>3. CASE c = "started"
  <2>1. op # "start" /\ (op = "retry" => ~v.started)
    BY <1>3 DEF Columns
  <2>2. After(op, v).started = (op = "start" \/ (v.started /\ op # "retry"))
    BY DEF After
  <2> QED
    BY <1>2, <1>3, <2>1, <2>2
<1>4. CASE c = "ended"
  <2>1. op \notin Ending /\ (op = "retry" => ~v.ended)
    BY <1>4 DEF Columns
  <2>2. After(op, v).ended = (op \in Ending \/ (v.ended /\ op # "retry"))
    BY DEF After
  <2> QED
    BY <1>2, <1>4, <2>1, <2>2
<1>5. CASE c = "retries"
  <2>1. op # "retry"
    BY <1>5 DEF Columns
  <2>2. After(op, v).retries = IF op = "retry" THEN v.retries + 1 ELSE v.retries
    BY DEF After
  <2> QED
    BY <1>5, <2>1, <2>2
<1> QED
  BY <1>1, <1>3, <1>4, <1>5

\* A session that a step leaves alone stays as it was.
LEMMA BasisKept ==
    ASSUME BasisInv, NEW s \in Session,
           at'[s] = at[s], target'[s] = target[s], doing'[s] = doing[s],
           basis'[s] = basis[s], sent'[s] = sent[s], draft'[s] = draft[s],
           at[s] = "update" => held'[s] = held[s]
    PROVE  at'[s] # "idle" =>
              /\ basis'[s].status \in From[doing'[s]]
              /\ sent'[s] = Columns(doing'[s], basis'[s])
              /\ at'[s] = "update" => held'[s][target'[s]] = Outcome(s)'
              /\ Written(s)' => \A c \in sent'[s] : draft'[s][c] = Outcome(s)'[c]
BY DEF BasisInv, Outcome, Written

LEMMA BasisStep ==
    ASSUME SInv, BasisInv, [Next]_svars
    PROVE  BasisInv'
<1>0. /\ at \in [Session -> Places] /\ target \in [Session -> Execution]
      /\ doing \in [Session -> AllOperations] /\ draft \in [Session -> Row]
      /\ held \in [Session -> [Execution -> Row]] /\ sent \in [Session -> SUBSET Column]
      /\ basis \in [Session -> Row] /\ row \in [Execution -> Row]
  BY DEF SInv, TypeOK, Column
<1> SUFFICES ASSUME NEW z \in Session, at'[z] # "idle"
             PROVE  /\ basis'[z].status \in From[doing'[z]]
                    /\ sent'[z] = Columns(doing'[z], basis'[z])
                    /\ at'[z] = "update" => held'[z][target'[z]] = Outcome(z)'
                    /\ Written(z)' =>
                          \A c \in sent'[z] : draft'[z][c] = Outcome(z)'[c]
  BY DEF BasisInv
<1>1. CASE UNCHANGED svars
  BY <1>1, BasisKept DEF svars
<1>3. CASE \E e \in Execution : Create(e)
  BY <1>3, BasisKept DEF Create
<1>4. ASSUME NEW s \in Session, NEW e \in Execution, NEW op \in AllOperations,
             Call(s, e, op)
      PROVE  /\ basis'[z].status \in From[doing'[z]]
             /\ sent'[z] = Columns(doing'[z], basis'[z])
             /\ at'[z] = "update" => held'[z][target'[z]] = Outcome(z)'
             /\ Written(z)' => \A c \in sent'[z] : draft'[z][c] = Outcome(z)'[c]
  <2>1. CASE z # s
    BY <1>0, <1>4, <2>1, BasisKept DEF Call
  <2>2. CASE z = s
    <3>1. /\ at'[s] = "update" /\ doing'[s] = op /\ target'[s] = e
          /\ basis'[s] = Loaded(s, e) /\ sent'[s] = Columns(op, Loaded(s, e))
          /\ held'[s][e] = After(op, Loaded(s, e))
          /\ Loaded(s, e).status \in From[op]
      BY <1>0, <1>4 DEF Call
    <3>2. Outcome(s)' = After(op, Loaded(s, e))
      BY <3>1 DEF Outcome
    <3> QED
      BY <2>2, <3>1, <3>2 DEF Written
  <2> QED
    BY <2>1, <2>2
<1>5. ASSUME NEW s \in Session, NEW e \in Execution, NEW op \in AllOperations,
             Refuse(s, e, op)
      PROVE  /\ basis'[z].status \in From[doing'[z]]
             /\ sent'[z] = Columns(doing'[z], basis'[z])
             /\ at'[z] = "update" => held'[z][target'[z]] = Outcome(z)'
             /\ Written(z)' => \A c \in sent'[z] : draft'[z][c] = Outcome(z)'[c]
  <2>1. z # s /\ held'[z] = held[z]
    BY <1>0, <1>5 DEF Refuse
  <2> QED
    BY <1>5, <2>1, BasisKept DEF Refuse
<1>6. ASSUME NEW s \in Session, Update(s)
      PROVE  /\ basis'[z].status \in From[doing'[z]]
             /\ sent'[z] = Columns(doing'[z], basis'[z])
             /\ at'[z] = "update" => held'[z][target'[z]] = Outcome(z)'
             /\ Written(z)' => \A c \in sent'[z] : draft'[z][c] = Outcome(z)'[c]
  <2>1. CASE z # s
    BY <1>0, <1>6, <2>1, BasisKept DEF Update
  <2>2. CASE z = s
    <3>1. /\ at[s] = "update" /\ at'[s] = "refresh" /\ UNCHANGED <<doing, basis, sent>>
          /\ draft'[s] = Overwrite(row[target[s]], held[s][target[s]], sent[s])
      BY <1>0, <1>6 DEF Update
    <3>2. /\ basis[s].status \in From[doing[s]] /\ sent[s] = Columns(doing[s], basis[s])
          /\ held[s][target[s]] = Outcome(s)
      BY <3>1 DEF BasisInv
    <3>3. \A c \in sent[s] : draft'[s][c] = held[s][target[s]][c]
      <4>1. /\ row[target[s]] \in Row /\ held[s][target[s]] \in Row
            /\ sent[s] \in SUBSET Column
        BY <1>0
      <4>2. \A c \in Column :
               Overwrite(row[target[s]], held[s][target[s]], sent[s])[c] =
                  IF c \in sent[s] THEN held[s][target[s]][c] ELSE row[target[s]][c]
        BY <4>1, OverwriteColumns
      <4> QED
        BY <3>1, <4>1, <4>2
    <3>4. Outcome(s)' = Outcome(s)
      BY <3>1 DEF Outcome
    <3> QED
      BY <2>2, <3>1, <3>2, <3>3, <3>4
  <2> QED
    BY <2>1, <2>2
<1>7. ASSUME NEW s \in Session, Refresh(s)
      PROVE  /\ basis'[z].status \in From[doing'[z]]
             /\ sent'[z] = Columns(doing'[z], basis'[z])
             /\ at'[z] = "update" => held'[z][target'[z]] = Outcome(z)'
             /\ Written(z)' => \A c \in sent'[z] : draft'[z][c] = Outcome(z)'[c]
  <2>1. CASE z # s
    BY <1>0, <1>7, <2>1, BasisKept DEF Refresh
  <2>2. CASE z = s
    <3>1. /\ at[s] = "refresh" /\ at'[s] = "commit"
          /\ UNCHANGED <<doing, basis, sent, draft>>
      BY <1>0, <1>7 DEF Refresh
    <3>2. Outcome(s)' = Outcome(s)
      BY <3>1 DEF Outcome
    <3> QED
      BY <2>2, <3>1, <3>2 DEF BasisInv, Written
  <2> QED
    BY <2>1, <2>2
<1>8. ASSUME NEW s \in Session, Commit(s) \/ Rollback(s)
      PROVE  /\ basis'[z].status \in From[doing'[z]]
             /\ sent'[z] = Columns(doing'[z], basis'[z])
             /\ at'[z] = "update" => held'[z][target'[z]] = Outcome(z)'
             /\ Written(z)' => \A c \in sent'[z] : draft'[z][c] = Outcome(z)'[c]
  <2>1. z # s /\ held'[z] = held[z]
    BY <1>0, <1>8 DEF Commit, Rollback, EndTransaction
  <2> QED
    BY <1>0, <1>8, <2>1, BasisKept DEF Commit, Rollback, EndTransaction
<1>9. ASSUME NEW s \in Session, Forget(s)
      PROVE  /\ basis'[z].status \in From[doing'[z]]
             /\ sent'[z] = Columns(doing'[z], basis'[z])
             /\ at'[z] = "update" => held'[z][target'[z]] = Outcome(z)'
             /\ Written(z)' => \A c \in sent'[z] : draft'[z][c] = Outcome(z)'[c]
  <2>1. z # s /\ held'[z] = held[z]
    BY <1>0, <1>9 DEF Forget
  <2> QED
    BY <1>9, <2>1, BasisKept DEF Forget
<1> QED
  BY <1>1, <1>3, <1>4, <1>5, <1>6, <1>7, <1>8, <1>9 DEF Next, Proceed

\* What such a call commits is what its operation makes of the row.
LEMMA FreshCommit ==
    ASSUME SInv, BasisInv, NEW s \in Session, at[s] = "commit", basis[s] = row[target[s]]
    PROVE  draft[s] = After(doing[s], row[target[s]])
<1>1. /\ draft[s] \in Row /\ basis[s] \in Row /\ doing[s] \in AllOperations
      /\ doing[s] \in Operations(target[s])
  BY DEF SInv, TypeOK, CallFits
<1>2. ASSUME NEW c \in Column PROVE draft[s][c] = Outcome(s)[c]
  <2>1. CASE c \in sent[s]
    BY <2>1 DEF BasisInv, Written
  <2>2. CASE c \notin sent[s]
    <3>1. draft[s][c] = basis[s][c]
      BY <2>2 DEF SInv, RefreshIsCommitted, Column
    <3>2. Outcome(s)[c] = basis[s][c]
      BY <1>1, <2>2, UnnamedColumnsStay DEF BasisInv, Outcome
    <3> QED
      BY <3>1, <3>2
  <2> QED
    BY <2>1, <2>2
<1>3. Outcome(s) \in Row
  BY <1>1, AfterColumns DEF Outcome
<1>4. draft[s] = Outcome(s)
  BY <1>1, <1>2, <1>3 DEF Row, Column
<1> QED
  BY <1>4 DEF Outcome

(***************************************************************************)
(* A call whose row is still what it found takes the row along by exactly  *)
(* one step of the life cycle.                                             *)
(***************************************************************************)
THEOREM FreshCallsFollowTheLifecycle == Spec => FreshCallsAreSteps
<1> DEFINE Untouched(s) ==
              /\ at[s] = "commit" /\ row' # row
              /\ lock[target[s]] = {s} /\ lock'[target[s]] = {}
              /\ basis[s] = row[target[s]]
<1>1. Init => BasisInv
  BY DEF Init, BasisInv
<1>2. SInv /\ BasisInv /\ [Next]_svars => BasisInv'
  BY BasisStep
<1>3. SInv /\ BasisInv /\ [Next]_svars
          => [\A s \in Session : Untouched(s) => LMove(target[s], doing[s])]_svars
  <2> SUFFICES ASSUME SInv, BasisInv, Next, NEW s \in Session, Untouched(s)
               PROVE  LMove(target[s], doing[s])
    OBVIOUS
  <2>0. target[s] \in Execution /\ s \in Session /\ lock \in [Execution -> SUBSET Session]
    BY DEF SInv, TypeOK
  <2>1. PICK z \in Session : Commit(z)
    BY <2>0 DEF Next, Proceed, Create, Call, Refuse, Update, Refresh, Rollback, Forget
  <2>2. /\ lock' = [lock EXCEPT ![target[z]] = {}] /\ at[z] = "commit"
        /\ row' = [row EXCEPT ![target[z]] = draft[z]]
    BY <2>1 DEF Commit
  <2>3. target[z] = target[s]
    BY <2>0, <2>2
  <2>4. z = s
    BY <2>2, <2>3 DEF SInv, UpdateSent, Written
  <2>5. row' = [row EXCEPT ![target[s]] = After(doing[s], row[target[s]])]
    BY <2>2, <2>4, FreshCommit
  <2>6. row[target[s]].status \in From[doing[s]]
    BY DEF BasisInv
  <2> QED
    BY <2>5, <2>6 DEF LMove
<1> QED
  BY <1>1, <1>2, <1>3, ServiceInvariant, PTL DEF Spec, FreshCallsAreSteps
===============================================================================
