----------------------- MODULE ExecutionStatisticsProofs -----------------------
(***************************************************************************)
(* Proofs about ExecutionStatistics, for any set of executions, however    *)
(* often they move between two queries and however old the objects are on  *)
(* which the other sessions checked what they write.                       *)
(***************************************************************************)
EXTENDS ExecutionStatistics, TLAPS

\* The count of the status of e is still to come.
Ahead(e) == \E i \in 1 .. 6 : i >= next /\ StatusOrder[i] = row[e].status

IsCounted(e) == \E s \in Statuses : <<e, s>> \in counted

\* Whatever is undisturbed and not counted yet lies ahead: no transition of the
\* life cycle leads back over the query that comes next.
CountedOrAhead ==
    next > 0 => \A e \in existed \ disturbed : /\ row[e].status \in Statuses
                                               /\ IsCounted(e) \/ Ahead(e)

\* An undisturbed execution that was counted in a final status is still in it.
FinalIsKept ==
    \A c \in counted : c[2] \in Terminal /\ c[1] \notin disturbed =>
        row[c[1]].status = c[2]

\* Where somebody holds an object that says RUNNING, the row has started_at,
\* whatever it says by now; so whoever is written COMPLETED has both timestamps.
CompletedIsTimed ==
    \A e \in Workflows :
        /\ "RUNNING" \in past[e] \/ e \in executing => row[e].started
        /\ row[e].status = "RUNNING" => row[e].started
        /\ row[e].status = "COMPLETED" => row[e].started /\ row[e].ended
        /\ row[e] = Absent => past[e] = {} /\ e \notin executing

SInv == TypeOK /\ CountedOrAhead /\ FinalIsKept /\ CompletedIsTimed
        /\ CompletedHaveAverage

LEMMA OrderFacts ==
    /\ StatusOrder[1] = "PENDING" /\ StatusOrder[2] = "RUNNING"
    /\ StatusOrder[3] = "COMPLETED" /\ StatusOrder[4] = "FAILED"
    /\ StatusOrder[5] = "SKIPPED" /\ StatusOrder[6] = "CANCELLED"
BY DEF StatusOrder

LEMMA InitSInv == Init => SInv
<1> SUFFICES ASSUME Init
             PROVE  SInv
  OBVIOUS
<1>1. TypeOK
  BY NodeRowsAssumption DEF Init, LInit, TypeOK, Absent, Row, Workflows
<1>2. CompletedIsTimed
  BY NodeRowsAssumption DEF Init, LInit, CompletedIsTimed, Absent, Workflows
<1> QED
  BY <1>1, <1>2
     DEF Init, SInv, CountedOrAhead, FinalIsKept, CompletedHaveAverage

\* One execution moves: it appears, follows its life cycle, or is disturbed.
Moves(e) ==
    /\ UNCHANGED queries
    /\ row' = [row EXCEPT ![e] = row'[e]]
    /\ row'[e] \in Row
    /\ row'[e].status \in Statuses
    /\ overtaken \subseteq overtaken' /\ overtaken' \subseteq overtaken \cup {e}
    /\ disturbed' \subseteq disturbed \cup {e} /\ disturbed \subseteq disturbed'
    /\ disturbed' \subseteq overtaken'
    /\ \/ /\ row[e].status = "absent" /\ row'[e].status \in {"PENDING", "RUNNING"}
       \/ e \in disturbed'
       \/ row[e].status = "PENDING" /\ row'[e].status = "RUNNING"
       \/ row[e].status = "RUNNING" /\ row'[e].status \in {"COMPLETED", "FAILED"}
       \/ row[e].status \in {"PENDING", "RUNNING"} /\ row'[e].status = "CANCELLED"

\* What the timestamps and the objects have to do with each other after a move.
StaysTimed(e) ==
    /\ past' = [past EXCEPT ![e] = past'[e]]
    /\ past'[e] \in SUBSET {"PENDING", "RUNNING"}
    /\ executing' \subseteq executing \cup {e}
    /\ row'[e] # Absent
    /\ "RUNNING" \in past'[e] \/ e \in executing' => row'[e].started
    /\ row'[e].status = "RUNNING" => row'[e].started
    /\ row'[e].status = "COMPLETED" => row'[e].started /\ row'[e].ended

LEMMA Appearing ==
    ASSUME TypeOK, CompletedIsTimed, NEW e \in Workflows, Create(e) \/ Execute(e)
    PROVE  Moves(e) /\ StaysTimed(e)
<1>1. e \in Execution /\ row \in [Execution -> Row]
      /\ past \in [Workflows -> SUBSET {"PENDING", "RUNNING"}]
      /\ executing \subseteq Workflows /\ disturbed \subseteq overtaken
  BY DEF Workflows, TypeOK
<1>2. CASE Create(e)
  <2>1. row[e] = Absent /\ row' = [row EXCEPT ![e] = Fresh]
    BY <1>2 DEF Create, LCreate
  <2>2. row'[e] = Fresh /\ past' = [past EXCEPT ![e] = {"PENDING"}]
        /\ past'[e] = {"PENDING"}
    BY <1>1, <1>2, <2>1 DEF Create
  <2>3. e \notin executing
    BY <2>1 DEF CompletedIsTimed
  <2> QED
    BY <1>1, <1>2, <2>1, <2>2, <2>3
       DEF Create, Moves, StaysTimed, Fresh, Absent, Row, Statuses
<1>3. CASE Execute(e)
  <2>1. PICK status \in {"PENDING", "RUNNING"} :
          /\ row' = [row EXCEPT ![e] = [Fresh EXCEPT !.status = status,
                                                     !.started = TRUE]]
          /\ past' = [past EXCEPT ![e] = {status}]
          /\ executing' = executing \cup {x \in {e} : status = "RUNNING"}
    BY <1>3 DEF Execute
  <2>2. row'[e] = [Fresh EXCEPT !.status = status, !.started = TRUE]
        /\ past'[e] = {status}
    BY <1>1, <2>1
  <2>3. /\ row'[e].status = status /\ row'[e].started /\ row'[e] \in Row
    <3>1. row'[e] = [status |-> status, started |-> TRUE, ended |-> FALSE,
                     retries |-> 0]
      BY <2>2 DEF Fresh
    <3> QED
      BY <3>1 DEF Row, Statuses
  <2>3a. row'[e] # Absent
    BY <2>3 DEF Absent
  <2>4. row[e].status = "absent" /\ UNCHANGED <<overtaken, disturbed, queries>>
    BY <1>3 DEF Execute, Absent
  <2>5. row' = [row EXCEPT ![e] = row'[e]] /\ past' = [past EXCEPT ![e] = past'[e]]
    BY <2>1, <2>2
  <2> QED
    BY <1>1, <2>1, <2>2, <2>3, <2>3a, <2>4, <2>5 DEF Moves, StaysTimed, Statuses
<1> QED
  BY <1>2, <1>3

LEMMA Writing ==
    ASSUME TypeOK, CompletedIsTimed, NEW e \in Workflows, NEW op \in Operations(e),
           Write(e, op)
    PROVE  Moves(e) /\ StaysTimed(e)
<1>1. e \in Execution /\ row \in [Execution -> Row] /\ row[e] \in Row
      /\ past \in [Workflows -> SUBSET {"PENDING", "RUNNING"}]
      /\ executing \subseteq Workflows /\ disturbed \subseteq overtaken
  BY DEF Workflows, TypeOK
<1>2. op \in {"start", "complete", "fail", "cancel"}
  BY DEF Operations, Workflows
<1>3. /\ past[e] \cap From[op] # {}
      /\ row' = [row EXCEPT ![e] = After(op, row[e])]
      /\ past' = [past EXCEPT ![e] = past[e] \cup ({To[op]} \ Terminal)]
      /\ UNCHANGED <<executing, queries>>
  BY DEF Write
<1>4. /\ row'[e] = After(op, row[e])
      /\ past'[e] = past[e] \cup ({To[op]} \ Terminal)
  BY <1>1, <1>3
<1>5. /\ row' = [row EXCEPT ![e] = row'[e]] /\ past' = [past EXCEPT ![e] = past'[e]]
  BY <1>3, <1>4
<1>6. row'[e] \in Row
  BY <1>1, <1>2, <1>4 DEF After, Row, To, Ending, Statuses, Terminal
<1>7. row'[e].status = To[op]
  BY <1>4 DEF After
<1>8. /\ op = "start" => row'[e].started
      /\ row[e].started => row'[e].started
      /\ op = "complete" => row'[e].ended
  <2>1. row[e].started \in BOOLEAN /\ row[e].ended \in BOOLEAN
    BY <1>1 DEF Row
  <2>2. /\ row'[e].started = (op = "start" \/ (row[e].started /\ op # "retry"))
        /\ row'[e].ended = (op \in Ending \/ (row[e].ended /\ op # "retry"))
    BY <1>4 DEF After
  <2>3. op = "complete" => op \in Ending
    BY DEF Ending
  <2> QED
    BY <1>2, <2>1, <2>2, <2>3
<1>9. op = "complete" => row[e].started
  BY <1>3 DEF From, CompletedIsTimed
<1>10. /\ overtaken' = overtaken \cup {x \in {e} : row[x].status \notin From[op]}
       /\ disturbed' = disturbed \cup {x \in {e} : row[x].status \notin From[op]}
  BY DEF Write, Note
<1>11. Moves(e)
  <2>1. /\ overtaken \subseteq overtaken' /\ overtaken' \subseteq overtaken \cup {e}
        /\ disturbed' \subseteq disturbed \cup {e} /\ disturbed \subseteq disturbed'
        /\ disturbed' \subseteq overtaken'
    BY <1>1, <1>10
  <2>2. row'[e].status \in Statuses
    BY <1>2, <1>7 DEF To, Statuses, Terminal
  <2>3. \/ e \in disturbed'
        \/ row[e].status = "PENDING" /\ row'[e].status = "RUNNING"
        \/ row[e].status = "RUNNING" /\ row'[e].status \in {"COMPLETED", "FAILED"}
        \/ row[e].status \in {"PENDING", "RUNNING"} /\ row'[e].status = "CANCELLED"
    <3>1. CASE row[e].status \notin From[op]
      BY <1>10, <3>1
    <3>2. CASE row[e].status \in From[op]
      BY <1>2, <1>7, <3>2 DEF From, To
    <3> QED
      BY <3>1, <3>2
  <2> QED
    BY <1>3, <1>5, <1>6, <2>1, <2>2, <2>3 DEF Moves
<1>12. StaysTimed(e)
  <2>1. past'[e] \in SUBSET {"PENDING", "RUNNING"}
    BY <1>1, <1>2, <1>4 DEF To, Terminal
  <2>2. row'[e] # Absent
    BY <1>2, <1>7 DEF To, Absent
  <2>3. "RUNNING" \in past'[e] => "RUNNING" \in past[e] \/ op = "start"
    BY <1>2, <1>4 DEF To, Terminal
  <2>4. "RUNNING" \in past'[e] \/ e \in executing' => row'[e].started
    BY <1>3, <1>8, <2>3 DEF CompletedIsTimed
  <2>5. row'[e].status = "RUNNING" => row'[e].started
    BY <1>2, <1>7, <1>8 DEF To
  <2>6. row'[e].status = "COMPLETED" => row'[e].started /\ row'[e].ended
    BY <1>2, <1>7, <1>8, <1>9 DEF To
  <2> QED
    BY <1>3, <1>5, <2>1, <2>2, <2>4, <2>5, <2>6 DEF StaysTimed
<1> QED
  BY <1>11, <1>12

LEMMA Finishing ==
    ASSUME TypeOK, CompletedIsTimed, NEW e \in Workflows, Finish(e)
    PROVE  Moves(e) /\ StaysTimed(e)
<1>1. e \in Execution /\ row \in [Execution -> Row] /\ row[e] \in Row
      /\ past \in [Workflows -> SUBSET {"PENDING", "RUNNING"}]
      /\ executing \subseteq Workflows /\ disturbed \subseteq overtaken
  BY DEF Workflows, TypeOK
<1>2. /\ e \in executing
      /\ row' = [row EXCEPT ![e].status = "COMPLETED", ![e].ended = TRUE]
      /\ executing' = executing \ {e}
      /\ UNCHANGED <<past, queries>>
  BY DEF Finish
<1>3. row'[e] = [row[e] EXCEPT !.status = "COMPLETED", !.ended = TRUE]
  BY <1>1, <1>2
<1>4. /\ row' = [row EXCEPT ![e] = row'[e]] /\ past' = [past EXCEPT ![e] = past'[e]]
  BY <1>1, <1>2, <1>3
<1>5. /\ row'[e].status = "COMPLETED" /\ row'[e].ended
      /\ row'[e].started = row[e].started /\ row'[e] \in Row
  BY <1>1, <1>3 DEF Row, Statuses, Terminal
<1>6. row[e].started
  BY <1>2 DEF CompletedIsTimed
<1>6a. row'[e] # Absent
  BY <1>5 DEF Absent
<1>7. /\ overtaken' = overtaken \cup {x \in {e} : row[x].status \notin {"RUNNING"}}
      /\ disturbed' = disturbed \cup {x \in {e} : row[x].status \notin {"RUNNING"}}
  BY DEF Finish, Note
<1>8. e \in disturbed' \/ row[e].status = "RUNNING"
  BY <1>7
<1>9. /\ overtaken \subseteq overtaken' /\ overtaken' \subseteq overtaken \cup {e}
      /\ disturbed' \subseteq disturbed \cup {e} /\ disturbed \subseteq disturbed'
      /\ disturbed' \subseteq overtaken'
  BY <1>1, <1>7
<1>10. Moves(e)
  BY <1>2, <1>4, <1>5, <1>8, <1>9 DEF Moves, Statuses, Terminal
<1>11. StaysTimed(e)
  BY <1>1, <1>2, <1>4, <1>5, <1>6, <1>6a DEF StaysTimed
<1> QED
  BY <1>10, <1>11

LEMMA NextSInv == SInv /\ [Next]_stvars => SInv'
<1> SUFFICES ASSUME SInv, [Next]_stvars
             PROVE  SInv'
  OBVIOUS
<1> USE NodeRowsAssumption DEF SInv
<1>1. CASE Ask
  <2>1. TypeOK'
    BY <1>1 DEF Ask, others, TypeOK, Existing
  <2>2. CountedOrAhead'
    <3> SUFFICES ASSUME NEW e \in existed'
                 PROVE  row[e].status \in Statuses /\ Ahead(e)'
      BY <1>1 DEF Ask, others, CountedOrAhead
    <3>1. e \in Workflows /\ row[e].status # "absent"
      BY <1>1 DEF Ask, Existing
    <3>2. row[e].status \in Statuses
      BY <3>1 DEF TypeOK, Row, Workflows
    <3> QED
      BY <1>1, <3>2, OrderFacts DEF Ask, others, Ahead, Statuses, Terminal
  <2> QED
    BY <1>1, <2>1, <2>2
    DEF Ask, others, FinalIsKept, CompletedIsTimed, CompletedHaveAverage
<1>2. CASE CountStatus
  <2> DEFINE s == StatusOrder[next]
  <2>1. s \in Statuses /\ next \in 1 .. 6
    BY <1>2, OrderFacts DEF CountStatus, Statuses, Terminal
  <2>2. TypeOK'
    BY <1>2, <2>1 DEF CountStatus, others, TypeOK
  <2>3. CountedOrAhead'
    <3> SUFFICES ASSUME NEW e \in existed \ disturbed
                 PROVE  IsCounted(e)' \/ Ahead(e)'
      BY <1>2, <2>1 DEF CountStatus, others, CountedOrAhead
    <3>1. row[e].status \in Statuses /\ (IsCounted(e) \/ Ahead(e))
      BY <2>1 DEF CountedOrAhead
    <3>2. CASE IsCounted(e)
      BY <1>2, <3>2 DEF IsCounted, CountStatus
    <3>3. CASE row[e].status = s
      <4>1. e \in Workflows
        BY DEF TypeOK
      <4>2. <<e, s>> \in counted'
        BY <1>2, <3>3, <4>1 DEF CountStatus
      <4> QED
        BY <2>1, <4>2 DEF IsCounted
    <3>4. CASE Ahead(e) /\ row[e].status # s
      <4>1. PICK i \in 1 .. 6 : i >= next /\ StatusOrder[i] = row[e].status
        BY <3>4 DEF Ahead
      <4>2. i # next
        BY <4>1, <3>4
      <4>3. i >= next'
        BY <1>2, <2>1, <4>1, <4>2 DEF CountStatus
      <4> QED
        BY <1>2, <4>1, <4>3 DEF Ahead, CountStatus, others
    <3> QED
      BY <3>1, <3>2, <3>3, <3>4
  <2>4. FinalIsKept'
    BY <1>2 DEF FinalIsKept, CountStatus, others
  <2>5. CompletedIsTimed' /\ CompletedHaveAverage'
    BY <1>2, <2>1 DEF CompletedIsTimed, CompletedHaveAverage, CountStatus,
                       others
  <2> QED
    BY <2>2, <2>3, <2>4, <2>5
<1>3. CASE QueryAverage
  <2>1. TypeOK'
    BY <1>3 DEF QueryAverage, others, TypeOK
  <2>2. CountedOrAhead'
    <3> SUFFICES ASSUME NEW e \in existed \ disturbed
                 PROVE  IsCounted(e)
      <4>1. /\ UNCHANGED <<row, counted, existed, disturbed>>
            /\ next > 0
        BY <1>3 DEF QueryAverage, others
      <4> QED
        BY <4>1 DEF CountedOrAhead, IsCounted
    <3>1. ~Ahead(e)
      BY <1>3 DEF QueryAverage, Ahead
    <3> QED
      BY <1>3, <3>1 DEF QueryAverage, CountedOrAhead
  <2>3. CompletedHaveAverage'
    <3> SUFFICES ASSUME NEW c \in counted, c[2] = "COMPLETED",
                        c[1] \notin disturbed
                 PROVE  average' # "NULL" /\ (overtaken = {} => average' = "value")
      BY <1>3 DEF QueryAverage, others, CompletedHaveAverage
    <3>1. row[c[1]].status = "COMPLETED" /\ c[1] \in Workflows
      BY DEF FinalIsKept, Terminal, TypeOK
    <3>2. c[1] \in Timed
      BY <3>1 DEF Timed, CompletedIsTimed
    <3> QED
      BY <1>3, <3>2 DEF QueryAverage
  <2> QED
    BY <1>3, <2>1, <2>2, <2>3
    DEF QueryAverage, others, FinalIsKept, CompletedIsTimed
<1>4. ASSUME NEW e \in Workflows, Moves(e), StaysTimed(e)
      PROVE  SInv'
  <2>1. /\ next' = next /\ counted' = counted /\ average' = average
        /\ existed' = existed
    BY <1>4 DEF Moves, queries
  <2>2. e \in Execution /\ row \in [Execution -> Row]
        /\ past \in [Workflows -> SUBSET {"PENDING", "RUNNING"}]
        /\ executing \subseteq Workflows /\ existed \subseteq Workflows
        /\ disturbed \subseteq overtaken /\ overtaken \subseteq Workflows
    BY DEF Workflows, TypeOK
  <2>3. /\ \A x \in Execution : x # e => row'[x] = row[x]
        /\ \A x \in Workflows : x # e => past'[x] = past[x]
    BY <1>4, <2>2 DEF Moves, StaysTimed
  <2>4. TypeOK'
    <3>1. row' \in [Execution -> Row]
      BY <1>4, <2>2 DEF Moves
    <3>2. past' \in [Workflows -> SUBSET {"PENDING", "RUNNING"}]
      BY <1>4, <2>2 DEF StaysTimed
    <3>3. /\ executing' \subseteq Workflows /\ overtaken' \subseteq Workflows
          /\ disturbed' \subseteq overtaken'
      BY <1>4, <2>2 DEF Moves, StaysTimed
    <3> QED
      BY <2>1, <3>1, <3>2, <3>3 DEF TypeOK
  <2>5. CountedOrAhead'
    <3> SUFFICES ASSUME NEW x \in existed \ disturbed', next > 0
                 PROVE  row'[x].status \in Statuses /\ (IsCounted(x)' \/ Ahead(x)')
      BY <2>1 DEF CountedOrAhead
    <3>1. /\ row[x].status \in Statuses /\ (IsCounted(x) \/ Ahead(x))
          /\ x \in Execution
      BY <1>4, <2>2 DEF CountedOrAhead, Workflows, Moves
    <3>2. CASE x # e
      BY <2>1, <2>3, <3>1, <3>2 DEF IsCounted, Ahead
    <3>3. CASE x = e
      <4>1. row'[x].status \in Statuses
        BY <1>4, <3>3 DEF Moves
      <4>2. CASE IsCounted(x)
        BY <2>1, <4>1, <4>2 DEF IsCounted
      <4>3. CASE Ahead(x)
        <5>1. PICK i \in 1 .. 6 : i >= next /\ StatusOrder[i] = row[e].status
          BY <3>3, <4>3 DEF Ahead
        <5>2. next \in 0 .. 8
          BY DEF TypeOK
        <5>3. \/ row[e].status = "PENDING" /\ row'[e].status = "RUNNING"
              \/ row[e].status = "RUNNING" /\ row'[e].status \in {"COMPLETED", "FAILED"}
              \/ row[e].status \in {"PENDING", "RUNNING"}
                 /\ row'[e].status = "CANCELLED"
          BY <1>4, <3>1, <3>3 DEF Moves, Statuses, Terminal
        <5>4. \E j \in 1 .. 6 : j >= i /\ StatusOrder[j] = row'[e].status
          BY <5>1, <5>3, OrderFacts
        <5> QED
          BY <2>1, <3>3, <4>1, <5>1, <5>2, <5>4 DEF Ahead
      <4> QED
        BY <3>1, <4>1, <4>2, <4>3
    <3> QED
      BY <3>2, <3>3
  <2>6. FinalIsKept'
    <3> SUFFICES ASSUME NEW c \in counted, c[2] \in Terminal, c[1] \notin disturbed'
                 PROVE  row'[c[1]].status = c[2]
      BY <2>1 DEF FinalIsKept
    <3>1. row[c[1]].status = c[2] /\ c[1] \in Execution
      BY <1>4 DEF FinalIsKept, TypeOK, Workflows, Moves
    <3>2. c[1] # e
      BY <1>4, <3>1 DEF Terminal, Moves
    <3> QED
      BY <2>3, <3>1, <3>2
  <2>7. CompletedIsTimed'
    <3> SUFFICES ASSUME NEW x \in Workflows
                 PROVE  /\ "RUNNING" \in past'[x] \/ x \in executing' => row'[x].started
                        /\ row'[x].status = "RUNNING" => row'[x].started
                        /\ row'[x].status = "COMPLETED" =>
                              row'[x].started /\ row'[x].ended
                        /\ row'[x] = Absent => past'[x] = {} /\ x \notin executing'
      BY DEF CompletedIsTimed
    <3>1. CASE x # e
      BY <1>4, <2>3, <3>1 DEF CompletedIsTimed, Workflows, StaysTimed
    <3>2. CASE x = e
      BY <1>4, <3>2 DEF StaysTimed
    <3> QED
      BY <3>1, <3>2
  <2>8. CompletedHaveAverage'
    BY <1>4, <2>1 DEF CompletedHaveAverage, Moves
  <2> QED
    BY <2>4, <2>5, <2>6, <2>7, <2>8
<1>5. CASE UNCHANGED stvars
  BY <1>5 DEF stvars, others, queries, TypeOK, CountedOrAhead, IsCounted, Ahead,
              FinalIsKept, CompletedIsTimed, CompletedHaveAverage
<1> QED
  BY <1>1, <1>2, <1>3, <1>4, <1>5, Appearing, Writing, Finishing DEF Next

LEMMA StatisticsInvariant == Spec => []SInv
<1>1. Init => SInv
  BY InitSInv
<1>2. SInv /\ [Next]_stvars => SInv'
  BY NextSInv
<1> QED
  BY <1>1, <1>2, PTL DEF Spec

(***************************************************************************)
(* The six counts of get_statistics miss no execution that existed when    *)
(* they began, whatever moves while they run and whatever happened before: *)
(* only one that is written over meanwhile, in a status that forbids it,   *)
(* can slip through.                                                       *)
(***************************************************************************)
THEOREM NobodyMissed == Spec => []NoneMissed
<1>1. SInv => NoneMissed
  BY DEF SInv, NoneMissed, CountedOrAhead, IsCounted, Ahead
<1> QED
  BY <1>1, StatisticsInvariant, PTL

(***************************************************************************)
(* Who is counted in two final statuses was written over while the counts  *)
(* ran: the denominator of success_rate counts every other execution once. *)
(***************************************************************************)
THEOREM CountedFinalOnce == Spec => []FinalOnce
<1>1. SInv => FinalOnce
  <2> SUFFICES ASSUME SInv, NEW c \in counted, NEW d \in counted,
                      c[1] = d[1], c[1] \notin disturbed,
                      c[2] \in Terminal, d[2] \in Terminal
               PROVE  c = d
    BY DEF FinalOnce
  <2>1. c[2] = d[2]
    BY DEF SInv, FinalIsKept
  <2>2. c \in Workflows \X Statuses /\ d \in Workflows \X Statuses
    BY DEF SInv, TypeOK
  <2> QED
    BY <2>1, <2>2
<1> QED
  BY <1>1, StatisticsInvariant, PTL

(***************************************************************************)
(* A completed execution that was counted and not written over since is    *)
(* still there for the average, with both timestamps; and if no execution  *)
(* was ever written over, an average is reported.                          *)
(***************************************************************************)
THEOREM AverageIsThere == Spec => []CompletedHaveAverage
<1>1. SInv => CompletedHaveAverage
  BY DEF SInv
<1> QED
  BY <1>1, StatisticsInvariant, PTL
===============================================================================
