--------------------------- MODULE ResourcesProofs ---------------------------
(***************************************************************************)
(* Proofs about ResourceReferences, for any number of tools, agents, nodes *)
(* and requests, and about UserAccounts, for any number of users,          *)
(* addresses and concurrent operations.                                    *)
(***************************************************************************)
EXTENDS ResourceReferences, UserAccounts, TLAPS

------------------------------------------------------------------------------
(* Tools and agents *)

Ops == {None, "update", "delete", "add", "remove", "cleanup"}
UnderWay == {"loaded", "checked"}

RowType == [exists : BOOLEAN, active : BOOLEAN, deleted : BOOLEAN]
RequestType ==
    [op : Ops, target : Resource \cup {None}, tool : Tool \cup {None},
     at : {"start", "end"} \cup UnderWay, active : BOOLEAN, read : SUBSET Resource,
     answer : {None, "done", "missing", "refused", "error"}]

Typed ==
    /\ row \in [Resource -> RowType]
    /\ tools \in [Agent -> SUBSET Tool]
    /\ node \in [Node -> Resource \cup {None}]
    /\ live \in BOOLEAN
    /\ req \in [Request -> RequestType]
    /\ ledger \in [Agent \X Tool -> Int]
    /\ held \in [Request -> SUBSET (Node \cup Agent)]
    /\ crossed \subseteq Resource

\* What a request has read fits what it is about to do.
Prepared(r) ==
    /\ req[r].at = "start" => req[r].op = None /\ req[r].answer = None
    /\ req[r].at \in UnderWay => req[r].answer = None /\ req[r].target \in Resource
    /\ req[r].at = "checked" => req[r].op = "delete"
    /\ req[r].at = "loaded" /\ req[r].op \in {"add", "remove"} =>
          req[r].target \in Agent /\ req[r].tool \in Tool
    /\ req[r].at = "loaded" /\ req[r].op = "cleanup" =>
          req[r].target \in Tool /\ req[r].read \subseteq Agent
    /\ req[r].at \in UnderWay /\ req[r].op # "cleanup" => row[req[r].target].exists

\* The nodes that have named the target all the time still do, and a deletion that
\* passed its check has none.
NodesWatched(r) ==
    /\ req[r].at \in UnderWay => held[r] \cap Node \subseteq NodesNaming(req[r].target)
    /\ req[r].op = "delete" /\ (req[r].at = "checked" \/ req[r].answer = "done") =>
          held[r] \cap Node = {}

\* The table of pairs, and what was reported of each.
LedgerIsRight ==
    \A a \in Agent, t \in Tool : ledger[<<a, t>>] = IF t \in tools[a] THEN 1 ELSE 0

\* A removal has loaded every agent that has had the tool all the time.
AgentsWatched(r) ==
    /\ req[r].at = "loaded" /\ req[r].op = "cleanup" => held[r] \cap Agent \subseteq req[r].read
    /\ req[r].at = "loaded" /\ req[r].op = "remove" =>
          held[r] \cap Agent \subseteq IF req[r].tool \in req[r].read THEN {req[r].target} ELSE {}
    /\ req[r].op \in {"remove", "cleanup"} /\ req[r].answer = "done" =>
          held[r] \cap Agent = {}

\* An update and a deletion under way, and an update that has been overtaken by a
\* deletion, cross; the flag a deletion has loaded is FALSE for an active row only
\* when an update crossed it.
Crossing(r) ==
    /\ req[r].at \in UnderWay /\ req[r].op = "update" =>
          /\ \A q \in Request : req[q].at \in UnderWay /\ req[q].op = "delete"
                                  /\ req[q].target = req[r].target
                                  => req[r].target \in crossed
          /\ row[req[r].target].deleted => req[r].target \in crossed
    /\ req[r].at \in UnderWay /\ req[r].op = "delete" /\ ~req[r].active
         /\ row[req[r].target].active => req[r].target \in crossed

RInv ==
    /\ Typed
    /\ \A r \in Request : Prepared(r)
    /\ \A r \in Request : NodesWatched(r)
    /\ \A r \in Request : Crossing(r)
    /\ \A r \in Request : AgentsWatched(r)
    /\ LedgerIsRight
    /\ DeletedIsInactive

LEMMA InitRInv == Init => RInv
<1> SUFFICES ASSUME Init PROVE RInv
  OBVIOUS
<1>1. Typed
  <2>1. tools \in [Agent -> SUBSET Tool]
    BY DEF Init
  <2>2. [exists |-> TRUE, active |-> TRUE, deleted |-> FALSE] \in RowType
    BY DEF RowType
  <2>3. [exists |-> FALSE, active |-> FALSE, deleted |-> FALSE] \in RowType
    BY DEF RowType
  <2>7. row \in [Resource -> RowType]
    BY <2>2, <2>3 DEF Init
  <2>4. Unborn \in RequestType
    BY DEF RequestType, Unborn, Ops
  <2>5. req \in [Request -> RequestType]
    BY <2>4 DEF Init
  <2>6. ledger \in [Agent \X Tool -> Int]
    BY DEF Init
  <2> QED BY <2>1, <2>5, <2>6, <2>7 DEF Typed, Init
<1>2. \A r \in Request : req[r] = Unborn /\ held[r] = {}
  BY DEF Init
<1>3. \A r \in Request : Prepared(r) /\ NodesWatched(r) /\ Crossing(r) /\ AgentsWatched(r)
  BY <1>2 DEF Prepared, NodesWatched, Crossing, AgentsWatched, Unborn, UnderWay
<1>4. LedgerIsRight
  <2> SUFFICES ASSUME NEW a \in Agent, NEW t \in Tool
               PROVE  ledger[<<a, t>>] = IF t \in tools[a] THEN 1 ELSE 0
    BY DEF LedgerIsRight
  <2> <<a, t>> \in Agent \X Tool /\ <<a, t>>[1] = a /\ <<a, t>>[2] = t
    OBVIOUS
  <2> QED BY DEF Init
<1>5. DeletedIsInactive
  BY DEF DeletedIsInactive, Init
<1> QED BY <1>1, <1>3, <1>4, <1>5 DEF RInv

FinalAnswers == {"done", "missing", "refused", "error"}

\* A request that ends disturbs nothing by ending.
LEMMA EndKeeps ==
    ASSUME RInv, NEW r \in Request, NEW answer \in FinalAnswers, Answer(r, answer),
           answer = "done" => req[r].op # "delete" \/ held[r] \cap Node = {},
           answer = "done" /\ req[r].op \in {"remove", "cleanup"} => held'[r] \cap Agent = {},
           UNCHANGED <<row, node, live, crossed>>,
           tools' \in [Agent -> SUBSET Tool], ledger' \in [Agent \X Tool -> Int],
           LedgerIsRight', StillHeld \/ held' = held
    PROVE  RInv'
<1>1. /\ req \in [Request -> RequestType]
      /\ req[r] \in RequestType
      /\ req' = [req EXCEPT ![r] = [req[r] EXCEPT !.at = "end", !.answer = answer]]
  BY DEF RInv, Typed, Answer
<1>2. /\ req'[r] \in RequestType
      /\ req'[r].at = "end" /\ req'[r].answer = answer /\ req'[r].op = req[r].op
      /\ req'[r].target = req[r].target
  BY <1>1 DEF RequestType, FinalAnswers
<1>3. /\ req' \in [Request -> RequestType]
      /\ \A q \in Request \ {r} : req'[q] = req[q]
  BY <1>1, <1>2
<1>4. \A q \in Request : held'[q] \subseteq held[q] /\ held' \in [Request -> SUBSET (Node \cup Agent)]
  BY DEF StillHeld, RInv, Typed
<1>5. Typed'
  BY <1>3, <1>4 DEF RInv, Typed
<1>6. ASSUME NEW q \in Request PROVE Prepared(q)'
  BY <1>2, <1>3, <1>6 DEF RInv, Prepared, UnderWay, FinalAnswers
<1>7. ASSUME NEW q \in Request PROVE NodesWatched(q)'
  <2>1. NodesWatched(q)
    BY DEF RInv
  <2>2. NodesNaming(req[q].target)' = NodesNaming(req'[q].target)
    BY DEF NodesNaming
  <2>3. CASE q = r
    BY <1>2, <1>4, <2>1, <2>3 DEF NodesWatched, UnderWay
  <2>4. CASE q # r
    BY <1>3, <1>4, <2>1, <2>4 DEF NodesWatched, UnderWay, NodesNaming
  <2> QED BY <2>3, <2>4
<1>8. ASSUME NEW q \in Request PROVE Crossing(q)'
  <2>1. Crossing(q)
    BY DEF RInv
  <2> QED BY <1>2, <1>3, <2>1 DEF Crossing, UnderWay
<1>9. DeletedIsInactive'
  BY DEF RInv, DeletedIsInactive
<1>10. ASSUME NEW q \in Request PROVE AgentsWatched(q)'
  <2>1. AgentsWatched(q)
    BY DEF RInv
  <2>2. CASE q = r
    BY <1>2, <2>1, <2>2 DEF AgentsWatched
  <2>3. CASE q # r
    BY <1>3, <1>4, <2>1, <2>3 DEF AgentsWatched
  <2> QED BY <2>2, <2>3
<1> QED BY <1>5, <1>6, <1>7, <1>8, <1>9, <1>10 DEF RInv

LEMMA RefuseKeeps ==
    ASSUME RInv, NEW r \in Request, NEW answer \in FinalAnswers \ {"done"}, Refuse(r, answer)
    PROVE  RInv'
<1>1. LedgerIsRight'
  BY DEF RInv, LedgerIsRight, Refuse
<1> QED BY <1>1, EndKeeps DEF Refuse, FinalAnswers, RInv, Typed

\* Loading starts a request; it may make an update and a deletion cross.
LEMMA LoadKeeps ==
    ASSUME RInv, NEW r \in Request, NEW op \in Ops, NEW x \in Resource,
           NEW t \in Tool \cup {None}, Load(r, op, x, t),
           op \in {"add", "remove"} => x \in Agent /\ t \in Tool,
           op = "cleanup" => x \in Tool
    PROVE  RInv'
<1> DEFINE found == op = "cleanup" \/ (row[x].exists /\ ~row[x].deleted)
           read == CASE op = "cleanup" -> AgentsUsing(x)
                     [] op # "cleanup" /\ x \in Agent -> tools[x]
                     [] OTHER -> {}
           loaded == [op |-> op, target |-> x, tool |-> t,
                      at |-> IF found THEN "loaded" ELSE "end",
                      active |-> found /\ row[x].active, read |-> read,
                      answer |-> IF found THEN None ELSE "missing"]
           rival == \E q \in Request : /\ req[q].at \in {"loaded", "checked"}
                                       /\ req[q].target = x
                                       /\ {op, req[q].op} = Rivals
<1>1. /\ req[r].at = "start"
      /\ req' = [req EXCEPT ![r] = loaded]
      /\ held' = [held EXCEPT ![r] = IF found THEN Watched(op, x, t) ELSE {}]
      /\ crossed' = IF found /\ rival THEN crossed \cup {x} ELSE crossed
      /\ UNCHANGED <<row, tools, node, live, ledger>>
  BY DEF Load
<1>2. read \subseteq Resource /\ (op = "cleanup" => read \subseteq Agent)
  BY DEF RInv, Typed, AgentsUsing, Resource
<1>3. loaded \in RequestType
  <2>1. (found /\ row[x].active) \in BOOLEAN
    BY Zenon
  <2> HIDE DEF read, found
  <2> QED BY <1>2, <2>1 DEF RequestType, UnderWay
<1>4. /\ req'[r] = loaded
      /\ \A q \in Request \ {r} : req'[q] = req[q]
      /\ req' \in [Request -> RequestType]
  BY <1>1, <1>3 DEF RInv, Typed
<1>5. /\ held'[r] = IF found THEN Watched(op, x, t) ELSE {}
      /\ \A q \in Request \ {r} : held'[q] = held[q]
      /\ held' \in [Request -> SUBSET (Node \cup Agent)]
  <2>1. Watched(op, x, t) \subseteq Node \cup Agent
    BY DEF Watched, Users, NodesNaming, AgentsUsing
  <2> HIDE DEF found
  <2> QED BY <1>1, <2>1 DEF RInv, Typed
<1>6. crossed \subseteq crossed' /\ crossed' \subseteq Resource
  BY <1>1 DEF RInv, Typed
<1>7. Typed'
  BY <1>1, <1>4, <1>5, <1>6 DEF RInv, Typed
<1>8. /\ loaded.op = op /\ loaded.target = x /\ loaded.tool = t /\ loaded.read = read
      /\ loaded.at = IF found THEN "loaded" ELSE "end"
      /\ loaded.answer = IF found THEN None ELSE "missing"
      /\ loaded.active = (found /\ row[x].active)
  OBVIOUS
<1> HIDE DEF loaded
<1>9. ASSUME NEW q \in Request PROVE Prepared(q)'
  <2>1. CASE q = r
    BY <1>1, <1>2, <1>4, <1>8, <2>1 DEF Prepared, UnderWay
  <2>2. CASE q # r
    BY <1>1, <1>4, <2>2 DEF Prepared, RInv
  <2> QED BY <2>1, <2>2
<1>10. ASSUME NEW q \in Request PROVE NodesWatched(q)'
  <2>1. CASE q = r
    <3>1. Watched(op, x, t) \cap Node \subseteq NodesNaming(x)
      BY KindsAssumption DEF Watched, Users, AgentsUsing
    <3>3. held'[q] \cap Node \subseteq NodesNaming(req[q].target)'
      <4>1. req'[q].target = x
        BY <1>4, <1>8, <2>1
      <4>2. NodesNaming(req[q].target)' = NodesNaming(x)
        BY <1>1, <4>1 DEF NodesNaming
      <4> QED BY <1>5, <2>1, <3>1, <4>2
    <3>4. found => req'[q].at = "loaded" /\ req'[q].answer = None
      BY <1>4, <1>8, <2>1
    <3>5. ~found => held'[q] = {}
      BY <1>5, <2>1
    <3> HIDE DEF found, rival, read
    <3> QED BY <3>3, <3>4, <3>5 DEF NodesWatched, None
  <2>2. CASE q # r
    BY <1>1, <1>4, <1>5, <2>2 DEF NodesWatched, RInv, NodesNaming
  <2> QED BY <2>1, <2>2
<1>11. ASSUME NEW q \in Request PROVE Crossing(q)'
  <2>1. Crossing(q)
    BY DEF RInv
  <2>2. CASE q = r
    <3>1. ASSUME op = "update", found, NEW p \in Request, req'[p].at \in UnderWay,
                 req'[p].op = "delete", req'[p].target = x
          PROVE  x \in crossed'
      <4>1. p # r
        BY <1>4, <1>8, <2>2, <3>1
      <4>2. rival
        BY <1>4, <3>1, <4>1 DEF Rivals, UnderWay
      <4> QED BY <1>1, <3>1, <4>2
    <3>2. op = "update" /\ found => ~row[x].deleted
      OBVIOUS
    <3> HIDE DEF rival
    <3> QED BY <1>1, <1>4, <1>8, <2>2, <3>1, <3>2 DEF Crossing, UnderWay
  <2>3. CASE q # r
    <3>1. ASSUME req[q].at \in UnderWay, req[q].op = "update", req[q].target = x,
                 op = "delete", found
          PROVE  x \in crossed'
      <4>1. rival
        BY <3>1 DEF Rivals, UnderWay
      <4> QED BY <1>1, <3>1, <4>1
    <3> HIDE DEF rival, found
    <3> QED BY <1>1, <1>4, <1>6, <1>8, <2>1, <2>3, <3>1 DEF Crossing, UnderWay
  <2> QED BY <2>2, <2>3
<1>12. LedgerIsRight' /\ DeletedIsInactive'
  BY <1>1, <1>6 DEF RInv, LedgerIsRight, DeletedIsInactive
<1>13. ASSUME NEW q \in Request PROVE AgentsWatched(q)'
  <2>1. CASE q = r
    <3>1. ASSUME op = "cleanup" PROVE Watched(op, x, t) \subseteq read
      BY <3>1 DEF Watched
    <3>2. ASSUME op = "remove"
          PROVE  Watched(op, x, t) \subseteq IF t \in read THEN {x} ELSE {}
      BY <3>2 DEF Watched
    <3>3. ~found => held'[q] = {}
      BY <1>5, <2>1
    <3>4. found => held'[q] = Watched(op, x, t)
      BY <1>5, <2>1
    <3> HIDE DEF found, rival, read
    <3> QED BY <1>4, <1>8, <2>1, <3>1, <3>2, <3>3, <3>4 DEF AgentsWatched, None
  <2>2. CASE q # r
    BY <1>1, <1>4, <1>5, <2>2 DEF AgentsWatched, RInv
  <2> QED BY <2>1, <2>2
<1> QED BY <1>7, <1>9, <1>10, <1>11, <1>12, <1>13 DEF RInv

------------------------------------------------------------------------------
(* The rows. *)

LEMMA CreateKeeps ==
    ASSUME RInv, NEW r \in Request, NEW x \in Resource, NEW complete \in BOOLEAN,
           Create(r, x, complete)
    PROVE  RInv'
<1>1. CASE Refuse(r, "refused")
  BY <1>1, RefuseKeeps DEF FinalAnswers
<1>2. CASE ~Refuse(r, "refused")
  <2>1. PICK active \in BOOLEAN :
          row' = [row EXCEPT ![x] = [exists |-> TRUE, active |-> active, deleted |-> FALSE]]
    BY <1>2 DEF Create
  <2>2. /\ req[r].at = "start" /\ ~row[x].exists /\ Answer(r, "done")
        /\ UNCHANGED <<tools, node, live, ledger, held, crossed>>
    BY <1>2 DEF Create
  <2>3. [exists |-> TRUE, active |-> active, deleted |-> FALSE] \in RowType
    BY DEF RowType
  <2>4. /\ row' \in [Resource -> RowType]
        /\ row'[x].exists /\ ~row'[x].deleted
        /\ \A y \in Resource \ {x} : row'[y] = row[y]
    BY <2>1, <2>3 DEF RInv, Typed
  <2>5. req[r] \in RequestType /\ req[r].op = None
    BY <2>2 DEF RInv, Typed, Prepared
  <2>6. /\ req'[r] \in RequestType /\ req'[r].at = "end" /\ req'[r].op = None
        /\ req' \in [Request -> RequestType]
        /\ \A q \in Request \ {r} : req'[q] = req[q]
    BY <2>2, <2>5 DEF Answer, RequestType, RInv, Typed
  <2>7. Typed'
    BY <2>2, <2>4, <2>6 DEF RInv, Typed
  <2>8. ASSUME NEW q \in Request PROVE Prepared(q)'
    <3>1. Prepared(q)
      BY DEF RInv
    <3>2. CASE q = r
      BY <2>6, <3>2 DEF Prepared, UnderWay
    <3>3. CASE q # r
      BY <2>4, <2>6, <3>1, <3>3 DEF Prepared
    <3> QED BY <3>2, <3>3
  <2>9. ASSUME NEW q \in Request PROVE NodesWatched(q)'
    <3>1. CASE q = r
      BY <2>6, <3>1 DEF NodesWatched, UnderWay, None
    <3>2. CASE q # r
      BY <2>2, <2>6, <3>2 DEF RInv, NodesWatched, NodesNaming
    <3> QED BY <3>1, <3>2
  <2>10. ASSUME NEW q \in Request PROVE Crossing(q)'
    <3>1. CASE q = r
      BY <2>6, <3>1 DEF Crossing, UnderWay
    <3>2. CASE q # r
      <4>1. Crossing(q) /\ Prepared(q)
        BY DEF RInv
      <4>2. req[q].at \in UnderWay /\ req[q].op # "cleanup" => req[q].target # x
        BY <2>2, <4>1 DEF Prepared
      <4>3. \A p \in Request : req'[p].at \in UnderWay => p # r
        BY <2>6 DEF UnderWay
      <4> QED BY <2>2, <2>4, <2>6, <3>2, <4>1, <4>2, <4>3 DEF Crossing, Prepared
    <3> QED BY <3>1, <3>2
  <2>11. LedgerIsRight' /\ DeletedIsInactive'
    BY <2>2, <2>4 DEF RInv, LedgerIsRight, DeletedIsInactive
  <2>12. ASSUME NEW q \in Request PROVE AgentsWatched(q)'
    <3>1. CASE q = r
      BY <2>6, <3>1 DEF AgentsWatched, None
    <3>2. CASE q # r
      BY <2>2, <2>6, <3>2 DEF RInv, AgentsWatched
    <3> QED BY <3>1, <3>2
  <2> QED BY <2>7, <2>8, <2>9, <2>10, <2>11, <2>12 DEF RInv
<1> QED BY <1>1, <1>2

LEMMA UpdateKeeps == ASSUME RInv, NEW r \in Request, Update(r) PROVE RInv'
<1>1. CASE Refuse(r, "error")
  BY <1>1, RefuseKeeps DEF FinalAnswers
<1>2. CASE ~Refuse(r, "error")
  <2> DEFINE x == req[r].target
  <2>1. PICK active \in BOOLEAN : row' = [row EXCEPT ![x].active = Written(r, x, active)]
    BY <1>2 DEF Update
  <2>2. /\ req[r].at = "loaded" /\ req[r].op = "update" /\ Answer(r, "done")
        /\ UNCHANGED <<tools, node, live, ledger, held, crossed>>
    BY <1>2 DEF Update
  <2>3. req[r] \in RequestType /\ Prepared(r) /\ x \in Resource
    BY <2>2 DEF RInv, Typed, Prepared, UnderWay
  <2>4. Written(r, x, active) \in BOOLEAN
    <3>1. row[x].active \in BOOLEAN
      BY <2>3 DEF RInv, Typed, RowType
    <3> QED BY <3>1, Zenon DEF Written
  <2>5. /\ row' \in [Resource -> RowType]
        /\ row'[x].exists = row[x].exists /\ row'[x].deleted = row[x].deleted
        /\ \A y \in Resource \ {x} : row'[y] = row[y]
    BY <2>1, <2>3, <2>4 DEF RInv, Typed, RowType
  <2>6. /\ req'[r] \in RequestType /\ req'[r].at = "end" /\ req'[r].op = "update"
        /\ req' \in [Request -> RequestType]
        /\ \A q \in Request \ {r} : req'[q] = req[q]
    BY <2>2, <2>3 DEF Answer, RequestType, RInv, Typed
  <2> HIDE DEF x
  <2>7. Typed'
    BY <2>2, <2>5, <2>6 DEF RInv, Typed
  <2>8. ASSUME NEW q \in Request PROVE Prepared(q)'
    <3>1. Prepared(q)
      BY DEF RInv
    <3>2. CASE q = r
      BY <2>6, <3>2 DEF Prepared, UnderWay
    <3>3. CASE q # r
      BY <2>5, <2>6, <3>1, <3>3 DEF Prepared
    <3> QED BY <3>2, <3>3
  <2>9. ASSUME NEW q \in Request PROVE NodesWatched(q)'
    <3>1. CASE q = r
      BY <2>6, <3>1 DEF NodesWatched, UnderWay
    <3>2. CASE q # r
      BY <2>2, <2>6, <3>2 DEF RInv, NodesWatched, NodesNaming
    <3> QED BY <3>1, <3>2
  <2>10. Crossing(r) /\ (row[x].deleted => x \in crossed)
    BY <2>2 DEF RInv, Crossing, UnderWay, x
  <2>11. ASSUME NEW q \in Request PROVE Crossing(q)'
    <3>1. CASE q = r
      BY <2>6, <3>1 DEF Crossing, UnderWay
    <3>2. CASE q # r
      <4>1. Crossing(q) /\ Prepared(q)
        BY DEF RInv
      <4>2. req[q].at \in UnderWay /\ req[q].op = "delete" /\ req[q].target = x
              => x \in crossed
        BY <2>2, <2>10 DEF Crossing, UnderWay, x
      <4>3. \A p \in Request : req'[p].at \in UnderWay => p # r
        BY <2>6 DEF UnderWay
      <4> QED BY <2>2, <2>5, <2>6, <3>2, <4>1, <4>2, <4>3 DEF Crossing, Prepared
    <3> QED BY <3>1, <3>2
  <2>12. LedgerIsRight' /\ DeletedIsInactive'
    BY <2>2, <2>5, <2>10 DEF RInv, LedgerIsRight, DeletedIsInactive
  <2>13. ASSUME NEW q \in Request PROVE AgentsWatched(q)'
    <3>1. CASE q = r
      BY <2>6, <3>1 DEF AgentsWatched
    <3>2. CASE q # r
      BY <2>2, <2>6, <3>2 DEF RInv, AgentsWatched
    <3> QED BY <3>1, <3>2
  <2> QED BY <2>7, <2>8, <2>9, <2>11, <2>12, <2>13 DEF RInv
<1> QED BY <1>1, <1>2

\* The deletion goes on when no node names the row: none of those that have named it
\* all the time is left.
LEMMA CheckUseKeeps == ASSUME RInv, NEW r \in Request, CheckUse(r) PROVE RInv'
<1>1. CASE Refuse(r, "refused")
  BY <1>1, RefuseKeeps DEF FinalAnswers
<1>2. CASE ~Refuse(r, "refused")
  <2>1. /\ req[r].at = "loaded" /\ req[r].op = "delete"
        /\ NodesNaming(req[r].target) = {}
        /\ req' = [req EXCEPT ![r].at = "checked"]
        /\ UNCHANGED <<row, tools, node, live, ledger, held, crossed>>
    BY <1>2 DEF CheckUse, NodeReferences
  <2>2. req[r] \in RequestType
    BY DEF RInv, Typed
  <2>3. /\ req'[r] \in RequestType /\ req'[r].at = "checked"
        /\ req'[r].op = "delete" /\ req'[r].target = req[r].target
        /\ req'[r].answer = req[r].answer /\ req'[r].active = req[r].active
        /\ req' \in [Request -> RequestType]
        /\ \A q \in Request \ {r} : req'[q] = req[q]
    BY <2>1, <2>2 DEF RequestType, UnderWay, RInv, Typed
  <2>4. Typed'
    BY <2>1, <2>3 DEF RInv, Typed
  <2>5. ASSUME NEW q \in Request PROVE Prepared(q)'
    <3>1. Prepared(q)
      BY DEF RInv
    <3>2. CASE q = r
      BY <2>1, <2>3, <3>1, <3>2 DEF Prepared, UnderWay
    <3>3. CASE q # r
      BY <2>1, <2>3, <3>1, <3>3 DEF Prepared
    <3> QED BY <3>2, <3>3
  <2>6. ASSUME NEW q \in Request PROVE NodesWatched(q)'
    <3>1. NodesWatched(q)
      BY DEF RInv
    <3>2. CASE q = r
      <4>1. held[q] \cap Node = {}
        BY <2>1, <3>1, <3>2 DEF NodesWatched, UnderWay
      <4> QED BY <2>1, <4>1 DEF NodesWatched
    <3>3. CASE q # r
      BY <2>1, <2>3, <3>1, <3>3 DEF NodesWatched, NodesNaming
    <3> QED BY <3>2, <3>3
  <2>7. ASSUME NEW q \in Request PROVE Crossing(q)'
    <3>1. Crossing(q)
      BY DEF RInv
    <3>2. \A p \in Request : req'[p].op = req[p].op /\ req'[p].target = req[p].target
                               /\ (req'[p].at \in UnderWay <=> req[p].at \in UnderWay)
                               /\ req'[p].active = req[p].active
      BY <2>1, <2>3 DEF UnderWay
    <3> QED BY <2>1, <3>1, <3>2 DEF Crossing
  <2>8. LedgerIsRight' /\ DeletedIsInactive'
    BY <2>1 DEF RInv, LedgerIsRight, DeletedIsInactive
  <2>9. ASSUME NEW q \in Request PROVE AgentsWatched(q)'
    <3>1. CASE q = r
      BY <2>3, <3>1 DEF AgentsWatched
    <3>2. CASE q # r
      BY <2>1, <2>3, <3>2 DEF RInv, AgentsWatched
    <3> QED BY <3>1, <3>2
  <2> QED BY <2>4, <2>5, <2>6, <2>7, <2>8, <2>9 DEF RInv
<1> QED BY <1>1, <1>2

LEMMA SoftDeleteKeeps == ASSUME RInv, NEW r \in Request, SoftDelete(r) PROVE RInv'
<1> DEFINE x == req[r].target
<1>1. /\ req[r].at = "checked" /\ row' = [row EXCEPT ![x] = DeletedRow(r, x)]
      /\ Answer(r, "done") /\ UNCHANGED <<tools, node, live, ledger, crossed>>
      /\ StillHeld
  BY DEF SoftDelete
<1>2. /\ req[r] \in RequestType /\ x \in Resource /\ req[r].op = "delete"
      /\ row[x] \in RowType /\ held[r] \cap Node = {}
  BY <1>1 DEF RInv, Typed, Prepared, NodesWatched, UnderWay
<1>3. Written(r, x, FALSE) \in BOOLEAN
  <2>1. row[x].active \in BOOLEAN
    BY <1>2 DEF RowType
  <2> QED BY <2>1, Zenon DEF Written
<1>4. /\ row' \in [Resource -> RowType]
      /\ row'[x].exists = row[x].exists /\ row'[x].deleted
      /\ row'[x].active = Written(r, x, FALSE)
      /\ \A y \in Resource \ {x} : row'[y] = row[y]
  BY <1>1, <1>2, <1>3 DEF DeletedRow, RInv, Typed, RowType
<1>5. /\ req'[r] \in RequestType /\ req'[r].at = "end" /\ req'[r].op = "delete"
      /\ req' \in [Request -> RequestType]
      /\ \A q \in Request \ {r} : req'[q] = req[q]
  BY <1>1, <1>2 DEF Answer, RequestType, RInv, Typed
<1>6. /\ held' \in [Request -> SUBSET (Node \cup Agent)]
      /\ \A q \in Request : held'[q] \subseteq held[q]
  BY <1>1 DEF StillHeld, RInv, Typed
<1>7. row[x].active /\ ~req[r].active => x \in crossed
  BY <1>1, <1>2 DEF RInv, Crossing, UnderWay
<1>8. /\ row'[x].active => row[x].active
      /\ row'[x].active => x \in crossed
  BY <1>4, <1>7 DEF Written
<1> HIDE DEF x
<1>9. Typed'
  BY <1>1, <1>4, <1>5, <1>6 DEF RInv, Typed
<1>10. ASSUME NEW q \in Request PROVE Prepared(q)'
  <2>1. Prepared(q)
    BY DEF RInv
  <2>2. CASE q = r
    BY <1>5, <2>2 DEF Prepared, UnderWay
  <2>3. CASE q # r
    BY <1>4, <1>5, <2>1, <2>3 DEF Prepared
  <2> QED BY <2>2, <2>3
<1>11. ASSUME NEW q \in Request PROVE NodesWatched(q)'
  <2>1. CASE q = r
    BY <1>2, <1>5, <1>6, <2>1 DEF NodesWatched, UnderWay
  <2>2. CASE q # r
    BY <1>1, <1>5, <1>6, <2>2 DEF RInv, NodesWatched, NodesNaming
  <2> QED BY <2>1, <2>2
<1>12. ASSUME NEW q \in Request PROVE Crossing(q)'
  <2>1. CASE q = r
    BY <1>5, <2>1 DEF Crossing, UnderWay
  <2>2. CASE q # r
    <3>1. Crossing(q) /\ Prepared(q)
      BY DEF RInv
    <3>2. req[q].at \in UnderWay /\ req[q].op = "update" /\ req[q].target = x
            => x \in crossed
      BY <1>1, <1>2, <3>1 DEF Crossing, UnderWay, x
    <3>3. \A p \in Request : req'[p].at \in UnderWay => p # r
      BY <1>5 DEF UnderWay
    <3> QED BY <1>1, <1>4, <1>5, <1>8, <2>2, <3>1, <3>2, <3>3 DEF Crossing, Prepared
  <2> QED BY <2>1, <2>2
<1>13. LedgerIsRight' /\ DeletedIsInactive'
  BY <1>1, <1>4, <1>8 DEF RInv, LedgerIsRight, DeletedIsInactive
<1>14. ASSUME NEW q \in Request PROVE AgentsWatched(q)'
  <2>1. CASE q = r
    BY <1>5, <2>1 DEF AgentsWatched
  <2>2. CASE q # r
    BY <1>5, <1>6, <2>2 DEF RInv, AgentsWatched
  <2> QED BY <2>1, <2>2
<1> QED BY <1>9, <1>10, <1>11, <1>12, <1>13, <1>14 DEF RInv

------------------------------------------------------------------------------
(* The tools of an agent. *)

\* An addition that succeeds finds the pair absent.
LEMMA AddToolKeeps == ASSUME RInv, NEW r \in Request, AddTool(r) PROVE RInv'
<1> DEFINE a == req[r].target
           t == req[r].tool
<1>1. req[r].at = "loaded" /\ req[r].op = "add" /\ a \in Agent /\ t \in Tool
  BY DEF AddTool, RInv, Prepared
<1>2. CASE \E answer \in FinalAnswers \ {"done"} : Refuse(r, answer)
  BY <1>2, RefuseKeeps
<1>3. CASE ~\E answer \in FinalAnswers \ {"done"} : Refuse(r, answer)
  <2>1. ~Refuse(r, "refused") /\ ~Refuse(r, "missing") /\ ~Refuse(r, "error")
    BY <1>3 DEF FinalAnswers
  <2>2. /\ t \notin tools[a]
        /\ tools' = [tools EXCEPT ![a] = @ \cup {t}]
        /\ ledger' = [ledger EXCEPT ![<<a, t>>] = @ + 1]
        /\ Answer(r, "done") /\ UNCHANGED <<row, node, live, crossed>> /\ StillHeld
    BY <2>1 DEF AddTool, TakesPair
  <2>3. tools \in [Agent -> SUBSET Tool] /\ ledger \in [Agent \X Tool -> Int]
    BY DEF RInv, Typed
  <2>4. <<a, t>> \in Agent \X Tool
    BY <1>1
  <2> HIDE DEF a, t
  <2>5. tools' \in [Agent -> SUBSET Tool] /\ ledger' \in [Agent \X Tool -> Int]
    BY <1>1, <2>2, <2>3, <2>4
  <2>6. ASSUME NEW b \in Agent, NEW u \in Tool
        PROVE  ledger'[<<b, u>>] = IF u \in tools'[b] THEN 1 ELSE 0
    <3>1. ledger[<<b, u>>] = IF u \in tools[b] THEN 1 ELSE 0
      BY DEF RInv, LedgerIsRight
    <3>2. CASE b = a /\ u = t
      BY <1>1, <2>2, <2>3, <2>4, <3>1, <3>2
    <3>3. CASE ~(b = a /\ u = t)
      <4>1. <<b, u>> # <<a, t>>
        BY <3>3
      <4>2. u \in tools'[b] <=> u \in tools[b]
        BY <1>1, <2>2, <2>3, <3>3
      <4> QED BY <2>2, <2>3, <3>1, <4>1, <4>2
    <3> QED BY <3>2, <3>3
  <2>7. LedgerIsRight'
    BY <2>6 DEF LedgerIsRight
  <2> QED BY <1>1, <2>2, <2>5, <2>7, EndKeeps DEF FinalAnswers
<1> QED BY <1>2, <1>3

\* A removal takes the tool away from all the agents it has loaded with it.
LEMMA DissociateKeeps ==
    ASSUME RInv, NEW r \in Request, NEW A \in SUBSET Agent, NEW t \in Tool,
           Dissociate(r, A, t), req[r].at = "loaded",
           \/ req[r].op = "remove" /\ req[r].tool = t
           \/ req[r].op = "cleanup" /\ req[r].target = t,
           held[r] \cap Agent \subseteq A
    PROVE  RInv'
<1>1. /\ tools' = [a \in Agent |-> IF a \in A THEN tools[a] \ {t} ELSE tools[a]]
      /\ ledger' = [p \in Agent \X Tool |-> IF p \in A \X {t} THEN 0 ELSE ledger[p]]
      /\ Answer(r, "done") /\ UNCHANGED <<row, node, live, crossed>> /\ StillHeld
  BY DEF Dissociate
<1>2. tools \in [Agent -> SUBSET Tool] /\ ledger \in [Agent \X Tool -> Int]
  BY DEF RInv, Typed
<1>3. tools' \in [Agent -> SUBSET Tool] /\ ledger' \in [Agent \X Tool -> Int]
  BY <1>1, <1>2
<1>4. ASSUME NEW b \in Agent, NEW u \in Tool
      PROVE  ledger'[<<b, u>>] = IF u \in tools'[b] THEN 1 ELSE 0
  <2>1. ledger[<<b, u>>] = IF u \in tools[b] THEN 1 ELSE 0
    BY DEF RInv, LedgerIsRight
  <2>2. <<b, u>> \in A \X {t} <=> b \in A /\ u = t
    OBVIOUS
  <2>3. ledger'[<<b, u>>] = IF b \in A /\ u = t THEN 0 ELSE ledger[<<b, u>>]
    BY <1>1, <2>2
  <2>4. u \in tools'[b] <=> u \in tools[b] /\ ~(b \in A /\ u = t)
    BY <1>1
  <2> QED BY <2>1, <2>3, <2>4
<1>5. LedgerIsRight'
  BY <1>4 DEF LedgerIsRight
<1>6. held'[r] \cap Agent = {}
  <2>1. /\ req'[r].op = req[r].op /\ req'[r].target = req[r].target
        /\ req'[r].tool = req[r].tool
    BY <1>1 DEF Answer, RInv, Typed, RequestType
  <2>2. held'[r] = held[r] \cap Watched(req[r].op, req[r].target, req[r].tool)'
    BY <1>1 DEF StillHeld
  <2>3. ASSUME NEW b \in held'[r], b \in Agent PROVE FALSE
    <3>1. b \in A /\ b \in Watched(req[r].op, req[r].target, req[r].tool)'
      BY <2>2, <2>3
    <3>2. t \notin tools'[b]
      BY <1>1, <3>1
    <3>3. CASE req[r].op = "remove" /\ req[r].tool = t
      BY <2>1, <3>1, <3>2, <3>3 DEF Watched
    <3>4. CASE req[r].op = "cleanup" /\ req[r].target = t
      BY <2>1, <3>1, <3>2, <3>4 DEF Watched, AgentsUsing
    <3> QED BY <3>3, <3>4
  <2> QED BY <2>3
<1> QED BY <1>1, <1>3, <1>5, <1>6, EndKeeps DEF FinalAnswers

------------------------------------------------------------------------------
(* Nodes and their workflow. *)

\* Whatever happens to the nodes, a node that no longer names the target of a request
\* is no longer held.
LEMMA NodesKeep ==
    ASSUME RInv, StillHeld, UNCHANGED <<row, tools, req, ledger, crossed>>,
           node' \in [Node -> Resource \cup {None}], live' \in BOOLEAN
    PROVE  RInv'
<1>1. /\ held' \in [Request -> SUBSET (Node \cup Agent)]
      /\ \A q \in Request : held'[q] \subseteq held[q]
  BY DEF StillHeld, RInv, Typed
<1>2. Typed'
  BY <1>1 DEF RInv, Typed
<1>3. ASSUME NEW q \in Request PROVE Prepared(q)' /\ Crossing(q)'
  BY DEF RInv, Prepared, Crossing
<1>4. ASSUME NEW q \in Request PROVE NodesWatched(q)'
  <2>1. NodesWatched(q)
    BY DEF RInv
  <2>2. ASSUME req[q].at \in UnderWay
        PROVE  held'[q] \cap Node \subseteq NodesNaming(req[q].target)'
    <3>1. held'[q] = held[q] \cap Watched(req[q].op, req[q].target, req[q].tool)'
      BY <2>2 DEF StillHeld, UnderWay
    <3>2. Watched(req[q].op, req[q].target, req[q].tool)' \cap Node
            \subseteq NodesNaming(req[q].target)'
      <4>1. req[q].op = "remove" => req[q].target \in Agent
        <5>1. req[q].at = "loaded" \/ req[q].at = "checked"
          BY <2>2 DEF UnderWay
        <5> QED BY <5>1 DEF RInv, Prepared
      <4> QED BY <4>1, KindsAssumption DEF Watched, Users, AgentsUsing
    <3> QED BY <3>1, <3>2
  <2> QED BY <1>1, <2>1, <2>2 DEF NodesWatched
<1>5. LedgerIsRight' /\ DeletedIsInactive'
  BY DEF RInv, LedgerIsRight, DeletedIsInactive
<1>6. ASSUME NEW q \in Request PROVE AgentsWatched(q)'
  <2>1. AgentsWatched(q)
    BY DEF RInv
  <2> QED BY <1>1, <2>1 DEF AgentsWatched
<1> QED BY <1>2, <1>3, <1>4, <1>5, <1>6 DEF RInv

LEMMA NextRInv == RInv /\ [Next]_vars => RInv'
<1> SUFFICES ASSUME RInv, [Next]_vars PROVE RInv'
  OBVIOUS
<1>1. CASE \E r \in Request, op \in Rivals, x \in Resource : Load(r, op, x, None)
  BY <1>1, LoadKeeps DEF Rivals, Ops
<1>2. CASE \E r \in Request, op \in {"add", "remove"}, a \in Agent, t \in Tool :
              Load(r, op, a, t)
  BY <1>2, LoadKeeps DEF Ops, Resource
<1>3. CASE \E r \in Request, t \in Tool : Load(r, "cleanup", t, None)
  BY <1>3, LoadKeeps DEF Ops, Resource
<1>4. CASE \E r \in Request, x \in Resource, complete \in BOOLEAN : Create(r, x, complete)
  BY <1>4, CreateKeeps
<1>5. CASE \E r \in Request : Update(r) \/ CheckUse(r) \/ SoftDelete(r)
  BY <1>5, UpdateKeeps, CheckUseKeeps, SoftDeleteKeeps
<1>6. CASE \E r \in Request : AddTool(r)
  BY <1>6, AddToolKeeps
<1>7. CASE \E r \in Request : RemoveTool(r)
  <2>1. PICK r \in Request : RemoveTool(r)
    BY <1>7
  <2> DEFINE A == IF req[r].tool \in req[r].read THEN {req[r].target} ELSE {}
  <2>2. /\ req[r].op = "remove" /\ req[r].at = "loaded"
        /\ req[r].target \in Agent /\ req[r].tool \in Tool
        /\ Dissociate(r, A, req[r].tool)
    BY <2>1 DEF RemoveTool, RInv, Prepared
  <2>3. held[r] \cap Agent \subseteq A /\ A \in SUBSET Agent
    BY <2>2 DEF RInv, AgentsWatched
  <2> HIDE DEF A
  <2> QED BY <2>2, <2>3, DissociateKeeps
<1>8. CASE \E r \in Request : CleanupToolReferences(r)
  <2>1. PICK r \in Request : CleanupToolReferences(r)
    BY <1>8
  <2>2. /\ req[r].op = "cleanup" /\ req[r].at = "loaded"
        /\ req[r].target \in Tool /\ req[r].read \subseteq Agent
        /\ Dissociate(r, req[r].read, req[r].target)
        /\ held[r] \cap Agent \subseteq req[r].read
    BY <2>1 DEF CleanupToolReferences, RInv, Prepared, AgentsWatched
  <2> QED BY <2>2, DissociateKeeps
<1>9. CASE \E n \in Node, x \in Resource \cup {None} : SetNode(n, x)
  <2>1. PICK n \in Node, x \in Resource \cup {None} : SetNode(n, x)
    BY <1>9
  <2>2. node' \in [Node -> Resource \cup {None}] /\ live' \in BOOLEAN
    BY <2>1 DEF SetNode, RInv, Typed
  <2> QED BY <2>1, <2>2, NodesKeep DEF SetNode
<1>10. CASE DeleteWorkflow
  <2>1. node' \in [Node -> Resource \cup {None}] /\ live' \in BOOLEAN
    BY <1>10 DEF DeleteWorkflow, RInv, Typed
  <2> QED BY <1>10, <2>1, NodesKeep DEF DeleteWorkflow
<1>11. CASE UNCHANGED vars
  BY <1>11 DEF vars, RInv, Typed, Prepared, NodesWatched, NodesNaming, Crossing,
               AgentsWatched, LedgerIsRight, DeletedIsInactive
<1> QED BY <1>1, <1>2, <1>3, <1>4, <1>5, <1>6, <1>7, <1>8, <1>9, <1>10, <1>11 DEF Next

\* RInv holds in every reachable state.
LEMMA AlwaysRInv == Spec => []RInv
BY InitRInv, NextRInv, PTL DEF Spec

\* No tool and no agent is deleted (ToolService.delete, AgentService.delete) that a node
\* of an undeleted workflow names during the whole request.
THEOREM NodesKeepTheirResources == Spec => []InUseStays
<1>1. RInv => InUseStays
  BY DEF RInv, NodesWatched, InUseStays
<1> QED BY <1>1, AlwaysRInv, PTL

\* A soft-deleted row is active only if an update crossed its deletion (soft_delete,
\* and the columns that SQLAlchemy writes).
THEOREM DeletionDeactivates == Spec => []DeletedIsInactive
<1>1. RInv => DeletedIsInactive
  BY DEF RInv
<1> QED BY <1>1, AlwaysRInv, PTL

\* Of concurrent add_tool calls for a pair one succeeds, and its association is there
\* until a removal reports taking it away; remove_tool and cleanup_tool_references leave
\* no agent with a tool it should lose that it had during the whole request.
THEOREM ReportsAreTrue == Spec => []PairsFollowReports
<1>1. RInv => PairsFollowReports
  BY DEF RInv, LedgerIsRight, AgentsWatched, PairsFollowReports
<1> QED BY <1>1, AlwaysRInv, PTL

------------------------------------------------------------------------------
(* User accounts *)

Emails == {Normalize[s] : s \in Spelling} \cup {NoOne}
Passwords == Password \cup {NoOne}

AccountType == [exists : BOOLEAN, email : Emails, password : Passwords,
                active : BOOLEAN, deleted : BOOLEAN]
CallType ==
    [op : {"none", "update", "delete", "change"}, user : User \cup {NoOne},
     given : Passwords, at : {"start", "loaded", "end"}, read : AccountType,
     answer : {"none", "done", "missing", "refused", "error"},
     replaced : Passwords, overtaken : BOOLEAN]

AccountsTyped ==
    /\ account \in [User -> AccountType]
    /\ call \in [Call -> CallType]

\* What an operation under way has read: an account that was deactivated stays so, and
\* the password it will compare is the one of the row, or the operation is overtaken.
KnowsItsRow(c) ==
    /\ call[c].at = "start" => call[c].op = "none"
    /\ call[c].at = "loaded" =>
          /\ call[c].user \in User
          /\ account[call[c].user].exists
          /\ ~call[c].read.active => ~account[call[c].user].active
          /\ \/ call[c].overtaken
             \/ account[call[c].user].password = call[c].read.password

HandedOver(c) ==
    call[c].op = "change" /\ call[c].answer = "done" =>
        call[c].at = "end" /\ (call[c].replaced = call[c].given \/ call[c].overtaken)

NoDeletedIsActive == \A u \in User : account[u].deleted => ~account[u].active

AInv ==
    /\ AccountsTyped
    /\ \A c \in Call : KnowsItsRow(c) /\ HandedOver(c)
    /\ NoDeletedIsActive

LEMMA BlankTypes == Absent \in AccountType /\ NewCall \in CallType
<1>1. Absent \in AccountType
  BY DEF Absent, AccountType, Emails, Passwords
<1>2. NoOne \in Passwords
  BY DEF Passwords
<1> QED BY <1>1, <1>2 DEF NewCall, CallType

LEMMA InitAInv == AInit => AInv
<1> SUFFICES ASSUME AInit PROVE AInv
  OBVIOUS
<1>1. ASSUME NEW u \in User
      PROVE  account[u] \in AccountType /\ ~account[u].deleted
  <2>1. CASE account[u] = Absent
    BY <2>1, BlankTypes DEF Absent
  <2>2. CASE account[u] \in [exists : {TRUE}, email : {Normalize[s] : s \in Spelling},
                             password : Password, active : {TRUE}, deleted : {FALSE}]
    BY <2>2 DEF AccountType, Emails, Passwords
  <2> QED BY <2>1, <2>2 DEF AInit
<1>2. account \in [User -> AccountType]
  BY <1>1 DEF AInit
<1>3. \A c \in Call : call[c] = NewCall
  BY DEF AInit
<1>4. AccountsTyped
  BY <1>2, BlankTypes DEF AInit, AccountsTyped
<1>5. \A c \in Call : KnowsItsRow(c) /\ HandedOver(c)
  BY <1>3 DEF KnowsItsRow, HandedOver, NewCall
<1> QED BY <1>1, <1>4, <1>5 DEF AInv, NoDeletedIsActive

\* An operation that ends without setting a password disturbs no other one, provided it
\* keeps the passwords and activates nothing.
LEMMA EndsKeeps ==
    ASSUME AInv, NEW c \in Call, NEW answer \in {"done", "missing", "refused", "error"},
           Ends(c, answer), answer = "done" => call[c].op # "change",
           account' \in [User -> AccountType], NoDeletedIsActive',
           \A u \in User : account[u].exists =>
              /\ account'[u].exists /\ account'[u].password = account[u].password
              /\ account'[u].active => account[u].active
    PROVE  AInv'
<1>1. /\ call[c] \in CallType
      /\ call' = [call EXCEPT ![c] = [call[c] EXCEPT !.at = "end", !.answer = answer]]
  BY DEF AInv, AccountsTyped, Ends
<1>2. /\ call'[c] \in CallType /\ call'[c].at = "end"
      /\ call'[c].op = call[c].op /\ call'[c].answer = answer
      /\ call' \in [Call -> CallType]
      /\ \A d \in Call \ {c} : call'[d] = call[d]
  BY <1>1 DEF CallType, AInv, AccountsTyped
<1>3. AccountsTyped'
  BY <1>2 DEF AccountsTyped
<1>4. ASSUME NEW d \in Call PROVE KnowsItsRow(d)' /\ HandedOver(d)'
  <2>1. KnowsItsRow(d) /\ HandedOver(d)
    BY DEF AInv
  <2>2. CASE d = c
    BY <1>2, <2>2 DEF KnowsItsRow, HandedOver
  <2>3. CASE d # c
    BY <1>2, <2>1, <2>3 DEF KnowsItsRow, HandedOver
  <2> QED BY <2>2, <2>3
<1> QED BY <1>3, <1>4 DEF AInv

\* An operation that sets the password of u overtakes the others on u.
LEMMA SetsKeeps ==
    ASSUME AInv, NEW c \in Call, NEW u \in User, NEW p \in Passwords,
           SetsPassword(c, u, p, "done"), call[c].at = "loaded", call[c].user = u,
           call[c].op = "change" => call[c].given = call[c].read.password,
           account' \in [User -> AccountType], NoDeletedIsActive',
           \A v \in User : account[v].exists =>
              /\ account'[v].exists /\ account'[v].active = account[v].active
              /\ v # u => account'[v].password = account[v].password
    PROVE  AInv'
<1>1. /\ call \in [Call -> CallType] /\ call[c] \in CallType
      /\ account[u].password \in Passwords
  BY DEF AInv, AccountsTyped, AccountType
<1>2. ASSUME NEW d \in Call
      PROVE  /\ call'[d] \in CallType
             /\ d = c => /\ call'[d].at = "end" /\ call'[d].op = call[c].op
                         /\ call'[d].replaced = account[u].password
                         /\ call'[d].given = call[c].given
                         /\ call'[d].overtaken = call[c].overtaken
             /\ d # c => /\ call'[d].at = call[d].at /\ call'[d].op = call[d].op
                         /\ call'[d].user = call[d].user /\ call'[d].read = call[d].read
                         /\ call'[d].answer = call[d].answer
                         /\ call'[d].given = call[d].given
                         /\ call'[d].replaced = call[d].replaced
                         /\ call[d].overtaken => call'[d].overtaken
                         /\ call[d].at = "loaded" /\ call[d].user = u => call'[d].overtaken
  <2>1. call[d] \in CallType
    BY <1>1
  <2>2. CASE d = c
    BY <1>1, <2>1, <2>2 DEF SetsPassword, CallType
  <2>3. CASE d # c /\ call[d].at # "end" /\ call[d].user = u
    BY <1>1, <2>1, <2>3 DEF SetsPassword, CallType
  <2>4. CASE d # c /\ ~(call[d].at # "end" /\ call[d].user = u)
    BY <1>1, <2>1, <2>4 DEF SetsPassword, CallType
  <2> QED BY <2>2, <2>3, <2>4
<1>3. AccountsTyped'
  BY <1>2 DEF AccountsTyped, SetsPassword
<1>4. ASSUME NEW d \in Call PROVE KnowsItsRow(d)' /\ HandedOver(d)'
  <2>1. KnowsItsRow(d) /\ HandedOver(d) /\ KnowsItsRow(c)
    BY DEF AInv
  <2>2. CASE d = c
    BY <1>2, <2>1, <2>2 DEF KnowsItsRow, HandedOver
  <2>3. CASE d # c
    BY <1>2, <2>1, <2>3 DEF KnowsItsRow, HandedOver
  <2> QED BY <2>2, <2>3
<1> QED BY <1>3, <1>4 DEF AInv

------------------------------------------------------------------------------
LEMMA CreateUserKeeps ==
    ASSUME AInv, NEW c \in Call, NEW u \in User, NEW s \in Spelling, NEW p \in Password,
           CreateUser(c, u, s, p)
    PROVE  AInv'
<1>1. call[c].op = "none" /\ ~account[u].exists
  BY DEF CreateUser, AInv, KnowsItsRow
<1>2. CASE Ends(c, "error") /\ UNCHANGED account
  BY <1>2, EndsKeeps DEF AInv, AccountsTyped, NoDeletedIsActive
<1>3. CASE ~(Ends(c, "error") /\ UNCHANGED account)
  <2> DEFINE new == [exists |-> TRUE, email |-> Normalize[s], password |-> p,
                     active |-> TRUE, deleted |-> FALSE]
  <2>1. account' = [account EXCEPT ![u] = new] /\ Ends(c, "done")
    BY <1>3 DEF CreateUser
  <2>2. new \in AccountType /\ ~new.deleted
    BY DEF AccountType, Emails, Passwords
  <2> HIDE DEF new
  <2>3. /\ account' \in [User -> AccountType] /\ account'[u] = new
        /\ \A v \in User \ {u} : account'[v] = account[v]
    BY <2>1, <2>2 DEF AInv, AccountsTyped
  <2>4. NoDeletedIsActive'
    BY <2>2, <2>3 DEF AInv, NoDeletedIsActive
  <2> QED BY <1>1, <2>1, <2>3, <2>4, EndsKeeps
<1> QED BY <1>2, <1>3

LEMMA LoadUserKeeps ==
    ASSUME AInv, NEW c \in Call, NEW op \in {"update", "delete", "change"},
           NEW u \in User, NEW given \in Passwords, LoadUser(c, op, u, given)
    PROVE  AInv'
<1> DEFINE loaded == [NewCall EXCEPT !.op = op, !.user = u, !.given = given,
                        !.read = account[u],
                        !.at = IF account[u].exists THEN "loaded" ELSE "end",
                        !.answer = IF account[u].exists THEN "none" ELSE "missing"]
<1>1. call' = [call EXCEPT ![c] = loaded] /\ UNCHANGED account
  BY DEF LoadUser
<1>2. /\ loaded \in CallType
      /\ loaded.op = op /\ loaded.user = u /\ loaded.read = account[u]
      /\ loaded.at = IF account[u].exists THEN "loaded" ELSE "end"
      /\ loaded.answer = IF account[u].exists THEN "none" ELSE "missing"
  <2>1. account[u] \in AccountType
    BY DEF AInv, AccountsTyped
  <2> QED BY <2>1, BlankTypes DEF CallType, NewCall
<1> HIDE DEF loaded
<1>3. /\ call' \in [Call -> CallType] /\ call'[c] = loaded
      /\ \A d \in Call \ {c} : call'[d] = call[d]
  BY <1>1, <1>2 DEF AInv, AccountsTyped
<1>4. ASSUME NEW d \in Call PROVE KnowsItsRow(d)' /\ HandedOver(d)'
  <2>1. CASE d = c
    BY <1>1, <1>2, <1>3, <2>1 DEF KnowsItsRow, HandedOver
  <2>2. CASE d # c
    BY <1>1, <1>3, <2>2 DEF KnowsItsRow, HandedOver, AInv
  <2> QED BY <2>1, <2>2
<1> QED BY <1>1, <1>3, <1>4 DEF AInv, AccountsTyped, NoDeletedIsActive

LEMMA UpdateUserKeeps ==
    ASSUME AInv, NEW c \in Call,
           UpdateUser(c, {Normalize[s] : s \in Spelling}, Password)
    PROVE  AInv'
<1> DEFINE u == call[c].user
           typed == {Normalize[s] : s \in Spelling}
           New(e) == e # call[c].read.email
<1>1. /\ call[c].at = "loaded" /\ call[c].op = "update" /\ u \in User
      /\ account[u] \in AccountType /\ call[c].read \in AccountType
  BY DEF UpdateUser, AInv, KnowsItsRow, AccountsTyped, CallType
<1>2. CASE Ends(c, "error") /\ UNCHANGED account
  BY <1>2, EndsKeeps DEF AInv, AccountsTyped, NoDeletedIsActive
<1>3. CASE ~(Ends(c, "error") /\ UNCHANGED account)
  <2>1. PICK e \in typed \cup {call[c].read.email}, p \in Password \cup {NoOne} :
          /\ account' = [account EXCEPT ![u].email = IF New(e) THEN e ELSE @,
                                        ![u].password = IF p = NoOne THEN @ ELSE p]
          /\ IF p = NoOne THEN Ends(c, "done") ELSE SetsPassword(c, u, p, "done")
    BY <1>3 DEF UpdateUser
  <2>2. e \in Emails /\ p \in Passwords
    BY <1>1 DEF Emails, Passwords, AccountType
  <2>3. /\ account' \in [User -> AccountType]
        /\ account'[u].exists = account[u].exists /\ account'[u].active = account[u].active
        /\ account'[u].deleted = account[u].deleted
        /\ account'[u].password = IF p = NoOne THEN account[u].password ELSE p
        /\ \A v \in User \ {u} : account'[v] = account[v]
    BY <1>1, <2>1, <2>2 DEF AInv, AccountsTyped, AccountType
  <2>4. NoDeletedIsActive'
    BY <2>3 DEF AInv, NoDeletedIsActive
  <2>5. CASE p = NoOne
    BY <1>1, <2>1, <2>3, <2>4, <2>5, EndsKeeps
  <2>6. CASE p # NoOne
    <3>1. SetsPassword(c, u, p, "done")
      BY <2>1, <2>6
    <3>2. \A v \in User : /\ account'[v].exists = account[v].exists
                          /\ account'[v].active = account[v].active
                          /\ v # u => account'[v].password = account[v].password
      BY <2>3
    <3> HIDE DEF New, typed
    <3> QED BY <1>1, <2>2, <2>3, <2>4, <3>1, <3>2, SetsKeeps
  <2> QED BY <2>5, <2>6
<1> QED BY <1>2, <1>3

LEMMA DeleteKeeps == ASSUME AInv, NEW c \in Call, DeleteUser(c) PROVE AInv'
<1> DEFINE u == call[c].user
<1>1. /\ call[c].at = "loaded" /\ call[c].op = "delete" /\ u \in User
      /\ account[u] \in AccountType /\ (~call[c].read.active => ~account[u].active)
  BY DEF DeleteUser, AInv, KnowsItsRow, AccountsTyped
<1>2. /\ account' = [account EXCEPT ![u].deleted = TRUE,
                         ![u].active = IF call[c].read.active THEN FALSE ELSE @]
      /\ Ends(c, "done")
  BY DEF DeleteUser
<1>3. (IF call[c].read.active THEN FALSE ELSE account[u].active) = FALSE
  <2>1. account[u].active \in BOOLEAN
    BY <1>1 DEF AccountType
  <2> QED BY <1>1, <2>1, Zenon
<1>4. /\ account' \in [User -> AccountType]
      /\ account'[u].exists = account[u].exists /\ ~account'[u].active
      /\ account'[u].password = account[u].password
      /\ \A v \in User \ {u} : account'[v] = account[v]
  BY <1>1, <1>2, <1>3 DEF AInv, AccountsTyped, AccountType
<1>5. NoDeletedIsActive'
  BY <1>4 DEF AInv, NoDeletedIsActive
<1> QED BY <1>1, <1>2, <1>4, <1>5, EndsKeeps

LEMMA SignInKeeps ==
    ASSUME AInv, NEW c \in Call, NEW s \in Spelling, NEW p \in Password, SignIn(c, s, p)
    PROVE  AInv'
<1>1. call[c].op = "none" /\ UNCHANGED account
  BY DEF SignIn, AInv, KnowsItsRow
<1>2. PICK answer \in {"done", "refused"} : Ends(c, answer)
  BY DEF SignIn
<1> QED BY <1>1, <1>2, EndsKeeps DEF AInv, AccountsTyped, NoDeletedIsActive

LEMMA ChangeKeeps ==
    ASSUME AInv, NEW c \in Call, NEW p \in Password, ChangePassword(c, p)
    PROVE  AInv'
<1> DEFINE u == call[c].user
<1>1. /\ call[c].at = "loaded" /\ call[c].op = "change" /\ u \in User
      /\ account[u] \in AccountType
  BY DEF ChangePassword, AInv, KnowsItsRow, AccountsTyped
<1>2. CASE ~Verified(c)
  BY <1>2, EndsKeeps DEF ChangePassword, AInv, AccountsTyped, NoDeletedIsActive
<1>3. CASE Verified(c)
  <2>1. account' = [account EXCEPT ![u].password = p] /\ SetsPassword(c, u, p, "done")
    BY <1>3 DEF ChangePassword
  <2>2. p \in Passwords
    BY DEF Passwords
  <2>3. /\ account' \in [User -> AccountType]
        /\ account'[u].exists = account[u].exists /\ account'[u].active = account[u].active
        /\ account'[u].deleted = account[u].deleted
        /\ \A v \in User \ {u} : account'[v] = account[v]
    BY <1>1, <2>1, <2>2 DEF AInv, AccountsTyped, AccountType
  <2>4. NoDeletedIsActive'
    BY <2>3 DEF AInv, NoDeletedIsActive
  <2> QED BY <1>1, <1>3, <2>1, <2>2, <2>3, <2>4, SetsKeeps DEF Verified
<1> QED BY <1>2, <1>3

LEMMA NextAInv == AInv /\ [ANext]_avars => AInv'
<1> SUFFICES ASSUME AInv, [ANext]_avars PROVE AInv'
  OBVIOUS
<1>1. CASE \E c \in Call, u \in User, s \in Spelling, p \in Password : CreateUser(c, u, s, p)
  BY <1>1, CreateUserKeeps
<1>2. CASE \E c \in Call, u \in User, op \in {"update", "delete"} : LoadUser(c, op, u, NoOne)
  BY <1>2, LoadUserKeeps DEF Passwords
<1>3. CASE \E c \in Call, u \in User, p \in Password : LoadUser(c, "change", u, p)
  BY <1>3, LoadUserKeeps DEF Passwords
<1>4. CASE \E c \in Call : UpdateUser(c, {Normalize[s] : s \in Spelling}, Password)
                            \/ DeleteUser(c)
  BY <1>4, UpdateUserKeeps, DeleteKeeps
<1>5. CASE \E c \in Call, s \in Spelling, p \in Password : SignIn(c, s, p)
  BY <1>5, SignInKeeps
<1>6. CASE \E c \in Call, p \in Password : ChangePassword(c, p)
  BY <1>6, ChangeKeeps
<1>7. CASE UNCHANGED avars
  BY <1>7 DEF avars, AInv, AccountsTyped, KnowsItsRow, HandedOver, NoDeletedIsActive
<1> QED BY <1>1, <1>2, <1>3, <1>4, <1>5, <1>6, <1>7 DEF ANext

\* A password is replaced by change_password only for one who gave it, or after another
\* operation set a password in between; a deleted account is inactive (UserService).
THEOREM PasswordsAreHandedOver == ASpec => []PasswordHandOver
<1>1. AInv => PasswordHandOver
  BY DEF AInv, HandedOver, NoDeletedIsActive, PasswordHandOver
<1> QED BY <1>1, InitAInv, NextAInv, PTL DEF ASpec
==============================================================================
