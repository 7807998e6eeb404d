---------------------------- MODULE WorkflowEditing ----------------------------
(***************************************************************************)
(* One workflow edited by several requests at once: WorkflowService,       *)
(* NodeService and EdgeService (services/workflow_service.py) as the       *)
(* endpoints of api/v1/workflows.py call them.  A request is one database  *)
(* transaction on a session of its own: it reads in one or more SELECTs,   *)
(* each of which sees what is committed by then, and finally writes.       *)
(*                                                                         *)
(* What it writes is one step here, taken when it commits.  From its first *)
(* write on, a transaction holds locks that keep others from touching what *)
(* it wrote - row locks, and key locks on the nodes its edges refer to -   *)
(* and nobody sees its rows before the commit.                             *)
(***************************************************************************)
EXTENDS WorkflowGraph, Sequences

CONSTANTS
    Node,          \* node identities this workflow may come to use
    Foreign,       \* nodes of other workflows
    Handle,        \* what tells apart edges between the same two nodes: their two
                   \*    handles, or the row when one of these is NULL
    Session,       \* the requests in progress, each on its own session
    Requests,      \* bound: the requests that clients send
    MaxRequests,   \* bound: how many of them one session serves
    StartNodes,    \* the nodes of the workflow at first ...
    StartEdges     \* ... and its edges

Universe == Node \cup Foreign

\* An edge never joins a node to itself (validate_no_self_loop, ck_no_self_loop).
Edge == {e \in [source : Universe, target : Universe, handle : Handle] :
             e.source # e.target}

\* A request with what the client put into it.
Request ==
    [kind : {"createNodes", "delete", "duplicate"}]
    \cup [kind : {"deleteNode"}, node : Node]
    \cup [kind : {"deleteEdge"}, edge : Edge]
    \cup [kind : {"createEdges"}, batch : Seq(Edge) \ {<< >>}]
    \cup [kind : {"update"}, version : Nat]
    \cup [kind : {"replace"}, version : Nat, batch : Seq(Edge)]

ASSUME RequestsAssumption == Requests \subseteq Request
ASSUME MaxRequestsAssumption == MaxRequests \in Nat
ASSUME ForeignAssumption == Node \cap Foreign = {}
ASSUME StartAssumption ==
    /\ StartNodes \subseteq Node
    /\ StartEdges \subseteq Edge
    /\ \A e \in StartEdges : {e.source, e.target} \subseteq StartNodes
    /\ Acyclic(Universe, StartEdges)

VARIABLES
    nodes, edges,       \* the committed rows of the workflow
    version, deleted,   \* its version, and whether deleted_at is set
    born,               \* the identities given out: no node gets an old one
    at,                 \* at[s]: what the request of s does next
    request,            \* request[s]
    todo,               \* todo[s]: edges of its batch still to be validated
    seenVersion,        \* seenVersion[s]: the version in the object it loaded
    seenNodes,          \* seenNodes[s] and seenEdges[s]: the nodes and edges it
    seenEdges,          \*    read last
    made,               \* made[s]: how many requests s has served
    unchecked,          \* history: edges came in that were not checked against
                        \*    all the others
    overtaken,          \* history: a version was written over one not loaded
    used, reused,       \* history: the versions with which updates were accepted,
                        \*    and whether one of them was accepted twice
    stable              \* history: the edges that were there all the time since
                        \*    the request of s began

store   == <<nodes, edges, version, deleted, born>>
seen    == <<seenVersion, seenNodes, seenEdges>>
service == <<at, request, todo, seen, made>>
history == <<unchecked, overtaken, used, reused, stable>>
vars    == <<store, service, history>>

Init ==
    /\ nodes = StartNodes /\ edges = StartEdges
    /\ version = 1 /\ deleted = FALSE
    /\ born = StartNodes
    /\ at = [s \in Session |-> "idle"]
    /\ request = [s \in Session |-> [kind |-> "duplicate"]]
    /\ todo = [s \in Session |-> << >>]
    /\ seenVersion = [s \in Session |-> 0]
    /\ seenNodes = [s \in Session |-> {}]
    /\ seenEdges = [s \in Session |-> {}]
    /\ made = [s \in Session |-> 0]
    /\ unchecked = FALSE /\ overtaken = FALSE
    /\ used = {} /\ reused = FALSE
    /\ stable = [s \in Session |-> {}]

------------------------------------------------------------------------------
(* A request begins and ends *)

\* The first thing a request reads.  createNodes looks for the workflow only,
\* deleted or not, and workflow rows are never removed.
FirstStep(r) == CASE r.kind = "createNodes" -> "write"
                  [] r.kind \in {"deleteNode", "deleteEdge"} -> "target"
                  [] r.kind = "createEdges" -> "nodes"
                  [] OTHER -> "workflow"

Begin(s, r) ==
    /\ at[s] = "idle"
    /\ made[s] < MaxRequests
    /\ made' = [made EXCEPT ![s] = @ + 1]
    /\ request' = [request EXCEPT ![s] = r]
    /\ todo' = [todo EXCEPT ![s] = IF r.kind = "createEdges" THEN r.batch ELSE << >>]
    /\ at' = [at EXCEPT ![s] = FirstStep(r)]
    /\ stable' = [stable EXCEPT ![s] = edges]
    /\ UNCHANGED <<store, seen, unchecked, overtaken, used, reused>>

\* The transaction of s is over; its session forgets what it read.
End(s) ==
    /\ at' = [at EXCEPT ![s] = "idle"]
    /\ todo' = [todo EXCEPT ![s] = << >>]
    /\ seenVersion' = [seenVersion EXCEPT ![s] = 0]
    /\ seenNodes' = [seenNodes EXCEPT ![s] = {}]
    /\ seenEdges' = [seenEdges EXCEPT ![s] = {}]
    /\ UNCHANGED <<request, made>>

\* The request fails, at whatever it is doing: get_db rolls back.
Abort(s) ==
    /\ at[s] # "idle"
    /\ End(s)
    /\ UNCHANGED <<store, history>>

\* An error response: nothing has been written.
Refuse(s) == End(s) /\ UNCHANGED <<store, history>>

\* s goes on to its step p.
GoOn(s, p) ==
    /\ at' = [at EXCEPT ![s] = p]
    /\ UNCHANGED <<store, request, made, history>>

------------------------------------------------------------------------------
(* Reading *)

\* WorkflowService.get: 404 when deleted, 409 when the version is not the
\* client's.
LoadWorkflow(s) ==
    /\ at[s] = "workflow"
    /\ LET r == request[s] IN
       IF deleted \/ (r.kind \in {"update", "replace"} /\ r.version # version)
       THEN Refuse(s)
       ELSE /\ GoOn(s, IF r.kind \in {"replace", "duplicate"} THEN "again" ELSE "write")
            /\ seenVersion' = [seenVersion EXCEPT ![s] = version]
            /\ UNCHANGED <<todo, seenNodes, seenEdges>>

\* NodeService.get and EdgeService.get before a deletion.
LoadTarget(s) ==
    /\ at[s] = "target"
    /\ LET r == request[s] IN
       IF \/ r.kind = "deleteNode" /\ r.node \notin nodes
          \/ r.kind = "deleteEdge" /\ r.edge \notin edges
       THEN Refuse(s)
       ELSE GoOn(s, "write") /\ UNCHANGED <<todo, seen>>

\* get_with_nodes: the workflow again, whose object keeps the version it has, ...
LoadAgain(s) ==
    /\ at[s] = "again"
    /\ IF deleted
       THEN Refuse(s)
       ELSE GoOn(s, "nodes") /\ UNCHANGED <<todo, seen>>

\* ... then its nodes ...
SelectNodes(s) ==
    /\ at[s] = "nodes"
    /\ request[s].kind \in {"replace", "duplicate"}
    /\ GoOn(s, "edges")
    /\ seenNodes' = [seenNodes EXCEPT ![s] = nodes]
    /\ UNCHANGED <<todo, seenVersion, seenEdges>>

\* ... then its edges.
SelectEdges(s) ==
    /\ at[s] = "edges"
    /\ request[s].kind \in {"replace", "duplicate"}
    /\ GoOn(s, "write")
    /\ seenEdges' = [seenEdges EXCEPT ![s] = edges]
    /\ UNCHANGED <<todo, seenVersion, seenNodes>>

\* _validate_dag for the next edge of the batch: are its ends nodes of the
\* workflow, and ...
ValidateNodes(s) ==
    /\ at[s] = "nodes"
    /\ request[s].kind = "createEdges"
    /\ IF {Head(todo[s]).source, Head(todo[s]).target} \subseteq nodes
       THEN GoOn(s, "edges") /\ UNCHANGED <<todo, seen>>
       ELSE Refuse(s)

\* (mutant: the search runs along the edges, from the source)
ValidateEdgesForward(s) ==
    /\ at[s] = "edges"
    /\ request[s].kind = "createEdges"
    /\ IF Head(todo[s]).target \in ReachableFrom(Universe, edges, {Head(todo[s]).source})
       THEN Refuse(s)
       ELSE /\ GoOn(s, IF Len(todo[s]) = 1 THEN "write" ELSE "nodes")
            /\ todo' = [todo EXCEPT ![s] = Tail(@)]
            /\ seenEdges' = [seenEdges EXCEPT ![s] = edges]
            /\ UNCHANGED <<seenVersion, seenNodes>>

\* ... is there no path back among the edges stored now.  The other edges of
\* the batch are not looked at.
ValidateEdges(s) ==
    /\ at[s] = "edges"
    /\ request[s].kind = "createEdges"
    /\ IF ClosesCycle(Universe, edges, Head(todo[s]))
       THEN Refuse(s)
       ELSE /\ GoOn(s, IF Len(todo[s]) = 1 THEN "write" ELSE "nodes")
            /\ todo' = [todo EXCEPT ![s] = Tail(@)]
            /\ seenEdges' = [seenEdges EXCEPT ![s] = edges]
            /\ UNCHANGED <<seenVersion, seenNodes>>

------------------------------------------------------------------------------
(* Writing, with the commit *)

\* After a write the history knows which edges are still there.
Commit(s) == /\ End(s)
             /\ stable' = [z \in Session |-> stable[z] \cap edges']

WriteNodes(s) ==
    /\ at[s] = "write" /\ request[s].kind = "createNodes"
    /\ \E new \in SUBSET (Node \ born) \ {{}} :
          nodes' = nodes \cup new /\ born' = born \cup new
    /\ UNCHANGED <<edges, version, deleted, unchecked, overtaken, used, reused>>
    /\ Commit(s)

\* What is left of a set of edges when only the nodes N are.
Among(N, E) == {e \in E : {e.source, e.target} \subseteq N}

\* (mutant: the edges of the node are not deleted with it)
WriteNodeGoneOnly(s) ==
    /\ at[s] = "write" /\ request[s].kind = "deleteNode"
    /\ nodes' = nodes \ {request[s].node}
    /\ edges' = edges
    /\ UNCHANGED <<version, deleted, born, unchecked, overtaken, used, reused>>
    /\ Commit(s)

\* The edges of the node go with it (ON DELETE CASCADE).
WriteNodeGone(s) ==
    /\ at[s] = "write" /\ request[s].kind = "deleteNode"
    /\ nodes' = nodes \ {request[s].node}
    /\ edges' = Among(Universe \ {request[s].node}, edges)
    /\ UNCHANGED <<version, deleted, born, unchecked, overtaken, used, reused>>
    /\ Commit(s)

WriteEdgeGone(s) ==
    /\ at[s] = "write" /\ request[s].kind = "deleteEdge"
    /\ edges' = edges \ {request[s].edge}
    /\ UNCHANGED <<nodes, version, deleted, born, unchecked, overtaken, used, reused>>
    /\ Commit(s)

\* The constraints of the edges table: the ends exist, and no two edges are alike.
CanInsert(batch, N, E) ==
    /\ \A i \in DOMAIN batch : /\ {batch[i].source, batch[i].target} \subseteq N
                                /\ batch[i] \notin E
    /\ \A i, j \in DOMAIN batch : batch[i] = batch[j] => i = j

Inserted(batch) == {batch[i] : i \in DOMAIN batch}

\* The new edges were checked against all others if there is only one and none
\* has come in since its check.
WriteEdges(s) ==
    /\ at[s] = "write" /\ request[s].kind = "createEdges"
    /\ LET batch == request[s].batch IN
       IF CanInsert(batch, nodes \cup Foreign, edges)
       THEN /\ edges' = edges \cup Inserted(batch)
            /\ unchecked' = (unchecked \/ ~(Len(batch) = 1 /\ edges \subseteq seenEdges[s]))
            /\ Commit(s)
            /\ UNCHANGED <<nodes, version, deleted, born, overtaken, used, reused>>
       ELSE Refuse(s)

\* Accepting the client's version v: the row gets the loaded version plus one,
\* whatever it holds by now.
AcceptVersion(s, v) ==
    /\ version' = seenVersion[s] + 1
    /\ overtaken' = (overtaken \/ version # seenVersion[s])
    /\ used' = used \cup {v}
    /\ reused' = (reused \/ v \in used)

WriteUpdate(s) ==
    /\ at[s] = "write" /\ request[s].kind = "update"
    /\ AcceptVersion(s, request[s].version)
    /\ UNCHANGED <<nodes, edges, deleted, born, unchecked>>
    /\ Commit(s)

\* soft_delete
WriteDeleted(s) ==
    /\ at[s] = "write" /\ request[s].kind = "delete"
    /\ deleted' = TRUE
    /\ UNCHANGED <<nodes, edges, version, born, unchecked, overtaken, used, reused>>
    /\ Commit(s)

\* (mutant: the version is left as it is)
WriteGraphSameVersion(s) ==
    /\ at[s] = "write" /\ request[s].kind = "replace"
    /\ \E new \in SUBSET (Node \ born) :
          LET batch == IF new = {} THEN << >> ELSE request[s].batch
              keptN == nodes \ seenNodes[s]
              keptE == Among(keptN \cup Foreign, edges \ seenEdges[s])
          IN  IF CanInsert(batch, keptN \cup Foreign, keptE)
              THEN /\ nodes' = keptN \cup new
                   /\ edges' = keptE \cup Inserted(batch)
                   /\ born' = born \cup new
                   /\ unchecked' = (unchecked \/ batch # << >>)
                   /\ used' = used \cup {request[s].version}
                   /\ reused' = (reused \/ request[s].version \in used)
                   /\ Commit(s)
                   /\ UNCHANGED <<version, deleted, overtaken>>
              ELSE Refuse(s)

\* update_workflow_graph deletes what it has loaded, creates the new nodes and,
\* if there are any, the new edges as the client named their ends: not the new
\* nodes, whose identities it cannot know.  Nothing is validated but by the
\* constraints of the table.
WriteGraph(s) ==
    /\ at[s] = "write" /\ request[s].kind = "replace"
    /\ \E new \in SUBSET (Node \ born) :
          LET batch == IF new = {} THEN << >> ELSE request[s].batch
              keptN == nodes \ seenNodes[s]
              keptE == Among(keptN \cup Foreign, edges \ seenEdges[s])
          IN  IF CanInsert(batch, keptN \cup Foreign, keptE)
              THEN /\ nodes' = keptN \cup new
                   /\ edges' = keptE \cup Inserted(batch)
                   /\ born' = born \cup new
                   /\ unchecked' = (unchecked \/ batch # << >>)
                   /\ AcceptVersion(s, request[s].version)
                   /\ Commit(s)
                   /\ UNCHANGED deleted
              ELSE Refuse(s)

\* The edges of the duplicate: those whose ends were copied, too.
Copied(s) == Among(seenNodes[s], seenEdges[s])

\* duplicate() writes another workflow.
WriteDuplicate(s) ==
    /\ at[s] = "write" /\ request[s].kind = "duplicate"
    /\ UNCHANGED <<store, unchecked, overtaken, used, reused>>
    /\ Commit(s)

------------------------------------------------------------------------------
Read(s) == \/ LoadWorkflow(s) \/ LoadTarget(s)
           \/ LoadAgain(s) \/ SelectNodes(s) \/ SelectEdges(s)
           \/ ValidateNodes(s) \/ ValidateEdges(s)

Write(s) == \/ WriteNodes(s) \/ WriteNodeGone(s) \/ WriteEdges(s) \/ WriteEdgeGone(s)
            \/ WriteUpdate(s) \/ WriteDeleted(s) \/ WriteGraph(s) \/ WriteDuplicate(s)

Next == \E s \in Session : \/ \E r \in Requests : Begin(s, r)
                           \/ Read(s) \/ Write(s) \/ Abort(s)

Spec == Init /\ [][Next]_vars

------------------------------------------------------------------------------
(* Properties *)

\* Types, and the foreign keys: the ends of every edge exist.
TypeOK ==
    /\ nodes \subseteq Node /\ edges \subseteq Edge
    /\ edges = Among(nodes \cup Foreign, edges)
    /\ version \in Nat /\ deleted \in BOOLEAN
    /\ nodes \subseteq born /\ born \subseteq Node
    /\ at \in [Session -> {"idle", "workflow", "again", "target", "nodes", "edges", "write"}]
    /\ request \in [Session -> Request]
    /\ todo \in [Session -> Seq(Edge)]
    /\ seenVersion \in [Session -> Nat]
    /\ seenNodes \in [Session -> SUBSET Node]
    /\ seenEdges \in [Session -> SUBSET Edge]
    /\ made \in [Session -> 0 .. MaxRequests]
    /\ unchecked \in BOOLEAN /\ overtaken \in BOOLEAN /\ reused \in BOOLEAN
    /\ used \subseteq Nat
    /\ stable \in [Session -> SUBSET Edge]

\* The graph has a cycle only if edges came in together or at the same time as
\* others: deletions in between, nodes that vanish, stale reads of the nodes and
\* failed requests do no harm to an edge checked against all the others.
CycleNeedsRace == unchecked \/ Acyclic(Universe, edges)

\* Optimistic locking as long as no UPDATE overtakes another: every version up to
\* the present one was given up by exactly one accepted request.
VersionsUsedOnce ==
    overtaken \/ (used = 1 .. version - 1 /\ ~reused)

\* Those edges that join nodes of no other workflow.
Own(E) == {e \in E : {e.source, e.target} \cap Foreign = {}}

\* A duplicate has every edge that was there, between nodes of the workflow, from
\* the beginning of the request to its end, although nodes and edges are read at
\* different times.
DuplicateLosesNothing ==
    \A s \in Session : at[s] = "write" /\ request[s].kind = "duplicate" =>
        Own(stable[s]) \subseteq Copied(s)

------------------------------------------------------------------------------
(* What the repository says and the code does not do *)

\* .moai/specs/SPEC-007/spec.md:419: after the creation of a batch of edges the
\* whole workflow graph is to be verified to be acyclic.
StaysAcyclic == Acyclic(Universe, edges)
===============================================================================
