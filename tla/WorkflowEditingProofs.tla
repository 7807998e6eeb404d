------------------------- MODULE WorkflowEditingProofs -------------------------
(***************************************************************************)
(* Proofs about WorkflowEditing, for any number of nodes, sessions and     *)
(* requests: when the graph may get a cycle, what the version is worth,    *)
(* and that duplicates are complete.                                       *)
(***************************************************************************)
EXTENDS WorkflowEditing, TLAPS

------------------------------------------------------------------------------
(* Graphs *)

\* An edge closes no cycle exactly when some closed set separates its ends.
LEMMA Separation ==
    ASSUME NEW N, NEW E, NEW e, e.source \in N
    PROVE  ~ClosesCycle(N, E, e) <=>
              \E C \in SUBSET N : e.target \in C /\ Closed(E, C) /\ e.source \notin C
BY DEF ClosesCycle, ReachableFrom

\* Taking edges away closes no cycle.
LEMMA FewerEdgesAcyclic ==
    ASSUME NEW N, NEW E, NEW F \in SUBSET E,
           \A e \in E : e.source \in N,
           Acyclic(N, E)
    PROVE  Acyclic(N, F)
<1> SUFFICES ASSUME NEW f \in F
             PROVE  ~ClosesCycle(N, F, f)
  BY DEF Acyclic
<1>1. PICK C \in SUBSET N : f.target \in C /\ Closed(E, C) /\ f.source \notin C
  BY Separation DEF Acyclic
<1>2. Closed(F, C)
  BY <1>1 DEF Closed
<1> QED
  BY <1>1, <1>2, Separation

\* The heart of _validate_dag: an edge e that closes no cycle in S may be added to
\* any acyclic part E of S.  Let D separate the ends of e in S.  An old edge f is
\* separated by a set C in E; with e, it is separated by C \cap D when its source
\* is in D, and by C \cup D otherwise.
LEMMA CheckedEdgeAcyclic ==
    ASSUME NEW N, NEW S, NEW E \in SUBSET S, NEW e,
           e.source \in N, e.target \in N,
           \A f \in E : f.source \in N /\ f.target \in N,
           Acyclic(N, E), ~ClosesCycle(N, S, e)
    PROVE  Acyclic(N, E \cup {e})
<1>1. PICK D \in SUBSET N : e.target \in D /\ Closed(S, D) /\ e.source \notin D
  BY Separation
<1>2. Closed(E \cup {e}, D)
  BY <1>1 DEF Closed
<1> SUFFICES ASSUME NEW f \in E \cup {e}
             PROVE  ~ClosesCycle(N, E \cup {e}, f)
  BY DEF Acyclic
<1>3. CASE f = e
  BY <1>1, <1>2, <1>3, Separation
<1>4. CASE f \in E
  <2>1. PICK C \in SUBSET N : f.target \in C /\ Closed(E, C) /\ f.source \notin C
    BY <1>4, Separation DEF Acyclic
  <2>2. CASE f.source \in D
    <3>1. f.target \in C \cap D
      BY <1>2, <1>4, <2>1, <2>2 DEF Closed
    <3>2. Closed(E \cup {e}, C \cap D)
      BY <1>1, <1>2, <2>1 DEF Closed
    <3> QED
      BY <2>1, <3>1, <3>2, Separation
  <2>3. CASE f.source \notin D
    <3>1. Closed(E \cup {e}, C \cup D)
      BY <1>1, <1>2, <2>1 DEF Closed
    <3>2. f.source \notin C \cup D /\ f.target \in C \cup D
      BY <2>1, <2>3
    <3> QED
      BY <1>4, <3>1, <3>2, Separation
  <2> QED
    BY <2>2, <2>3
<1> QED
  BY <1>3, <1>4

------------------------------------------------------------------------------
(* The invariant *)

\* The request of s creates a single edge.
Single(s) == request[s].kind = "createEdges" /\ Len(request[s].batch) = 1

\* What a request does first depends on its kind, and an edge to validate is left.
RouteInv(s) ==
    /\ at[s] = "target" => request[s].kind \in {"deleteNode", "deleteEdge"}
    /\ at[s] = "workflow" => request[s].kind \in {"delete", "duplicate", "update", "replace"}
    /\ at[s] = "again" => request[s].kind \in {"replace", "duplicate"}
    /\ at[s] \in {"nodes", "edges"} /\ request[s].kind = "createEdges" => todo[s] # << >>

\* A single edge waits for its check, or has passed it.
CheckInv(s) ==
    Single(s) =>
        /\ at[s] \in {"nodes", "edges"} => todo[s] = request[s].batch
        /\ at[s] = "write" => ~ClosesCycle(Universe, seenEdges[s], request[s].batch[1])

\* A request that got past the version check loaded the version its client named.
VersionInv(s) ==
    request[s].kind \in {"update", "replace"} /\ at[s] \in {"again", "nodes", "edges", "write"}
        => request[s].version = seenVersion[s]

\* Edges that stay are there; once the nodes are read, their ends are among them,
\* and once the edges are read, they are.
CopyInv(s) ==
    /\ stable[s] \subseteq edges
    /\ request[s].kind = "duplicate" =>
          /\ at[s] \in {"edges", "write"} =>
                \A e \in Own(stable[s]) : {e.source, e.target} \subseteq seenNodes[s]
          /\ at[s] = "write" => Own(stable[s]) \subseteq seenEdges[s]

Known(s) == RouteInv(s) /\ CheckInv(s) /\ VersionInv(s) /\ CopyInv(s)

SessionInv == \A s \in Session : Known(s)

\* The types of the rows and of their history, and of what the sessions hold.
StoreType ==
    /\ nodes \subseteq Node /\ edges \subseteq Edge
    /\ edges = Among(nodes \cup Foreign, edges)
    /\ version \in Nat /\ deleted \in BOOLEAN
    /\ nodes \subseteq born /\ born \subseteq Node
    /\ unchecked \in BOOLEAN /\ overtaken \in BOOLEAN /\ reused \in BOOLEAN
    /\ used \subseteq Nat

SessionType ==
    /\ at \in [Session -> {"idle", "workflow", "again", "target", "nodes", "edges", "write"}]
    /\ request \in [Session -> Request]
    /\ todo \in [Session -> Seq(Edge)]
    /\ seenVersion \in [Session -> Nat]
    /\ seenNodes \in [Session -> SUBSET Node]
    /\ seenEdges \in [Session -> SUBSET Edge]
    /\ made \in [Session -> 0 .. MaxRequests]
    /\ stable \in [Session -> SUBSET Edge]

\* What holds of the rows, and what holds of the sessions.
StoreInv == StoreType /\ version > 0 /\ CycleNeedsRace /\ VersionsUsedOnce

EInv == StoreInv /\ SessionType /\ SessionInv

LEMMA TypeParts == TypeOK <=> StoreType /\ SessionType
BY DEF TypeOK, StoreType, SessionType

LEMMA EdgeFields ==
    ASSUME NEW e \in Edge
    PROVE  e.source \in Universe /\ e.target \in Universe
BY DEF Edge

\* What a request of each kind brings along.
LEMMA RequestFields ==
    ASSUME NEW r \in Request
    PROVE  /\ r.kind = "createEdges" => r.batch \in Seq(Edge) /\ r.batch # << >>
           /\ r.kind = "replace" => r.batch \in Seq(Edge) /\ r.version \in Nat
           /\ r.kind = "update" => r.version \in Nat
           /\ r.kind = "deleteNode" => r.node \in Node
           /\ r.kind = "deleteEdge" => r.edge \in Edge
BY DEF Request

LEMMA InitEInv == Init => EInv
<1> SUFFICES ASSUME Init PROVE EInv
  OBVIOUS
<1>1. StoreType
  <2>1. StartEdges = Among(StartNodes \cup Foreign, StartEdges)
    BY StartAssumption DEF Among
  <2> QED
    BY <2>1, StartAssumption DEF Init, StoreType
<1>2. SessionType
  <2>1. [kind |-> "duplicate"] \in Request
    BY DEF Request
  <2>2. 0 \in 0 .. MaxRequests
    BY MaxRequestsAssumption
  <2>3. << >> \in Seq(Edge)
    OBVIOUS
  <2>4. request \in [Session -> Request] /\ made \in [Session -> 0 .. MaxRequests]
    BY <2>1, <2>2 DEF Init
  <2> QED
    BY <2>3, <2>4 DEF Init, SessionType
<1>3. \A s \in Session : /\ at[s] = "idle" /\ stable[s] = {}
                         /\ request[s].kind = "duplicate"
  BY DEF Init
<1>4. SessionInv
  BY <1>3 DEF SessionInv, Known, RouteInv, CheckInv, VersionInv, CopyInv, Single, Own
<1>5. version > 0 /\ CycleNeedsRace /\ VersionsUsedOnce
  BY StartAssumption DEF Init, CycleNeedsRace, VersionsUsedOnce
<1> QED
  BY <1>1, <1>2, <1>4, <1>5 DEF EInv, StoreInv

------------------------------------------------------------------------------
(* Steps that leave the rows alone *)

LEMMA StoreKept ==
    ASSUME StoreInv, UNCHANGED <<store, unchecked, overtaken, used, reused>>
    PROVE  StoreInv'
BY DEF StoreInv, StoreType, CycleNeedsRace, VersionsUsedOnce, store, Among

\* What a session knows is disturbed neither by the steps of the others nor by
\* edges that come, and edges that go are not stable.
LEMMA KnownKept ==
    ASSUME NEW z, Known(z),
           at'[z] = at[z], request'[z] = request[z], todo'[z] = todo[z],
           seenVersion'[z] = seenVersion[z], seenNodes'[z] = seenNodes[z],
           seenEdges'[z] = seenEdges[z],
           stable'[z] \subseteq stable[z], stable'[z] \subseteq edges'
    PROVE  Known(z)'
<1>1. RouteInv(z)' /\ CheckInv(z)' /\ VersionInv(z)'
  BY DEF Known, RouteInv, CheckInv, Single, VersionInv
<1>2. CopyInv(z)'
  BY DEF Known, CopyInv, Own
<1> QED
  BY <1>1, <1>2 DEF Known

LEMMA BeginEInv ==
    ASSUME EInv, NEW s \in Session, NEW r \in Requests, Begin(s, r)
    PROVE  EInv'
<1>0. r \in Request /\ EInv /\ Begin(s, r)
  BY RequestsAssumption
<1>1. StoreInv'
  BY <1>0, StoreKept DEF EInv, Begin
<1>2. SessionType'
  <2>1. (IF r.kind = "createEdges" THEN r.batch ELSE << >>) \in Seq(Edge)
    BY <1>0, RequestFields
  <2>2. FirstStep(r) \in {"workflow", "target", "nodes", "write"}
    BY DEF FirstStep
  <2>3. made[s] + 1 \in 0 .. MaxRequests
    BY <1>0, MaxRequestsAssumption DEF EInv, SessionType, Begin
  <2>4. made' \in [Session -> 0 .. MaxRequests]
    BY <1>0, <2>3 DEF EInv, SessionType, Begin
  <2>5. todo' \in [Session -> Seq(Edge)] /\ request' \in [Session -> Request]
    BY <1>0, <2>1 DEF EInv, SessionType, Begin
  <2>6. stable' \in [Session -> SUBSET Edge]
    BY <1>0 DEF EInv, SessionType, StoreInv, StoreType, Begin
  <2> QED
    BY <1>0, <2>2, <2>4, <2>5, <2>6 DEF EInv, SessionType, Begin, seen
<1>3. UNCHANGED <<edges, seenVersion, seenNodes, seenEdges>>
  BY <1>0 DEF Begin, store, seen
<1>4. ASSUME NEW z \in Session, z # s PROVE Known(z)'
  <2>1. /\ at'[z] = at[z] /\ request'[z] = request[z] /\ todo'[z] = todo[z]
        /\ stable'[z] = stable[z]
    BY <1>0, <1>4 DEF EInv, SessionType, Begin
  <2>2. Known(z) /\ stable[z] \subseteq edges
    BY <1>0 DEF EInv, SessionInv, Known, CopyInv
  <2> QED
    BY <1>3, <2>1, <2>2, KnownKept
<1>5. Known(s)'
  <2>1. /\ at'[s] = FirstStep(r) /\ request'[s] = r /\ stable'[s] = edges
        /\ todo'[s] = IF r.kind = "createEdges" THEN r.batch ELSE << >>
    BY <1>0 DEF EInv, SessionType, Begin
  <2>2. r.kind \in {"createNodes", "delete", "duplicate", "deleteNode", "deleteEdge",
                     "createEdges", "update", "replace"}
    BY <1>0 DEF Request
  <2>3. RouteInv(s)' /\ CheckInv(s)'
    BY <1>0, <2>1, <2>2, RequestFields DEF RouteInv, CheckInv, Single, FirstStep
  <2>4. VersionInv(s)' /\ CopyInv(s)'
    BY <1>3, <2>1, <2>2 DEF VersionInv, CopyInv, FirstStep
  <2> QED
    BY <2>3, <2>4 DEF Known
<1> QED
  BY <1>1, <1>2, <1>4, <1>5 DEF EInv, SessionInv

\* The end of a request, whatever it did: the others keep what they know, and the
\* edges that stay can only get fewer.
LEMMA EndSession ==
    ASSUME SessionType, SessionInv, NEW s \in Session, End(s),
           stable' \in [Session -> SUBSET Edge],
           \A z \in Session : stable'[z] \subseteq stable[z] \cap edges'
    PROVE  SessionType' /\ SessionInv'
<1>1. SessionType'
  <2>1. << >> \in Seq(Edge) /\ 0 \in Nat
    OBVIOUS
  <2>2. todo' \in [Session -> Seq(Edge)] /\ seenVersion' \in [Session -> Nat]
    BY <2>1 DEF SessionType, End
  <2>3. UNCHANGED <<request, made>>
    BY DEF End
  <2>4. /\ at' \in [Session -> {"idle", "workflow", "again", "target", "nodes", "edges", "write"}]
        /\ seenNodes' \in [Session -> SUBSET Node]
        /\ seenEdges' \in [Session -> SUBSET Edge]
    BY DEF SessionType, End
  <2> QED
    BY <2>2, <2>3, <2>4 DEF SessionType
<1>2. ASSUME NEW z \in Session, z # s PROVE Known(z)'
  <2>1. /\ at'[z] = at[z] /\ todo'[z] = todo[z] /\ seenVersion'[z] = seenVersion[z]
        /\ seenNodes'[z] = seenNodes[z] /\ seenEdges'[z] = seenEdges[z]
        /\ request'[z] = request[z]
    BY <1>2 DEF SessionType, End
  <2>2. Known(z)
    BY DEF SessionInv
  <2> QED
    BY <2>1, <2>2, KnownKept
<1>3. Known(s)'
  <2>1. at'[s] = "idle"
    BY DEF SessionType, End
  <2> QED
    BY <2>1 DEF Known, RouteInv, CheckInv, VersionInv, CopyInv
<1> QED
  BY <1>1, <1>2, <1>3 DEF SessionInv

LEMMA RefuseEInv ==
    ASSUME EInv, NEW s \in Session, Refuse(s)
    PROVE  EInv'
<1>1. StoreInv'
  BY StoreKept DEF EInv, Refuse, history
<1>2. UNCHANGED <<stable, edges>> /\ End(s)
  BY DEF Refuse, history, store
<1>3. \A z \in Session : stable'[z] \subseteq stable[z] \cap edges'
  BY <1>2 DEF EInv, SessionInv, Known, CopyInv
<1>4. SessionType' /\ SessionInv'
  BY <1>2, <1>3, EndSession DEF EInv, SessionType
<1> QED
  BY <1>1, <1>4 DEF EInv

------------------------------------------------------------------------------
(* Reading *)

\* A step of s to p: what is left to show is what s knows by then, and the types
\* of what it has read.
LEMMA GoOnEInv ==
    ASSUME EInv, NEW s \in Session,
           NEW p \in {"workflow", "again", "target", "nodes", "edges", "write"}, GoOn(s, p),
           todo' \in [Session -> Seq(Edge)],
           seenVersion' \in [Session -> Nat],
           seenNodes' \in [Session -> SUBSET Node],
           seenEdges' \in [Session -> SUBSET Edge],
           \A z \in Session \ {s} :
              /\ todo'[z] = todo[z] /\ seenVersion'[z] = seenVersion[z]
              /\ seenNodes'[z] = seenNodes[z] /\ seenEdges'[z] = seenEdges[z],
           at'[s] = p /\ UNCHANGED <<nodes, edges, version, request, stable>> => Known(s)'
    PROVE  EInv'
<1>1. StoreInv'
  BY StoreKept DEF EInv, GoOn, history
<1>2. UNCHANGED <<nodes, edges, version, request, stable, made>>
  BY DEF GoOn, store, history
<1>3. /\ at' \in [Session -> {"idle", "workflow", "again", "target", "nodes", "edges", "write"}]
      /\ at'[s] = p
      /\ \A z \in Session \ {s} : at'[z] = at[z]
  BY DEF EInv, SessionType, GoOn
<1>4. SessionType'
  BY <1>2, <1>3 DEF EInv, SessionType
<1>5. ASSUME NEW z \in Session, z # s PROVE Known(z)'
  <2>1. Known(z) /\ stable'[z] \subseteq edges'
    BY <1>2 DEF EInv, SessionInv, Known, CopyInv
  <2> QED
    BY <1>2, <1>3, <1>5, <2>1, KnownKept
<1>6. Known(s)'
  BY <1>2, <1>3
<1> QED
  BY <1>1, <1>4, <1>5, <1>6 DEF EInv, SessionInv

LEMMA LoadWorkflowEInv ==
    ASSUME EInv, NEW s \in Session, LoadWorkflow(s), ~Refuse(s)
    PROVE  EInv'
<1> DEFINE p == IF request[s].kind \in {"replace", "duplicate"} THEN "again" ELSE "write"
<1>1. /\ GoOn(s, p) /\ at[s] = "workflow"
      /\ seenVersion' = [seenVersion EXCEPT ![s] = version]
      /\ UNCHANGED <<todo, seenNodes, seenEdges>>
      /\ request[s].kind \in {"update", "replace"} => request[s].version = version
  BY DEF LoadWorkflow
<1>2. seenVersion' \in [Session -> Nat] /\ seenVersion'[s] = version
  BY <1>1 DEF EInv, SessionType, StoreInv, StoreType
<1>3. Known(s)
  BY DEF EInv, SessionInv
<1>4. ASSUME at'[s] = p /\ UNCHANGED <<nodes, edges, version, request, stable>>
      PROVE  Known(s)'
  BY <1>1, <1>2, <1>3, <1>4 DEF Known, RouteInv, CheckInv, Single, VersionInv, CopyInv
<1>5. p \in {"again", "write"}
  OBVIOUS
<1> HIDE DEF p
<1> QED
  BY <1>1, <1>2, <1>4, <1>5, GoOnEInv DEF EInv, SessionType

LEMMA LoadTargetEInv ==
    ASSUME EInv, NEW s \in Session, LoadTarget(s), ~Refuse(s)
    PROVE  EInv'
<1>1. GoOn(s, "write") /\ at[s] = "target" /\ UNCHANGED <<todo, seen>>
  BY DEF LoadTarget
<1>2. Known(s)
  BY DEF EInv, SessionInv
<1>3. ASSUME at'[s] = "write" /\ UNCHANGED <<nodes, edges, version, request, stable>>
      PROVE  Known(s)'
  BY <1>1, <1>2, <1>3
  DEF Known, RouteInv, CheckInv, Single, VersionInv, CopyInv, seen
<1> QED
  BY <1>1, <1>3, GoOnEInv DEF EInv, SessionType, seen

LEMMA LoadAgainEInv ==
    ASSUME EInv, NEW s \in Session, LoadAgain(s), ~Refuse(s)
    PROVE  EInv'
<1>1. GoOn(s, "nodes") /\ at[s] = "again" /\ UNCHANGED <<todo, seen>>
  BY DEF LoadAgain
<1>2. Known(s)
  BY DEF EInv, SessionInv
<1>3. ASSUME at'[s] = "nodes" /\ UNCHANGED <<nodes, edges, version, request, stable>>
      PROVE  Known(s)'
  BY <1>1, <1>2, <1>3
  DEF Known, RouteInv, CheckInv, Single, VersionInv, CopyInv, seen
<1> QED
  BY <1>1, <1>3, GoOnEInv DEF EInv, SessionType, seen

LEMMA SelectNodesEInv ==
    ASSUME EInv, NEW s \in Session, SelectNodes(s)
    PROVE  EInv'
<1>1. /\ GoOn(s, "edges") /\ at[s] = "nodes"
      /\ request[s].kind \in {"replace", "duplicate"}
      /\ seenNodes' = [seenNodes EXCEPT ![s] = nodes]
      /\ UNCHANGED <<todo, seenVersion, seenEdges>>
  BY DEF SelectNodes
<1>2. seenNodes' \in [Session -> SUBSET Node] /\ seenNodes'[s] = nodes
  BY <1>1 DEF EInv, SessionType, StoreInv, StoreType
<1>3. Known(s)
  BY DEF EInv, SessionInv
<1>4. ASSUME at'[s] = "edges" /\ UNCHANGED <<nodes, edges, version, request, stable>>
      PROVE  Known(s)'
  <2>1. \A e \in Own(stable[s]) : {e.source, e.target} \subseteq nodes
    BY <1>3 DEF EInv, StoreInv, StoreType, Among, Own, Known, CopyInv
  <2>2. CopyInv(s)'
    BY <1>2, <1>3, <1>4, <2>1 DEF Known, CopyInv, Own
  <2> QED
    BY <1>1, <1>3, <1>4, <2>2 DEF Known, RouteInv, CheckInv, Single, VersionInv
<1> QED
  BY <1>1, <1>2, <1>4, GoOnEInv DEF EInv, SessionType

LEMMA SelectEdgesEInv ==
    ASSUME EInv, NEW s \in Session, SelectEdges(s)
    PROVE  EInv'
<1>1. /\ GoOn(s, "write") /\ at[s] = "edges"
      /\ request[s].kind \in {"replace", "duplicate"}
      /\ seenEdges' = [seenEdges EXCEPT ![s] = edges]
      /\ UNCHANGED <<todo, seenVersion, seenNodes>>
  BY DEF SelectEdges
<1>2. seenEdges' \in [Session -> SUBSET Edge] /\ seenEdges'[s] = edges
  BY <1>1 DEF EInv, SessionType, StoreInv, StoreType
<1>3. Known(s)
  BY DEF EInv, SessionInv
<1>4. ASSUME at'[s] = "write" /\ UNCHANGED <<nodes, edges, version, request, stable>>
      PROVE  Known(s)'
  <2>1. CopyInv(s)'
    BY <1>1, <1>2, <1>3, <1>4 DEF Known, CopyInv, Own
  <2> QED
    BY <1>1, <1>3, <1>4, <2>1 DEF Known, RouteInv, CheckInv, Single, VersionInv
<1> QED
  BY <1>1, <1>2, <1>4, GoOnEInv DEF EInv, SessionType

LEMMA ValidateNodesEInv ==
    ASSUME EInv, NEW s \in Session, ValidateNodes(s), ~Refuse(s)
    PROVE  EInv'
<1>1. /\ GoOn(s, "edges") /\ at[s] = "nodes" /\ request[s].kind = "createEdges"
      /\ UNCHANGED <<todo, seen>>
  BY DEF ValidateNodes
<1>2. Known(s)
  BY DEF EInv, SessionInv
<1>3. ASSUME at'[s] = "edges" /\ UNCHANGED <<nodes, edges, version, request, stable>>
      PROVE  Known(s)'
  BY <1>1, <1>2, <1>3
  DEF Known, RouteInv, CheckInv, Single, VersionInv, CopyInv, seen
<1> QED
  BY <1>1, <1>3, GoOnEInv DEF EInv, SessionType, seen

LEMMA ValidateEdgesEInv ==
    ASSUME EInv, NEW s \in Session, ValidateEdges(s), ~Refuse(s)
    PROVE  EInv'
<1> DEFINE p == IF Len(todo[s]) = 1 THEN "write" ELSE "nodes"
<1>1. /\ GoOn(s, p) /\ at[s] = "edges" /\ request[s].kind = "createEdges"
      /\ ~ClosesCycle(Universe, edges, Head(todo[s]))
      /\ todo' = [todo EXCEPT ![s] = Tail(@)]
      /\ seenEdges' = [seenEdges EXCEPT ![s] = edges]
      /\ UNCHANGED <<seenVersion, seenNodes>>
  BY DEF ValidateEdges
<1>2. seenEdges' \in [Session -> SUBSET Edge] /\ seenEdges'[s] = edges
  BY <1>1 DEF EInv, SessionType, StoreInv, StoreType
<1>3. Known(s)
  BY DEF EInv, SessionInv
<1>4. /\ todo[s] \in Seq(Edge) /\ todo[s] # << >>
      /\ todo'[s] = Tail(todo[s]) /\ Tail(todo[s]) \in Seq(Edge)
  <2>1. todo[s] \in Seq(Edge) /\ todo[s] # << >>
    BY <1>1, <1>3 DEF EInv, SessionType, Known, RouteInv
  <2>2. Tail(todo[s]) \in Seq(Edge)
    BY <2>1
  <2> QED
    BY <1>1, <2>1, <2>2 DEF EInv, SessionType
<1>5. todo' \in [Session -> Seq(Edge)]
  BY <1>1, <1>4 DEF EInv, SessionType
<1>6. ASSUME at'[s] = p /\ UNCHANGED <<nodes, edges, version, request, stable>>
      PROVE  Known(s)'
  <2>1. RouteInv(s)'
    <3>1. at'[s] = "nodes" => Tail(todo[s]) # << >>
      <4>1. Len(todo[s]) # 0 /\ Len(Tail(todo[s])) = Len(todo[s]) - 1
        BY <1>4
      <4>2. at'[s] = "nodes" => Len(todo[s]) # 1
        BY <1>6
      <4>3. Len(todo[s]) # 1 => Len(Tail(todo[s])) # 0
        BY <1>4, <4>1
      <4>4. Len(<< >>) = 0
        OBVIOUS
      <4> QED
        BY <4>2, <4>3, <4>4
    <3> QED
      BY <1>1, <1>4, <1>6, <3>1 DEF RouteInv
  <2>2. CheckInv(s)'
    <3> SUFFICES ASSUME Single(s)'
                 PROVE  /\ at'[s] = "write"
                        /\ ~ClosesCycle(Universe, seenEdges'[s], request'[s].batch[1])
      BY DEF CheckInv
    <3>1. Single(s)
      BY <1>6 DEF Single
    <3>2. todo[s] = request[s].batch /\ Len(todo[s]) = 1
      BY <1>1, <1>3, <3>1 DEF Known, CheckInv, Single
    <3>3. Head(todo[s]) = request[s].batch[1]
      BY <3>2
    <3> QED
      BY <1>1, <1>2, <1>6, <3>2, <3>3
  <2> QED
    BY <1>1, <1>3, <1>6, <2>1, <2>2 DEF Known, VersionInv, CopyInv
<1>7. p \in {"nodes", "write"}
  OBVIOUS
<1> HIDE DEF p
<1> QED
  BY <1>1, <1>2, <1>5, <1>6, <1>7, GoOnEInv DEF EInv, SessionType

------------------------------------------------------------------------------
(* Writing *)

\* A write by s: what is left to show is what holds of the rows.
LEMMA CommitEInv ==
    ASSUME EInv, NEW s \in Session, Commit(s), StoreInv'
    PROVE  EInv'
<1>1. End(s) /\ stable' = [z \in Session |-> stable[z] \cap edges']
  BY DEF Commit
<1>2. stable' \in [Session -> SUBSET Edge]
  BY <1>1 DEF EInv, SessionType
<1>3. \A z \in Session : stable'[z] \subseteq stable[z] \cap edges'
  BY <1>1
<1>4. SessionType' /\ SessionInv'
  BY <1>1, <1>2, <1>3, EndSession DEF EInv
<1> QED
  BY <1>4 DEF EInv

\* Fewer edges: no new cycle.
LEMMA FewerEdges ==
    ASSUME StoreInv, edges' \subseteq edges, unchecked' = unchecked
    PROVE  CycleNeedsRace'
<1>1. \A e \in edges : e.source \in Universe
  BY EdgeFields DEF StoreInv, StoreType
<1>2. Acyclic(Universe, edges) => Acyclic(Universe, edges')
  BY <1>1, FewerEdgesAcyclic
<1> QED
  BY <1>2 DEF StoreInv, CycleNeedsRace

LEMMA WriteNodesEInv ==
    ASSUME EInv, NEW s \in Session, WriteNodes(s)
    PROVE  EInv'
<1>1. PICK new \in SUBSET (Node \ born) : nodes' = nodes \cup new /\ born' = born \cup new
  BY DEF WriteNodes
<1>2. UNCHANGED <<edges, version, deleted, unchecked, overtaken, used, reused>>
  BY DEF WriteNodes
<1>3. StoreType'
  BY <1>1, <1>2 DEF EInv, StoreInv, StoreType, Among
<1>4. StoreInv'
  BY <1>2, <1>3 DEF EInv, StoreInv, CycleNeedsRace, VersionsUsedOnce
<1> QED
  BY <1>4, CommitEInv DEF WriteNodes

LEMMA WriteNodeGoneEInv ==
    ASSUME EInv, NEW s \in Session, WriteNodeGone(s)
    PROVE  EInv'
<1>1. /\ nodes' = nodes \ {request[s].node}
      /\ edges' = Among(Universe \ {request[s].node}, edges)
      /\ UNCHANGED <<version, deleted, born, unchecked, overtaken, used, reused>>
  BY DEF WriteNodeGone
<1>2. edges' \subseteq edges
  BY <1>1 DEF Among
<1>3. StoreType'
  BY <1>1 DEF EInv, StoreInv, StoreType, Among
<1>4. CycleNeedsRace'
  BY <1>1, <1>2, FewerEdges DEF EInv
<1>5. StoreInv'
  BY <1>1, <1>3, <1>4 DEF EInv, StoreInv, VersionsUsedOnce
<1> QED
  BY <1>5, CommitEInv DEF WriteNodeGone

LEMMA WriteEdgeGoneEInv ==
    ASSUME EInv, NEW s \in Session, WriteEdgeGone(s)
    PROVE  EInv'
<1>1. /\ edges' = edges \ {request[s].edge}
      /\ UNCHANGED <<nodes, version, deleted, born, unchecked, overtaken, used, reused>>
  BY DEF WriteEdgeGone
<1>2. StoreType'
  BY <1>1 DEF EInv, StoreInv, StoreType, Among
<1>3. CycleNeedsRace'
  BY <1>1, FewerEdges DEF EInv
<1>4. StoreInv'
  BY <1>1, <1>2, <1>3 DEF EInv, StoreInv, VersionsUsedOnce
<1> QED
  BY <1>4, CommitEInv DEF WriteEdgeGone

\* The foreign keys hold after an insertion that the table accepts.
LEMMA InsertedEdges ==
    ASSUME NEW batch \in Seq(Edge), NEW N, NEW E, CanInsert(batch, N, E)
    PROVE  Inserted(batch) \subseteq Edge /\ Inserted(batch) = Among(N, Inserted(batch))
<1>1. \A i \in DOMAIN batch : batch[i] \in Edge
  OBVIOUS
<1> QED
  BY <1>1 DEF CanInsert, Inserted, Among

LEMMA WriteEdgesEInv ==
    ASSUME EInv, NEW s \in Session, WriteEdges(s), ~Refuse(s)
    PROVE  EInv'
<1> DEFINE batch == request[s].batch
<1>1. /\ CanInsert(batch, nodes \cup Foreign, edges)
      /\ edges' = edges \cup Inserted(batch)
      /\ unchecked' = (unchecked \/ ~(Len(batch) = 1 /\ edges \subseteq seenEdges[s]))
      /\ Commit(s)
      /\ UNCHANGED <<nodes, version, deleted, born, overtaken, used, reused>>
      /\ at[s] = "write" /\ request[s].kind = "createEdges"
  BY DEF WriteEdges
<1>2. batch \in Seq(Edge)
  BY <1>1, RequestFields DEF EInv, SessionType
<1>3. Inserted(batch) \subseteq Edge /\ Inserted(batch) = Among(nodes \cup Foreign, Inserted(batch))
  BY <1>1, <1>2, InsertedEdges
<1>4. StoreType'
  BY <1>1, <1>3 DEF EInv, StoreInv, StoreType, Among
<1>5. CycleNeedsRace'
  <2> SUFFICES ASSUME ~unchecked'
               PROVE  Acyclic(Universe, edges')
    BY DEF CycleNeedsRace
  <2>1. ~unchecked /\ Len(batch) = 1 /\ edges \subseteq seenEdges[s]
    BY <1>1, <1>4 DEF StoreType
  <2>2. Acyclic(Universe, edges)
    BY <2>1 DEF EInv, StoreInv, CycleNeedsRace
  <2>3. Inserted(batch) = {batch[1]} /\ batch[1] \in Edge
    BY <1>2, <2>1 DEF Inserted
  <2>4. ~ClosesCycle(Universe, seenEdges[s], batch[1])
    BY <1>1, <2>1 DEF EInv, SessionInv, Known, CheckInv, Single
  <2>5. /\ batch[1].source \in Universe /\ batch[1].target \in Universe
        /\ \A f \in edges : f.source \in Universe /\ f.target \in Universe
    BY <2>3, EdgeFields DEF EInv, StoreInv, StoreType
  <2> HIDE DEF batch
  <2>6. Acyclic(Universe, edges \cup {batch[1]})
    BY <2>1, <2>2, <2>4, <2>5, CheckedEdgeAcyclic
  <2> QED
    BY <1>1, <2>3, <2>6
<1>6. StoreInv'
  BY <1>1, <1>4, <1>5 DEF EInv, StoreInv, VersionsUsedOnce
<1> QED
  BY <1>1, <1>6, CommitEInv

\* Accepting a version: unless another update was overtaken, the version given up
\* is the present one, which nobody has given up before.
LEMMA AcceptVersionFacts ==
    ASSUME EInv, NEW s \in Session, NEW v \in Nat, AcceptVersion(s, v), seenVersion[s] = v
    PROVE  /\ version' \in Nat /\ version' > 0
           /\ overtaken' \in BOOLEAN /\ used' \subseteq Nat /\ reused' \in BOOLEAN
           /\ VersionsUsedOnce'
<1>1. /\ version' = v + 1
      /\ overtaken' = (overtaken \/ version # v)
      /\ used' = used \cup {v}
      /\ reused' = (reused \/ v \in used)
  BY DEF AcceptVersion
<1>2. version \in Nat /\ version > 0 /\ used \subseteq Nat
  BY DEF EInv, StoreInv, StoreType
<1>3. version' \in Nat /\ version' > 0 /\ used' \subseteq Nat
  BY <1>1, <1>2
<1>4. overtaken' \in BOOLEAN /\ reused' \in BOOLEAN
  BY <1>1
<1>5. VersionsUsedOnce'
  <2> SUFFICES ASSUME ~overtaken'
               PROVE  used' = 1 .. version' - 1 /\ ~reused'
    BY DEF VersionsUsedOnce
  <2>1. ~overtaken /\ version = v
    BY <1>1
  <2>2. used = 1 .. version - 1 /\ ~reused
    BY <2>1 DEF EInv, StoreInv, VersionsUsedOnce
  <2>3. v \notin used /\ 1 .. v = (1 .. v - 1) \cup {v}
    BY <1>2, <2>1, <2>2
  <2>4. version' - 1 = v
    BY <1>1
  <2>5. ~reused'
    BY <1>1, <2>2, <2>3
  <2> QED
    BY <1>1, <2>1, <2>2, <2>3, <2>4, <2>5
<1> QED
  BY <1>3, <1>4, <1>5

LEMMA WriteUpdateEInv ==
    ASSUME EInv, NEW s \in Session, WriteUpdate(s)
    PROVE  EInv'
<1>1. /\ AcceptVersion(s, request[s].version)
      /\ UNCHANGED <<nodes, edges, deleted, born, unchecked>>
      /\ at[s] = "write" /\ request[s].kind = "update"
  BY DEF WriteUpdate
<1>2. request[s].version \in Nat /\ seenVersion[s] = request[s].version
  BY <1>1, RequestFields DEF EInv, SessionType, SessionInv, Known, VersionInv
<1>3. /\ version' \in Nat /\ version' > 0
      /\ overtaken' \in BOOLEAN /\ used' \subseteq Nat /\ reused' \in BOOLEAN
      /\ VersionsUsedOnce'
  BY <1>1, <1>2, AcceptVersionFacts
<1>4. StoreType'
  BY <1>1, <1>3 DEF EInv, StoreInv, StoreType, Among
<1>5. StoreInv'
  BY <1>1, <1>3, <1>4 DEF EInv, StoreInv, CycleNeedsRace
<1> QED
  BY <1>5, CommitEInv DEF WriteUpdate

LEMMA WriteDeletedEInv ==
    ASSUME EInv, NEW s \in Session, WriteDeleted(s)
    PROVE  EInv'
<1>1. StoreInv'
  BY DEF WriteDeleted, EInv, StoreInv, StoreType, CycleNeedsRace, VersionsUsedOnce, Among
<1> QED
  BY <1>1, CommitEInv DEF WriteDeleted

LEMMA WriteGraphEInv ==
    ASSUME EInv, NEW s \in Session, WriteGraph(s), ~Refuse(s)
    PROVE  EInv'
<1> DEFINE keptN == nodes \ seenNodes[s]
           keptE == Among(keptN \cup Foreign, edges \ seenEdges[s])
           Batch(new) == IF new = {} THEN << >> ELSE request[s].batch
<1>1. at[s] = "write" /\ request[s].kind = "replace"
  BY DEF WriteGraph
<1>2. PICK new \in SUBSET (Node \ born) :
         /\ CanInsert(Batch(new), keptN \cup Foreign, keptE)
         /\ nodes' = keptN \cup new
         /\ edges' = keptE \cup Inserted(Batch(new))
         /\ born' = born \cup new
         /\ unchecked' = (unchecked \/ Batch(new) # << >>)
         /\ AcceptVersion(s, request[s].version)
         /\ Commit(s)
         /\ UNCHANGED deleted
  BY DEF WriteGraph
<1> DEFINE batch == Batch(new)
<1>3. batch \in Seq(Edge)
  <2>1. << >> \in Seq(Edge) /\ request[s].batch \in Seq(Edge)
    BY <1>1, RequestFields DEF EInv, SessionType
  <2> QED
    BY <2>1
<1>4. request[s].version \in Nat /\ seenVersion[s] = request[s].version
  BY <1>1, RequestFields DEF EInv, SessionType, SessionInv, Known, VersionInv
<1>5. /\ version' \in Nat /\ version' > 0
      /\ overtaken' \in BOOLEAN /\ used' \subseteq Nat /\ reused' \in BOOLEAN
      /\ VersionsUsedOnce'
  BY <1>2, <1>4, AcceptVersionFacts
<1> HIDE DEF batch
<1>6. /\ Inserted(batch) \subseteq Edge
      /\ Inserted(batch) = Among(keptN \cup Foreign, Inserted(batch))
  BY <1>2, <1>3, InsertedEdges DEF batch
<1>7. keptE \subseteq edges /\ keptE = Among(keptN \cup Foreign, keptE)
  BY DEF Among
<1>8. StoreType'
  <2>1. nodes' \subseteq born' /\ born' \subseteq Node /\ nodes' \subseteq Node
    BY <1>2 DEF EInv, StoreInv, StoreType
  <2>2. edges' = keptE \cup Inserted(batch) /\ keptN \subseteq nodes'
    BY <1>2 DEF batch
  <2> HIDE DEF keptE, keptN
  <2>3. edges' \subseteq Edge /\ edges' = Among(nodes' \cup Foreign, edges')
    BY <1>6, <1>7, <2>2 DEF EInv, StoreInv, StoreType, Among
  <2>4. unchecked' \in BOOLEAN /\ deleted' \in BOOLEAN
    BY <1>2 DEF EInv, StoreInv, StoreType
  <2> QED
    BY <1>5, <2>1, <2>3, <2>4 DEF StoreType
<1>9. CycleNeedsRace'
  <2>1. CASE unchecked'
    BY <2>1 DEF CycleNeedsRace
  <2>2. CASE ~unchecked'
    <3>1. batch = << >> /\ unchecked' = unchecked
      BY <1>2, <2>2 DEF batch, EInv, StoreInv, StoreType
    <3>2. Inserted(batch) = {}
      BY <3>1 DEF Inserted
    <3>3. edges' \subseteq edges
      BY <1>2, <1>7, <3>2 DEF batch
    <3> QED
      BY <3>1, <3>3, FewerEdges DEF EInv
  <2> QED
    BY <2>1, <2>2
<1>10. StoreInv'
  BY <1>5, <1>8, <1>9 DEF StoreInv
<1> QED
  BY <1>2, <1>10, CommitEInv

LEMMA WriteDuplicateEInv ==
    ASSUME EInv, NEW s \in Session, WriteDuplicate(s)
    PROVE  EInv'
<1>1. StoreInv'
  BY StoreKept DEF WriteDuplicate, EInv
<1> QED
  BY <1>1, CommitEInv DEF WriteDuplicate

------------------------------------------------------------------------------
(* The theorems *)

LEMMA NextEInv == EInv /\ [Next]_vars => EInv'
<1> SUFFICES ASSUME EInv, [Next]_vars PROVE EInv'
  OBVIOUS
<1>1. CASE UNCHANGED vars
  <2>1. StoreInv'
    BY <1>1, StoreKept DEF EInv, vars, history
  <2>2. SessionType'
    BY <1>1 DEF EInv, SessionType, vars, service, seen, history
  <2>3. \A z \in Session : Known(z)'
    <3> SUFFICES ASSUME NEW z \in Session PROVE Known(z)'
      OBVIOUS
    <3>1. Known(z) /\ stable[z] \subseteq edges
      BY DEF EInv, SessionInv, Known, CopyInv
    <3> QED
      BY <1>1, <3>1, KnownKept DEF vars, service, seen, history, store
  <2> QED
    BY <2>1, <2>2, <2>3 DEF EInv, SessionInv
<1>2. ASSUME NEW s \in Session, NEW r \in Requests, Begin(s, r) PROVE EInv'
  BY <1>2, BeginEInv
<1>3. ASSUME NEW s \in Session, Read(s) PROVE EInv'
  BY <1>3, RefuseEInv, LoadWorkflowEInv, LoadTargetEInv, LoadAgainEInv,
     SelectNodesEInv, SelectEdgesEInv, ValidateNodesEInv, ValidateEdgesEInv DEF Read
<1>4. ASSUME NEW s \in Session, Write(s) PROVE EInv'
  BY <1>4, RefuseEInv, WriteNodesEInv, WriteNodeGoneEInv, WriteEdgesEInv, WriteEdgeGoneEInv,
     WriteUpdateEInv, WriteDeletedEInv, WriteGraphEInv, WriteDuplicateEInv DEF Write
<1>5. ASSUME NEW s \in Session, Abort(s) PROVE EInv'
  BY <1>5, RefuseEInv DEF Abort, Refuse
<1> QED
  BY <1>1, <1>2, <1>3, <1>4, <1>5 DEF Next

LEMMA SpecEInv == Spec => []EInv
BY InitEInv, NextEInv, PTL DEF Spec

\* The types, and the foreign keys of the edges whatever nodes are deleted while
\* edges are created.
THEOREM EditingTypeOK == Spec => []TypeOK
<1>1. EInv => TypeOK
  BY TypeParts DEF EInv, StoreInv
<1> QED
  BY <1>1, SpecEInv, PTL

\* A workflow has a cycle only if edges came in unchecked: several at once, by the
\* replacement of the graph, or while others came in.
THEOREM EditingCycleNeedsRace == Spec => []CycleNeedsRace
<1>1. EInv => CycleNeedsRace
  BY DEF EInv, StoreInv
<1> QED
  BY <1>1, SpecEInv, PTL

\* Unless an UPDATE overtakes another, each version of the workflow is given up by
\* one accepted request.
THEOREM EditingVersionsUsedOnce == Spec => []VersionsUsedOnce
<1>1. EInv => VersionsUsedOnce
  BY DEF EInv, StoreInv
<1> QED
  BY <1>1, SpecEInv, PTL

\* A duplicate is complete in what was there all the time.
THEOREM EditingDuplicateLosesNothing == Spec => []DuplicateLosesNothing
<1>1. EInv => DuplicateLosesNothing
  BY DEF EInv, SessionInv, Known, CopyInv, DuplicateLosesNothing, Copied, Among
<1> QED
  BY <1>1, SpecEInv, PTL
==============================================================================
