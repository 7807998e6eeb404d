----------------------- MODULE ValidationCachingProofs -----------------------
(***************************************************************************)
(* Proofs about ValidationCaching, for any workflow, any requests and any  *)
(* number of sessions and edits.                                           *)
(***************************************************************************)
EXTENDS ValidationCaching, FiniteSetTheorems, TLAPS

Versions == 1 .. MaxEdits + 1

\* Sessions that have read the version and the nodes.
PastLookUp(s) == at[s] \in {"redis", "nodes", "edges"}

CTyped ==
    /\ version \in past /\ past \subseteq 1 .. epoch + 1
    /\ epoch \in Nat /\ epoch <= MaxEdits /\ replaced \in 0 .. epoch
    /\ overtaken \in BOOLEAN
    /\ cache \in [Versions -> SUBSET (0 .. epoch)]
    /\ at \in [Session -> {"idle", "lookup", "redis", "nodes", "edges"}]
    /\ key \in [Session -> Versions \cup {0}]
    /\ floor \in [Session -> 0 .. replaced]
    /\ basis \in [Session -> 0 .. epoch]
    /\ DOMAIN request = Session /\ DOMAIN answer = Session /\ DOMAIN seenNodes = Session
    /\ nodes \subseteq Node

\* A session at work has asked something, and has no answer yet.
Working ==
    \A s \in Session : at[s] # "idle" => request[s] \in Request /\ answer[s].result = "none"

\* As long as no update overtakes another, the version only grows, and what belongs to
\* the present version was made after the last replacement.
VersionsGrow ==
    overtaken \/
        /\ \A v \in past : v <= version
        /\ \A v \in Versions : cache[v] # {} => v <= version
        /\ \A entry \in cache[version] : entry >= replaced
        /\ \A s \in Session : PastLookUp(s) =>
              /\ key[s] \in 1 .. version
              /\ key[s] = version => floor[s] = replaced

\* The nodes a session has read are younger than the last replacement it knows of.
ReadAfterFloor == \A s \in Session : at[s] = "edges" => basis[s] >= floor[s]

\* The rows fit together as long as nothing was replaced, and a session whose nodes are
\* not outdated has read the nodes that are stored.
RowsFit ==
    /\ replaced = 0 => GraphNodes(nodes, edges) = nodes
    /\ \A s \in Session : at[s] = "edges" /\ basis[s] = epoch => seenNodes[s] = nodes

CInv == /\ CTyped /\ Working /\ VersionsGrow /\ ReadAfterFloor /\ RowsFit
        /\ ReplacementSeen /\ CrashNeedsRace

------------------------------------------------------------------------------
(* Graphs that are whole *)

LEMMA CycleWithinNodes ==
    ASSUME NEW N, NEW E, NEW c \in Cycles(N, E)
    PROVE  DOMAIN c \subseteq N
BY DEF Cycles

\* A request for a graph whose edges join its own nodes only fails on a self loop.
LEMMA WholeGraphNoCrash ==
    ASSUME NEW N, NEW E, GraphNodes(N, E) = N, NEW r \in Request,
           "crash" \in OutcomesOf(r, N, E)
    PROVE  r.kind = "checkEdge" /\ r.edge.source = r.edge.target
<1>1. r.kind \in {"validate", "topology", "checkCycle", "checkEdge", "checkBatch"}
    BY DEF Request
<1>2. CASE r.kind = "validate"
    <2>1. "crash" \in Outcomes(N, E, r.options)
        BY <1>2 DEF OutcomesOf
    <2>2. "crash" \in {IF DOMAIN c \subseteq N THEN "invalid" ELSE "crash"
                       : c \in Cycles(N, Pairs(E))}
        <3>1. CASE "CYCLE_DETECTED" \notin Errors(N, E, r.options)
            <4>1. Outcomes(N, E, r.options)
                  = {IF Errors(N, E, r.options) = {} THEN "valid" ELSE "invalid"}
                BY <3>1 DEF Outcomes
            <4> QED BY <2>1, <4>1
        <3>2. CASE "CYCLE_DETECTED" \in Errors(N, E, r.options)
            BY <2>1, <3>2 DEF Outcomes
        <3> QED BY <3>1, <3>2
    <2> QED BY <2>2, CycleWithinNodes
<1>3. CASE r.kind \in {"topology", "checkCycle"}
    BY <1>3 DEF OutcomesOf, CycleOutcomes
<1>4. CASE r.kind = "checkEdge" /\ r.edge.source # r.edge.target
    <2> DEFINE pair == [source |-> r.edge.source, target |-> r.edge.target]
    <2>1. "crash" \in EdgeOutcomes(N, E, r.edge)
        BY <1>4 DEF OutcomesOf
    <2>2. "crash" \in {IF DOMAIN c \subseteq N THEN "invalid" ELSE "crash"
                       : c \in CyclesThrough(N, Pairs(E), pair)}
        BY <1>4, <2>1, Zenon DEF EdgeOutcomes
    <2>3. CyclesThrough(N, Pairs(E), pair) \subseteq Cycles(N, Pairs(E) \cup {pair})
        BY DEF CyclesThrough
    <2> HIDE DEF pair
    <2> QED BY <2>2, <2>3, CycleWithinNodes
<1>5. CASE r.kind = "checkBatch"
    BY <1>5 DEF OutcomesOf, BatchOutcomes
<1> QED BY <1>1, <1>2, <1>3, <1>4, <1>5

------------------------------------------------------------------------------
(* The invariant *)

LEMMA InitCInv == ASSUME Init PROVE CInv
<1> USE DEF Init
<1>1. CTyped
    <2>1. /\ epoch \in Nat /\ epoch <= MaxEdits /\ replaced \in 0 .. epoch
          /\ past \subseteq 1 .. epoch + 1 /\ nodes \subseteq Node
        BY EditsAssumption
    <2>2. cache \in [Versions -> SUBSET (0 .. epoch)]
        BY DEF Versions
    <2>3. floor \in [Session -> 0 .. replaced] /\ basis \in [Session -> 0 .. epoch]
        OBVIOUS
    <2> QED BY <2>1, <2>2, <2>3 DEF CTyped
<1>2. Working /\ ReadAfterFloor
    BY DEF Working, ReadAfterFloor
<1>3. VersionsGrow
    BY EditsAssumption DEF VersionsGrow, Versions, PastLookUp
<1>4. RowsFit
    BY EditsAssumption DEF RowsFit, GraphNodes
<1>5. ReplacementSeen /\ CrashNeedsRace
    BY DEF ReplacementSeen, CrashNeedsRace, NoAnswer
<1> QED BY <1>1, <1>2, <1>3, <1>4, <1>5 DEF CInv

LEMMA BeginKeeps ==
    ASSUME CInv, NEW s \in Session, NEW r \in Requests[s], Begin(s, r)
    PROVE  CInv'
<1> USE DEF Begin, GoTo, store, history
<1>0. CTyped /\ r \in Request
    BY RequestsAssumption DEF CInv
<1>1. /\ at' = [at EXCEPT ![s] = "lookup"] /\ request' = [request EXCEPT ![s] = r]
      /\ answer' = [answer EXCEPT ![s] = NoAnswer] /\ at[s] = "idle"
    OBVIOUS
<1>2. CTyped'
    BY <1>0, <1>1 DEF CTyped
<1>3. \A q \in Session : q # s => /\ at'[q] = at[q] /\ request'[q] = request[q]
                                  /\ answer'[q] = answer[q]
    BY <1>0, <1>1 DEF CTyped
<1>4. at'[s] = "lookup" /\ request'[s] = r /\ answer'[s] = NoAnswer
    BY <1>0, <1>1 DEF CTyped
<1>5. Working'
    BY <1>0, <1>3, <1>4 DEF Working, CInv, NoAnswer
<1>6. VersionsGrow'
    BY <1>3, <1>4 DEF VersionsGrow, CInv, PastLookUp
<1>7. ReadAfterFloor'
    BY <1>3, <1>4 DEF ReadAfterFloor, CInv
<1>8. RowsFit'
    BY <1>3, <1>4 DEF RowsFit, CInv
<1>9. ReplacementSeen' /\ CrashNeedsRace'
    BY <1>3, <1>4 DEF ReplacementSeen, CrashNeedsRace, CInv, NoAnswer
<1> QED BY <1>2, <1>5, <1>6, <1>7, <1>8, <1>9 DEF CInv

LEMMA LookUpKeeps ==
    ASSUME CInv, NEW s \in Session, LookUp(s)
    PROVE  CInv'
<1> USE DEF store, history
<1>0. CTyped
    BY DEF CInv
<1>v. version \in Versions
    BY <1>0, EditsAssumption DEF CTyped, Versions
<1>1. /\ at[s] = "lookup"
      /\ key' = [key EXCEPT ![s] = version] /\ floor' = [floor EXCEPT ![s] = replaced]
      /\ UNCHANGED <<nodes, edges, version, past, backend, epoch, replaced, overtaken>>
    BY DEF LookUp
<1>2. UNCHANGED <<request, seenNodes, basis>>
    BY DEF LookUp, GetCached
<1>3. \/ /\ cache' = cache \/ cache' = [cache EXCEPT ![version] = {}]
         /\ answer' = answer
         /\ \E place \in {"redis", "nodes"} : at' = [at EXCEPT ![s] = place]
      \/ \E entry \in cache[version] :
            /\ answer' = [answer EXCEPT ![s] = [result |-> "valid", cached |-> TRUE,
                                   basis |-> entry, torn |-> FALSE, warnings |-> {}]]
            /\ cache' = cache /\ at' = [at EXCEPT ![s] = "idle"]
    BY DEF LookUp, GetCached, GoTo, Key
<1>4. /\ DOMAIN answer' = Session
      /\ \A q \in Session : q # s => at'[q] = at[q] /\ answer'[q] = answer[q]
      /\ \A w \in Versions : cache'[w] \subseteq cache[w]
      /\ cache' \in [Versions -> SUBSET (0 .. epoch)]
      /\ at' \in [Session -> {"idle", "lookup", "redis", "nodes", "edges"}]
    BY <1>0, <1>1, <1>3 DEF CTyped
<1>5. \/ at'[s] \in {"redis", "nodes"} /\ answer'[s] = answer[s]
      \/ /\ at'[s] = "idle" /\ answer'[s].result = "valid"
         /\ answer'[s].basis \in cache[version]
    BY <1>0, <1>1, <1>3 DEF CTyped
<1>6. /\ key' \in [Session -> Versions \cup {0}] /\ floor' \in [Session -> 0 .. replaced]
      /\ key'[s] = version /\ floor'[s] = replaced
      /\ \A q \in Session : q # s => key'[q] = key[q] /\ floor'[q] = floor[q]
    BY <1>0, <1>1, <1>v DEF CTyped
<1>7. CTyped'
    BY <1>0, <1>1, <1>2, <1>4, <1>6 DEF CTyped
<1>8. Working'
    BY <1>1, <1>2, <1>4, <1>5 DEF Working, CInv
<1>9. VersionsGrow'
    <2>1. SUFFICES ASSUME ~overtaken PROVE VersionsGrow'
        BY <1>1 DEF VersionsGrow
    <2>2. /\ \A w \in past : w <= version
          /\ \A w \in Versions : cache[w] # {} => w <= version
          /\ \A entry \in cache[version] : entry >= replaced
          /\ \A q \in Session : PastLookUp(q) =>
                key[q] \in 1 .. version /\ (key[q] = version => floor[q] = replaced)
        BY <2>1 DEF CInv, VersionsGrow
    <2>3. version \in 1 .. version
        BY <1>v, EditsAssumption DEF Versions
    <2>4. \A q \in Session : PastLookUp(q)' =>
              key'[q] \in 1 .. version /\ (key'[q] = version => floor'[q] = replaced)
        BY <2>2, <2>3, <1>4, <1>5, <1>6 DEF PastLookUp
    <2> QED BY <1>1, <1>4, <1>v, <2>2, <2>4 DEF VersionsGrow
<1>10. ReadAfterFloor'
    BY <1>2, <1>4, <1>5, <1>6 DEF ReadAfterFloor, CInv
<1>11. RowsFit'
    BY <1>1, <1>2, <1>4, <1>5 DEF RowsFit, CInv
<1>12. ReplacementSeen'
    <2>1. overtaken \/ \A entry \in cache[version] : entry >= replaced
        BY DEF CInv, VersionsGrow
    <2>2. answer[s].result = "none"
        BY <1>1 DEF CInv, Working
    <2> QED BY <1>1, <1>4, <1>5, <1>6, <2>1, <2>2 DEF ReplacementSeen, CInv
<1>13. CrashNeedsRace'
    BY <1>1, <1>2, <1>4, <1>5 DEF CrashNeedsRace, CInv, Working
<1> QED BY <1>7, <1>8, <1>9, <1>10, <1>11, <1>12, <1>13 DEF CInv

LEMMA MissInRedisKeeps ==
    ASSUME CInv, NEW s \in Session, MissInRedis(s)
    PROVE  CInv'
<1>0. /\ CTyped /\ at' = [at EXCEPT ![s] = "nodes"] /\ at[s] = "redis"
      /\ UNCHANGED <<nodes, edges, version, past, backend, cache, request, key, seenNodes,
                     basis, floor, answer, epoch, replaced, overtaken>>
    BY DEF CInv, MissInRedis, GoTo, store, history
<1>1. at'[s] = "nodes" /\ \A q \in Session : q # s => at'[q] = at[q]
    BY <1>0 DEF CTyped
<1>2. CTyped'
    BY <1>0 DEF CTyped
<1>3. Working' /\ ReadAfterFloor' /\ RowsFit'
    BY <1>0, <1>1 DEF CInv, Working, ReadAfterFloor, RowsFit
<1>4. VersionsGrow'
    BY <1>0, <1>1 DEF CInv, VersionsGrow, PastLookUp
<1>5. ReplacementSeen' /\ CrashNeedsRace'
    BY <1>0 DEF CInv, ReplacementSeen, CrashNeedsRace
<1> QED BY <1>2, <1>3, <1>4, <1>5 DEF CInv

LEMMA SelectNodesKeeps ==
    ASSUME CInv, NEW s \in Session, SelectNodes(s)
    PROVE  CInv'
<1>0. /\ CTyped /\ at' = [at EXCEPT ![s] = "edges"] /\ at[s] = "nodes"
      /\ seenNodes' = [seenNodes EXCEPT ![s] = nodes]
      /\ basis' = [basis EXCEPT ![s] = epoch]
      /\ UNCHANGED <<nodes, edges, version, past, backend, cache, request, key, floor,
                     answer, epoch, replaced, overtaken>>
    BY DEF CInv, SelectNodes, GoTo, store, history
<1>1. /\ at'[s] = "edges" /\ seenNodes'[s] = nodes /\ basis'[s] = epoch
      /\ \A q \in Session : q # s => /\ at'[q] = at[q] /\ basis'[q] = basis[q]
                                     /\ seenNodes'[q] = seenNodes[q]
    BY <1>0 DEF CTyped
<1>2. CTyped'
    BY <1>0 DEF CTyped
<1>3. Working' /\ RowsFit'
    BY <1>0, <1>1 DEF CInv, Working, RowsFit
<1>4. VersionsGrow'
    BY <1>0, <1>1 DEF CInv, VersionsGrow, PastLookUp
<1>5. ReadAfterFloor'
    <2>1. epoch >= floor[s]
        BY <1>0 DEF CTyped
    <2> QED BY <1>0, <1>1, <2>1 DEF CInv, ReadAfterFloor
<1>6. ReplacementSeen' /\ CrashNeedsRace'
    BY <1>0 DEF CInv, ReplacementSeen, CrashNeedsRace
<1> QED BY <1>2, <1>3, <1>4, <1>5, <1>6 DEF CInv

\* An answer that ends a request, and the entry it may leave in the cache.
LEMMA RespondKeeps ==
    ASSUME CInv, NEW s \in Session, NEW a, Respond(s, a),
           UNCHANGED <<store, backend, history>>,
           \/ cache' = cache
           \/ at[s] = "edges" /\ cache' = [cache EXCEPT ![key[s]] = {basis[s]}],
           a.result \in {"valid", "invalid"} => at[s] = "edges" /\ a.basis = basis[s],
           a.result = "crash" =>
               \/ a.torn
               \/ replaced > 0
               \/ request[s].kind = "checkEdge"
                  /\ request[s].edge.source = request[s].edge.target
    PROVE  CInv'
<1>0. /\ CTyped /\ at' = [at EXCEPT ![s] = "idle"] /\ answer' = [answer EXCEPT ![s] = a]
      /\ seenNodes' = [seenNodes EXCEPT ![s] = {}] /\ basis' = [basis EXCEPT ![s] = 0]
      /\ key' = [key EXCEPT ![s] = 0]
      /\ UNCHANGED <<nodes, edges, version, past, request, floor, epoch, replaced, overtaken>>
    BY DEF CInv, Respond, GoTo, store, history
<1>1. /\ at'[s] = "idle" /\ answer'[s] = a
      /\ \A q \in Session : q # s =>
            /\ at'[q] = at[q] /\ basis'[q] = basis[q] /\ seenNodes'[q] = seenNodes[q]
            /\ key'[q] = key[q] /\ answer'[q] = answer[q]
    BY <1>0 DEF CTyped
<1>2. CTyped'
    <2>1. cache' \in [Versions -> SUBSET (0 .. epoch)]
        BY <1>0 DEF CTyped
    <2>2. /\ basis' \in [Session -> 0 .. epoch] /\ key' \in [Session -> Versions \cup {0}]
          /\ at' \in [Session -> {"idle", "lookup", "redis", "nodes", "edges"}]
        BY <1>0 DEF CTyped
    <2>3. DOMAIN answer' = Session /\ DOMAIN seenNodes' = Session /\ DOMAIN request' = Session
        BY <1>0 DEF CTyped
    <2> QED BY <1>0, <2>1, <2>2, <2>3 DEF CTyped
<1>3. Working' /\ ReadAfterFloor' /\ RowsFit'
    BY <1>0, <1>1 DEF CInv, Working, ReadAfterFloor, RowsFit
<1>4. VersionsGrow'
    <2>1. SUFFICES ASSUME ~overtaken PROVE VersionsGrow'
        BY <1>0 DEF VersionsGrow
    <2>2. /\ \A w \in past : w <= version
          /\ \A w \in Versions : cache[w] # {} => w <= version
          /\ \A entry \in cache[version] : entry >= replaced
          /\ \A q \in Session : PastLookUp(q) =>
                key[q] \in 1 .. version /\ (key[q] = version => floor[q] = replaced)
        BY <2>1 DEF CInv, VersionsGrow
    <2>3. \A q \in Session : PastLookUp(q)' =>
              key'[q] \in 1 .. version /\ (key'[q] = version => floor[q] = replaced)
        BY <1>1, <2>2 DEF PastLookUp
    <2>4. version \in Versions
        BY <1>0, EditsAssumption DEF CTyped, Versions
    <2>5. CASE cache' = cache
        BY <1>0, <2>2, <2>3, <2>5 DEF VersionsGrow
    <2>6. CASE at[s] = "edges" /\ cache' = [cache EXCEPT ![key[s]] = {basis[s]}]
        <3>1. /\ key[s] \in 1 .. version /\ basis[s] >= floor[s]
              /\ key[s] = version => floor[s] = replaced
            BY <2>2, <2>6 DEF PastLookUp, CInv, ReadAfterFloor
        <3>2. \A w \in Versions : w # key[s] => cache'[w] = cache[w]
            BY <1>0, <2>6 DEF CTyped
        <3>3. key[s] \in Versions => cache'[key[s]] = {basis[s]}
            BY <1>0, <2>6 DEF CTyped
        <3>4. \A w \in Versions : cache'[w] # {} => w <= version
            BY <2>2, <3>1, <3>2
        <3>5. \A entry \in cache'[version] : entry >= replaced
            BY <2>2, <2>4, <3>1, <3>2, <3>3
        <3> QED BY <1>0, <2>2, <2>3, <3>4, <3>5 DEF VersionsGrow
    <2> QED BY <2>5, <2>6
<1>5. ReplacementSeen'
    BY <1>0, <1>1 DEF CInv, ReplacementSeen, ReadAfterFloor
<1>6. CrashNeedsRace'
    BY <1>0, <1>1 DEF CInv, CrashNeedsRace
<1> QED BY <1>2, <1>3, <1>4, <1>5, <1>6 DEF CInv

LEMMA TimeOutKeeps ==
    ASSUME CInv, NEW s \in Session, TimeOut(s)
    PROVE  CInv'
<1> DEFINE a == [NoAnswer EXCEPT !.result = "timeout"]
<1>1. a.result = "timeout"
    BY DEF NoAnswer
<1>2. Respond(s, a) /\ UNCHANGED <<store, backend, history>> /\ cache' = cache
    BY DEF TimeOut
<1> HIDE DEF a
<1> QED BY <1>1, <1>2, RespondKeeps

LEMMA SelectEdgesKeeps ==
    ASSUME CInv, NEW s \in Session, SelectEdges(s)
    PROVE  CInv'
<1>1. PICK result \in OutcomesOf(request[s], seenNodes[s], edges) :
          /\ Respond(s, [result |-> result, cached |-> FALSE, basis |-> basis[s],
                         torn |-> epoch # basis[s],
                         warnings |-> IF request[s].kind = "validate"
                                      THEN DeadEndWarnings(seenNodes[s], edges) ELSE {}])
          /\ cache' = IF request[s].kind = "validate" /\ result = "valid"
                      THEN StoredIn(key[s], basis[s]) ELSE cache
    BY DEF SelectEdges
<1> DEFINE a == [result |-> result, cached |-> FALSE, basis |-> basis[s],
                 torn |-> epoch # basis[s],
                 warnings |-> IF request[s].kind = "validate"
                              THEN DeadEndWarnings(seenNodes[s], edges) ELSE {}]
<1>2. /\ Respond(s, a) /\ UNCHANGED <<store, backend, history>> /\ at[s] = "edges"
      /\ a.result = result /\ a.basis = basis[s] /\ a.torn = (epoch # basis[s])
    BY <1>1 DEF SelectEdges
<1>3. cache' = cache \/ cache' = [cache EXCEPT ![key[s]] = {basis[s]}]
    BY <1>1 DEF StoredIn, Key
<1> HIDE DEF a
<1>4. ASSUME a.result = "crash", ~a.torn, ~(replaced > 0)
      PROVE  request[s].kind = "checkEdge" /\ request[s].edge.source = request[s].edge.target
    <2>1. replaced = 0
        BY <1>4 DEF CInv, CTyped
    <2>2. seenNodes[s] = nodes /\ GraphNodes(nodes, edges) = nodes
        BY <1>2, <1>4, <2>1 DEF CInv, RowsFit
    <2>3. request[s] \in Request
        BY <1>2 DEF CInv, Working
    <2>4. "crash" \in OutcomesOf(request[s], nodes, edges)
        BY <1>1, <1>2, <1>4, <2>2
    <2> QED BY <2>2, <2>3, <2>4, WholeGraphNoCrash
<1> QED BY <1>2, <1>3, <1>4, RespondKeeps

------------------------------------------------------------------------------
(* Edits *)

\* An edit that leaves the version and the reading sessions alone.
LEMMA RowEditKeeps ==
    ASSUME CInv, Commit, UNCHANGED <<version, past, replaced, overtaken>>,
           nodes' \subseteq Node,
           replaced = 0 => GraphNodes(nodes', edges') = nodes'
    PROVE  CInv'
<1>0. /\ CTyped /\ epoch' = epoch + 1 /\ epoch < MaxEdits
      /\ UNCHANGED <<cache, at, request, key, seenNodes, basis, floor, answer>>
    BY DEF CInv, Commit, reading
<1>1. CTyped'
    <2>1. /\ epoch' \in Nat /\ epoch' <= MaxEdits /\ replaced' \in 0 .. epoch'
          /\ past' \subseteq 1 .. epoch' + 1 /\ version' \in past' /\ overtaken' \in BOOLEAN
        BY <1>0, EditsAssumption DEF CTyped
    <2>2. cache' \in [Versions -> SUBSET (0 .. epoch')]
        BY <1>0 DEF CTyped
    <2>3. floor' \in [Session -> 0 .. replaced'] /\ basis' \in [Session -> 0 .. epoch']
        BY <1>0 DEF CTyped
    <2> QED BY <1>0, <2>1, <2>2, <2>3 DEF CTyped
<1>2. Working' /\ ReadAfterFloor' /\ VersionsGrow'
    BY <1>0 DEF CInv, Working, ReadAfterFloor, VersionsGrow, PastLookUp
<1>3. RowsFit'
    <2>1. \A s \in Session : basis'[s] # epoch'
        BY <1>0 DEF CTyped
    <2> QED BY <2>1 DEF RowsFit, GraphNodes
<1>4. ReplacementSeen' /\ CrashNeedsRace'
    BY <1>0 DEF CInv, ReplacementSeen, CrashNeedsRace
<1> QED BY <1>1, <1>2, <1>3, <1>4 DEF CInv

LEMMA CreateNodeKeeps ==
    ASSUME CInv, NEW n \in Node, CreateNode(n)
    PROVE  CInv'
<1>1. nodes' \subseteq Node
    BY DEF CInv, CTyped, CreateNode
<1>2. replaced = 0 => GraphNodes(nodes', edges') = nodes'
    BY DEF CInv, RowsFit, GraphNodes, CreateNode
<1> QED BY <1>1, <1>2, RowEditKeeps DEF CreateNode

LEMMA DeleteNodeKeeps ==
    ASSUME CInv, NEW n \in Node, DeleteNode(n)
    PROVE  CInv'
<1>1. nodes' \subseteq Node
    BY DEF CInv, CTyped, DeleteNode
<1>2. ASSUME replaced = 0 PROVE GraphNodes(nodes', edges') = nodes'
    <2>1. \A e \in edges : e.source \in nodes /\ e.target \in nodes
        BY <1>2 DEF CInv, RowsFit, GraphNodes
    <2>2. nodes \cap Foreign = {}
        BY NodeRowAssumption DEF CInv, CTyped
    <2>3. nodes' = nodes \ {n} /\ edges' = Fits(nodes \ {n}, edges)
        BY DEF DeleteNode
    <2>4. \A e \in edges' : e.source \in nodes' /\ e.target \in nodes'
        BY <2>1, <2>2, <2>3 DEF Fits
    <2> QED BY <2>4 DEF GraphNodes
<1> QED BY <1>1, <1>2, RowEditKeeps DEF DeleteNode

LEMMA CreateEdgesKeeps ==
    ASSUME CInv, NEW batch, CreateEdges(batch)
    PROVE  CInv'
<1>1. nodes' \subseteq Node
    BY DEF CInv, CTyped, CreateEdges
<1>2. replaced = 0 => GraphNodes(nodes', edges') = nodes'
    BY DEF CInv, RowsFit, GraphNodes, CreateEdges
<1> QED BY <1>1, <1>2, RowEditKeeps DEF CreateEdges

LEMMA DeleteEdgeKeeps ==
    ASSUME CInv, NEW e, DeleteEdge(e)
    PROVE  CInv'
<1>1. nodes' \subseteq Node
    BY DEF CInv, CTyped, DeleteEdge
<1>2. replaced = 0 => GraphNodes(nodes', edges') = nodes'
    BY DEF CInv, RowsFit, GraphNodes, DeleteEdge
<1> QED BY <1>1, <1>2, RowEditKeeps DEF DeleteEdge

\* An edit that writes a version: the new one is greater than every other, and nothing
\* belongs to it yet, unless it overtakes another edit.
LEMMA VersionEditKeeps ==
    ASSUME CInv, Commit, NEW v \in past, BumpVersion(v),
           nodes' \subseteq Node,
           replaced' = replaced \/ replaced' = epoch',
           replaced' = 0 => replaced = 0 /\ UNCHANGED <<nodes, edges>>
    PROVE  CInv'
<1>0. /\ CTyped /\ epoch' = epoch + 1 /\ epoch < MaxEdits
      /\ version' = v + 1 /\ past' = past \cup {v + 1}
      /\ overtaken' = (overtaken \/ version # v)
      /\ UNCHANGED <<cache, at, request, key, seenNodes, basis, floor, answer>>
    BY DEF CInv, Commit, BumpVersion, reading
<1>1. CTyped'
    <2>1. epoch' \in Nat /\ epoch' <= MaxEdits /\ replaced' \in 0 .. epoch'
        BY <1>0, EditsAssumption DEF CTyped
    <2>2. past' \subseteq 1 .. epoch' + 1 /\ version' \in past'
        BY <1>0 DEF CTyped
    <2>3. cache' \in [Versions -> SUBSET (0 .. epoch')]
        BY <1>0 DEF CTyped
    <2>4. floor' \in [Session -> 0 .. replaced'] /\ basis' \in [Session -> 0 .. epoch']
        BY <1>0 DEF CTyped
    <2>5. overtaken' \in BOOLEAN
        BY <1>0, Zenon DEF CTyped
    <2> QED BY <1>0, <2>1, <2>2, <2>3, <2>4, <2>5 DEF CTyped
<1>2. Working' /\ ReadAfterFloor'
    BY <1>0 DEF CInv, Working, ReadAfterFloor
<1>3. VersionsGrow'
    <2>1. SUFFICES ASSUME ~overtaken' PROVE VersionsGrow'
        BY DEF VersionsGrow
    <2>2. ~overtaken /\ v = version
        BY <1>0, <2>1
    <2>3. version \in Versions /\ version \in Nat
        BY <1>0, EditsAssumption DEF CTyped, Versions
    <2>4. /\ \A w \in past : w <= version
          /\ \A w \in Versions : cache[w] # {} => w <= version
          /\ \A q \in Session : PastLookUp(q) => key[q] \in 1 .. version
        BY <2>2 DEF CInv, VersionsGrow
    <2>5. \A w \in past' : w <= version'
        BY <1>0, <2>2, <2>3, <2>4 DEF CTyped
    <2>6. version' \in Versions
        BY <1>0, <1>1, EditsAssumption DEF CTyped, Versions
    <2>7. cache'[version'] = {} /\ \A w \in Versions : cache'[w] # {} => w <= version'
        BY <1>0, <2>2, <2>3, <2>4, <2>6 DEF Versions
    <2>8. \A q \in Session : PastLookUp(q)' => key'[q] \in 1 .. version' /\ key'[q] # version'
        BY <1>0, <2>2, <2>3, <2>4 DEF PastLookUp
    <2> QED BY <2>5, <2>7, <2>8 DEF VersionsGrow
<1>4. RowsFit'
    <2>1. \A s \in Session : basis'[s] # epoch'
        BY <1>0 DEF CTyped
    <2>2. replaced' = 0 => GraphNodes(nodes', edges') = nodes'
        BY DEF CInv, RowsFit
    <2> QED BY <2>1, <2>2 DEF RowsFit, GraphNodes
<1>5. ReplacementSeen'
    BY <1>0 DEF CInv, ReplacementSeen
<1>6. CrashNeedsRace'
    <2>1. replaced > 0 => replaced' > 0
        BY <1>0 DEF CTyped
    <2> QED BY <1>0, <2>1 DEF CInv, CrashNeedsRace
<1> QED BY <1>1, <1>2, <1>3, <1>4, <1>5, <1>6 DEF CInv

LEMMA UpdateWorkflowKeeps ==
    ASSUME CInv, NEW v \in past, UpdateWorkflow(v)
    PROVE  CInv'
<1>1. nodes' \subseteq Node
    BY DEF CInv, CTyped, UpdateWorkflow
<1> QED BY <1>1, VersionEditKeeps DEF UpdateWorkflow

LEMMA ReplaceGraphKeeps ==
    ASSUME CInv, NEW v \in past, NEW new \in NewGraphs, ReplaceGraph(v, new)
    PROVE  CInv'
<1>1. nodes' \subseteq Node
    BY EditsAssumption DEF ReplaceGraph
<1>2. replaced' = epoch' /\ epoch' # 0
    BY DEF CInv, CTyped, ReplaceGraph, Commit
<1> QED BY <1>1, <1>2, VersionEditKeeps DEF ReplaceGraph

------------------------------------------------------------------------------
LEMMA StutterKeeps == ASSUME CInv, UNCHANGED vars PROVE CInv'
BY DEF CInv, CTyped, Working, VersionsGrow, PastLookUp, ReadAfterFloor, RowsFit, GraphNodes,
       ReplacementSeen, CrashNeedsRace, vars, store, reading, history

LEMMA NextCInv == ASSUME CInv, [Next]_vars PROVE CInv'
<1>1. ASSUME NEW s \in Session, NEW r \in Requests[s], Begin(s, r) PROVE CInv'
    BY <1>1, BeginKeeps
<1>2. ASSUME NEW s \in Session, Answered(s) PROVE CInv'
    BY <1>2, LookUpKeeps, MissInRedisKeeps, SelectNodesKeeps, SelectEdgesKeeps DEF Answered
<1>3. ASSUME NEW s \in Session, TimeOut(s) PROVE CInv'
    BY <1>3, TimeOutKeeps
<1>4. ASSUME Edit PROVE CInv'
    <2>1. ASSUME NEW n \in Node, CreateNode(n) \/ DeleteNode(n) PROVE CInv'
        BY <2>1, CreateNodeKeeps, DeleteNodeKeeps
    <2>2. ASSUME NEW batch \in Batches, CreateEdges(batch) PROVE CInv'
        BY <2>2, CreateEdgesKeeps
    <2>3. ASSUME NEW e \in edges, DeleteEdge(e) PROVE CInv'
        BY <2>3, DeleteEdgeKeeps
    <2>4. ASSUME NEW v \in past, UpdateWorkflow(v) PROVE CInv'
        BY <2>4, UpdateWorkflowKeeps
    <2>5. ASSUME NEW v \in past, NEW new \in NewGraphs, ReplaceGraph(v, new) PROVE CInv'
        BY <2>5, ReplaceGraphKeeps
    <2> QED BY <1>4, <2>1, <2>2, <2>3, <2>4, <2>5 DEF Edit
<1> QED BY <1>1, <1>2, <1>3, <1>4, StutterKeeps DEF Next

------------------------------------------------------------------------------
(* Levels and cycles *)

LEMMA LeastNumber ==
    ASSUME NEW T \in SUBSET Nat, T # {}
    PROVE  \E m \in T : \A k \in T : m <= k
<1> DEFINE R == OpToRel(<, Nat)
<1>1. \E m \in T : \A k \in T : ~(<<k, m>> \in R)
    BY NatLessThanWellFounded, WFMin
<1>2. \A k, m \in Nat : <<k, m>> \in R <=> k < m
    BY DEF OpToRel
<1> HIDE DEF R
<1>3. PICK m \in T : \A k \in T : ~(<<k, m>> \in R)
    BY <1>1
<1>4. \A k \in T : ~(k < m)
    BY <1>2, <1>3
<1> QED BY <1>4

LEMMA SmallestSet ==
    ASSUME NEW N, IsFiniteSet(N), NEW F \in SUBSET SUBSET N, F # {}
    PROVE  \E X \in F : \A Y \in F : Y \subseteq X => Y = X
<1>1. IsWellFoundedOn(StrictSubsetOrdering(N), SUBSET N)
    BY FS_StrictSubsetOrderingWellFounded, FS_FiniteSubsetsOfFinite
<1>2. PICK X \in F : \A Y \in F : ~(<<Y, X>> \in StrictSubsetOrdering(N))
    BY <1>1, WFMin
<1>3. \A Y \in F : Y \subseteq X /\ Y # X => <<Y, X>> \in StrictSubsetOrdering(N)
    BY DEF StrictSubsetOrdering
<1>4. \A Y \in F : Y \subseteq X => Y = X
    BY <1>2, <1>3
<1> QED BY <1>4

\* In an acyclic graph some node of every set has no predecessor in it: one with the
\* fewest nodes of the set before it.
LEMMA FirstOfSet ==
    ASSUME NEW N, IsFiniteSet(N), NEW E, E \subseteq EdgesOver(N), Acyclic(N, E),
           NEW U \in SUBSET N, U # {}
    PROVE  \E u \in U : \A e \in E : e.target = u => e.source \notin U
<1> DEFINE Before(u) == {a \in U : u \in ReachableFrom(N, E, {a})}
<1>1. PICK u \in U : \A v \in U : Before(v) \subseteq Before(u) => Before(v) = Before(u)
    <2> DEFINE F == {Before(u) : u \in U}
    <2>1. \A u \in U : Before(u) \in SUBSET N /\ Before(u) \in F
        OBVIOUS
    <2> HIDE DEF Before
    <2>2. F \in SUBSET SUBSET N /\ F # {}
        BY <2>1
    <2>3. PICK X \in F : \A Y \in F : Y \subseteq X => Y = X
        <3> HIDE DEF F
        <3> QED BY <2>2, SmallestSet
    <2>4. PICK u \in U : X = Before(u)
        OBVIOUS
    <2> QED BY <2>1, <2>3, <2>4
<1>2. ASSUME NEW e \in E, e.target = u, e.source \in U PROVE FALSE
    <2>1. ASSUME NEW a \in U, e.source \in ReachableFrom(N, E, {a})
          PROVE  u \in ReachableFrom(N, E, {a})
        BY <2>1, <1>2 DEF ReachableFrom, Closed
    <2>2. u \in Before(u)
        BY DEF ReachableFrom
    <2>3. u \notin Before(e.source)
        BY <1>2 DEF Acyclic, ClosesCycle
    <2> QED BY <2>1, <2>2, <2>3, <1>1, <1>2
<1> QED BY <1>2

\* A graph with a levelling has no cycle: an edge leads up, and no path leads down again.
LEMMA LevelledIsAcyclic ==
    ASSUME NEW N, NEW E, E \subseteq EdgesOver(N),
           NEW lv \in [N -> Nat], IsLevelling(N, E, lv)
    PROVE  Acyclic(N, E)
<1>1. SUFFICES ASSUME NEW e \in E, e.source \in ReachableFrom(N, E, {e.target})
               PROVE  FALSE
    BY DEF Acyclic, ClosesCycle
<1>2. \A d \in E : d.source \in N /\ d.target \in N /\ lv[d.source] < lv[d.target]
    BY DEF IsLevelling, EdgesOver
<1> DEFINE C == {m \in N : lv[e.target] <= lv[m]}
<1>3. e.target \in C
    BY <1>2
<1>4. Closed(E, C)
    BY <1>2 DEF Closed
<1>5. e.source \in C
    BY <1>1, <1>3, <1>4 DEF ReachableFrom
<1> QED BY <1>2, <1>5

\* An acyclic graph can be levelled: a largest part of it that is levelled, with whatever
\* comes before it, has every node, for otherwise the first of the others could join.
LEMMA AcyclicIsLevelled ==
    ASSUME NEW N, IsFiniteSet(N), NEW E, E \subseteq EdgesOver(N), Acyclic(N, E)
    PROVE  \E lv \in [N -> 0 .. Cardinality(N) - 1] : IsLevelling(N, E, lv)
<1> DEFINE Levelled(M, lv) ==
        /\ lv \in [M -> 0 .. Cardinality(M) - 1]
        /\ \A e \in E : e.target \in M => e.source \in M /\ lv[e.source] < lv[e.target]
        /\ \A n \in M : lv[n] > 0 => \E e \in E : e.target = n /\ lv[n] = lv[e.source] + 1
    Rests == {R \in SUBSET N : \E lv : Levelled(N \ R, lv)}
<1>1. N \in Rests
    <2>1. Levelled({}, [n \in {} |-> 0])
        OBVIOUS
    <2>2. N \ N = {}
        OBVIOUS
    <2> HIDE DEF Levelled
    <2> QED BY <2>1, <2>2
<1>2. PICK R \in Rests : \A S \in Rests : S \subseteq R => S = R
    <2> HIDE DEF Levelled
    <2>1. Rests \in SUBSET SUBSET N /\ Rests # {}
        BY <1>1
    <2> HIDE DEF Rests
    <2> QED BY <2>1, SmallestSet
<1>3. PICK lv : Levelled(N \ R, lv)
    OBVIOUS
<1>4. ASSUME R # {} PROVE FALSE
    <2> DEFINE M == N \ R
    <2>1. PICK u \in R : \A e \in E : e.target = u => e.source \notin R
        BY <1>4, FirstOfSet
    <2>2. \A e \in E : e.source \in N /\ e.target \in N
        BY DEF EdgesOver
    <2>3. \A e \in E : e.target = u => e.source \in M
        BY <2>1, <2>2
    <2>4. /\ IsFiniteSet(M) /\ Cardinality(M) \in Nat /\ u \notin M
          /\ Cardinality(M \cup {u}) = Cardinality(M) + 1
        <3>1. M \subseteq N /\ u \notin M
            OBVIOUS
        <3> HIDE DEF M
        <3>2. IsFiniteSet(M)
            BY <3>1, FS_Subset
        <3> QED BY <3>1, <3>2, FS_CardinalityType, FS_AddElement
    <2>5. PICK c \in Nat : c = Cardinality(M)
        BY <2>4
    <2>6. \A n \in M : lv[n] \in 0 .. c - 1
        BY <1>3, <2>5
    <2> DEFINE T == {k \in 0 .. c : \A e \in E : e.target = u => lv[e.source] < k}
    <2>7. c \in T
        BY <2>3, <2>6
    <2>8. PICK k \in T : \A j \in T : k <= j
        <3>1. T \in SUBSET Nat
            OBVIOUS
        <3> HIDE DEF T
        <3> QED BY <2>7, <3>1, LeastNumber
    <2>9. k > 0 => \E e \in E : e.target = u /\ k = lv[e.source] + 1
        <3>1. SUFFICES ASSUME k > 0, \A e \in E : e.target = u => k # lv[e.source] + 1
                       PROVE  FALSE
            OBVIOUS
        <3>2. \A e \in E : e.target = u => lv[e.source] < k - 1
            BY <3>1, <2>3, <2>6
        <3>3. k - 1 \in T
            BY <3>1, <3>2
        <3> QED BY <2>8, <3>3
    <2> DEFINE up == [n \in M \cup {u} |-> IF n = u THEN k ELSE lv[n]]
    <2>10. up[u] = k /\ \A n \in M : up[n] = lv[n]
        BY <2>4
    <2>11. up \in [M \cup {u} -> 0 .. Cardinality(M \cup {u}) - 1]
        <3>1. k \in 0 .. c /\ Cardinality(M \cup {u}) - 1 = c
            BY <2>4, <2>5
        <3>2. \A n \in M \cup {u} : up[n] \in 0 .. c
            BY <2>6, <2>10, <3>1
        <3> QED BY <3>1, <3>2
    <2>12. \A e \in E : e.target \in M => e.source \in M /\ lv[e.source] < lv[e.target]
        BY <1>3
    <2>13. \A n \in M : lv[n] > 0 => \E e \in E : e.target = n /\ lv[n] = lv[e.source] + 1
        BY <1>3
    <2> HIDE DEF up, M, T
    <2>14. \A e \in E : e.target \in M \cup {u} =>
              e.source \in M \cup {u} /\ up[e.source] < up[e.target]
        <3>1. k \in 0 .. c /\ \A e \in E : e.target = u => lv[e.source] < k
            BY DEF T
        <3> QED BY <2>3, <2>10, <2>12, <3>1
    <2>15. \A n \in M \cup {u} : up[n] > 0 =>
              \E e \in E : e.target = n /\ up[n] = up[e.source] + 1
        BY <2>3, <2>9, <2>10, <2>12, <2>13
    <2>16. Levelled(M \cup {u}, up)
        BY <2>11, <2>14, <2>15
    <2>17. M \cup {u} = N \ (R \ {u})
        BY DEF M
    <2> HIDE DEF Levelled
    <2>18. R \ {u} \in Rests
        BY <2>16, <2>17
    <2> QED BY <1>2, <2>18
<1>5. N \ R = N /\ \A e \in E : e.source \in N /\ e.target \in N
    BY <1>4 DEF EdgesOver
<1>6. Levelled(N, lv)
    <2> HIDE DEF Levelled
    <2> QED BY <1>3, <1>5
<1> QED BY <1>5, <1>6 DEF IsLevelling

\* Everything can be reached from S exactly when S has all nodes of the first level.
LEMMA ReachedFromFirstLevel ==
    ASSUME NEW N, NEW E, E \subseteq EdgesOver(N), NEW S \in SUBSET N,
           NEW lv \in [N -> Nat], IsLevelling(N, E, lv)
    PROVE  ReachableFrom(N, E, S) = N <=> \A n \in N : lv[n] = 0 => n \in S
<1>1. \A e \in E : e.source \in N /\ e.target \in N /\ lv[e.source] < lv[e.target]
    BY DEF IsLevelling, EdgesOver
<1>2. ASSUME NEW n \in N, lv[n] = 0, n \notin S PROVE n \notin ReachableFrom(N, E, S)
    <2>1. \A e \in E : e.target # n
        BY <1>1, <1>2
    <2>2. Closed(E, N \ {n}) /\ S \subseteq N \ {n}
        BY <1>1, <1>2, <2>1 DEF Closed
    <2> QED BY <2>2 DEF ReachableFrom
<1>3. ASSUME NEW n \in N, n \notin ReachableFrom(N, E, S), \A m \in N : lv[m] = 0 => m \in S
      PROVE  FALSE
    <2>1. PICK C \in SUBSET N : S \subseteq C /\ Closed(E, C) /\ n \notin C
        BY <1>3 DEF ReachableFrom
    <2> DEFINE T == {lv[m] : m \in N \ C}
    <2>2. T \in SUBSET Nat /\ T # {}
        BY <2>1
    <2>3. PICK m \in N \ C : \A j \in N \ C : lv[m] <= lv[j]
        <3>1. PICK k \in T : \A j \in T : k <= j
            BY <2>2, LeastNumber
        <3> QED BY <3>1
    <2>4. lv[m] \in Nat /\ lv[m] > 0
        BY <1>3, <2>1, <2>3
    <2>5. PICK e \in E : e.target = m /\ lv[m] = lv[e.source] + 1
        BY <2>4 DEF IsLevelling
    <2>6. e.source \in C
        BY <1>1, <2>3, <2>4, <2>5
    <2> QED BY <2>1, <2>3, <2>5, <2>6 DEF Closed
<1>4. ReachableFrom(N, E, S) \subseteq N
    BY DEF ReachableFrom
<1> QED BY <1>2, <1>3, <1>4

------------------------------------------------------------------------------
(* Answers that nothing has overtaken *)

RowsFinite == IsFiniteSet(nodes) /\ IsFiniteSet(edges)

\* An answer that was worked out on the graph that is still stored is one that the
\* request could get on that graph.
FreshAnswers ==
    \A s \in Session :
        /\ answer[s].basis \in 0 .. epoch
        /\ answer[s].result \in {"valid", "invalid"} /\ ~answer[s].cached
              /\ answer[s].basis = epoch =>
                 /\ request[s] \in Request
                 /\ answer[s].result \in OutcomesOf(request[s], nodes, edges)

FInv == RowsFinite /\ FreshAnswers

LEMMA InitFInv == ASSUME Init PROVE FInv
<1>1. RowsFinite
    BY FiniteRowsAssumption DEF Init, RowsFinite
<1>2. \A s \in Session : answer[s].basis = 0 /\ answer[s].result = "none"
    BY DEF Init, NoAnswer
<1>3. epoch = 0
    BY DEF Init
<1> QED BY <1>1, <1>2, <1>3 DEF FInv, FreshAnswers

\* A step of session s that leaves the graph alone, and s without a fresh verdict or with
\* one of the outcomes.
LEMMA SessionKeepsFresh ==
    ASSUME FInv, NEW s \in Session, UNCHANGED <<nodes, edges, epoch>>,
           \A q \in Session : q # s => answer'[q] = answer[q] /\ request'[q] = request[q],
           \/ answer'[s] = answer[s] /\ request'[s] = request[s]
           \/ /\ answer'[s].basis \in 0 .. epoch
              /\ answer'[s].result \in {"valid", "invalid"} /\ ~answer'[s].cached
                    /\ answer'[s].basis = epoch =>
                       /\ request'[s] \in Request
                       /\ answer'[s].result \in OutcomesOf(request'[s], nodes, edges)
    PROVE  FInv'
<1>1. RowsFinite'
    BY DEF FInv, RowsFinite
<1>2. ASSUME NEW q \in Session
      PROVE  /\ answer'[q].basis \in 0 .. epoch'
             /\ answer'[q].result \in {"valid", "invalid"} /\ ~answer'[q].cached
                   /\ answer'[q].basis = epoch' =>
                      /\ request'[q] \in Request
                      /\ answer'[q].result \in OutcomesOf(request'[q], nodes', edges')
    BY DEF FInv, FreshAnswers
<1>3. FreshAnswers'
    BY <1>2 DEF FreshAnswers
<1> QED BY <1>1, <1>3 DEF FInv

LEMMA SessionStepFInv ==
    ASSUME CInv, FInv, NEW s \in Session,
           (\E r \in Requests[s] : Begin(s, r)) \/ Answered(s) \/ TimeOut(s)
    PROVE  FInv'
<1>0. CTyped
    BY DEF CInv
<1>1. UNCHANGED <<nodes, edges, epoch>>
    BY DEF Begin, Answered, LookUp, MissInRedis, SelectNodes, SelectEdges, TimeOut,
           store, history
<1>2. ASSUME NEW r \in Requests[s], Begin(s, r) PROVE FInv'
    <2>1. answer' = [answer EXCEPT ![s] = NoAnswer] /\ request' = [request EXCEPT ![s] = r]
        BY <1>2 DEF Begin
    <2>2. /\ answer'[s].basis = 0 /\ answer'[s].result = "none"
          /\ \A q \in Session : q # s => answer'[q] = answer[q] /\ request'[q] = request[q]
        BY <1>0, <2>1 DEF CTyped, NoAnswer
    <2>3. 0 \in 0 .. epoch
        BY <1>0 DEF CTyped
    <2> QED BY <1>1, <2>2, <2>3, SessionKeepsFresh
<1>3. ASSUME LookUp(s) PROVE FInv'
    <2>1. \/ answer' = answer
          \/ \E entry \in cache[version] :
                answer' = [answer EXCEPT ![s] = [result |-> "valid", cached |-> TRUE,
                                       basis |-> entry, torn |-> FALSE, warnings |-> {}]]
        BY <1>3 DEF LookUp, GetCached, Key
    <2>2. request' = request
        BY <1>3 DEF LookUp, GetCached
    <2>3. \A entry \in cache[version] : entry \in 0 .. epoch
        BY <1>0, EditsAssumption DEF CTyped, Versions
    <2>4. \/ answer'[s] = answer[s]
          \/ answer'[s].cached = TRUE /\ answer'[s].basis \in 0 .. epoch
        <3>1. CASE answer' = answer
            BY <3>1
        <3>2. ASSUME NEW entry \in cache[version],
                     answer' = [answer EXCEPT ![s] = [result |-> "valid", cached |-> TRUE,
                                       basis |-> entry, torn |-> FALSE, warnings |-> {}]]
              PROVE  answer'[s].cached = TRUE /\ answer'[s].basis \in 0 .. epoch
            BY <1>0, <2>3, <3>2 DEF CTyped
        <3> QED BY <2>1, <3>1, <3>2
    <2>5. \A q \in Session : q # s => answer'[q] = answer[q]
        BY <1>0, <2>1 DEF CTyped
    <2> QED BY <1>1, <2>2, <2>4, <2>5, SessionKeepsFresh
<1>4. ASSUME MissInRedis(s) \/ SelectNodes(s) PROVE FInv'
    <2>1. answer' = answer /\ request' = request
        BY <1>4 DEF MissInRedis, SelectNodes
    <2> QED BY <1>1, <2>1, SessionKeepsFresh
<1>5. ASSUME SelectEdges(s) PROVE FInv'
    <2>1. PICK result \in OutcomesOf(request[s], seenNodes[s], edges) :
              Respond(s, [result |-> result, cached |-> FALSE, basis |-> basis[s],
                          torn |-> epoch # basis[s],
                          warnings |-> IF request[s].kind = "validate"
                                       THEN DeadEndWarnings(seenNodes[s], edges) ELSE {}])
        BY <1>5 DEF SelectEdges
    <2>2. /\ answer'[s].result = result /\ answer'[s].basis = basis[s]
          /\ \A q \in Session : q # s => answer'[q] = answer[q]
          /\ request' = request /\ at[s] = "edges"
        BY <1>0, <1>5, <2>1 DEF CTyped, Respond, SelectEdges
    <2>3. basis[s] \in 0 .. epoch /\ request[s] \in Request
        BY <1>0, <2>2 DEF CTyped, CInv, Working
    <2>4. basis[s] = epoch => seenNodes[s] = nodes
        BY <2>2 DEF CInv, RowsFit
    <2> QED BY <1>1, <2>1, <2>2, <2>3, <2>4, SessionKeepsFresh
<1>6. ASSUME TimeOut(s) PROVE FInv'
    <2>1. /\ answer' = [answer EXCEPT ![s] = [NoAnswer EXCEPT !.result = "timeout"]]
          /\ request' = request
        BY <1>6 DEF TimeOut, Respond
    <2>2. /\ answer'[s].basis = 0 /\ answer'[s].result = "timeout"
          /\ \A q \in Session : q # s => answer'[q] = answer[q]
        BY <1>0, <2>1 DEF CTyped, NoAnswer
    <2>3. 0 \in 0 .. epoch
        BY <1>0 DEF CTyped
    <2> QED BY <1>1, <2>1, <2>2, <2>3, SessionKeepsFresh
<1> QED BY <1>2, <1>3, <1>4, <1>5, <1>6 DEF Answered

\* Whatever is committed, no answer that was given before is fresh any more.
LEMMA EditFInv == ASSUME CInv, FInv, Edit PROVE FInv'
<1>1. /\ epoch' = epoch + 1 /\ UNCHANGED <<answer, request>>
      /\ epoch \in Nat
    BY DEF Edit, CreateNode, DeleteNode, CreateEdges, DeleteEdge, UpdateWorkflow, ReplaceGraph,
           Commit, reading, CInv, CTyped
<1>2. FreshAnswers'
    BY <1>1 DEF FInv, FreshAnswers
<1>3. IsFiniteSet(nodes) /\ IsFiniteSet(edges)
    BY DEF FInv, RowsFinite
<1>4. ASSUME NEW n \in Node, CreateNode(n) \/ DeleteNode(n) PROVE RowsFinite'
    <2>1. nodes' \in {nodes \cup {n}, nodes \ {n}} /\ edges' \subseteq edges
        BY <1>4 DEF CreateNode, DeleteNode, Fits
    <2> QED BY <1>3, <2>1, FS_AddElement, FS_RemoveElement, FS_Subset DEF RowsFinite
<1>5. ASSUME NEW batch \in Batches, CreateEdges(batch) PROVE RowsFinite'
    BY <1>3, <1>5, FiniteRowsAssumption, FS_Union DEF CreateEdges, RowsFinite
<1>6. ASSUME NEW e \in edges, DeleteEdge(e) PROVE RowsFinite'
    BY <1>3, <1>6, FS_RemoveElement DEF DeleteEdge, RowsFinite
<1>7. ASSUME NEW v \in past, UpdateWorkflow(v) PROVE RowsFinite'
    BY <1>3, <1>7 DEF UpdateWorkflow, RowsFinite
<1>8. ASSUME NEW v \in past, NEW new \in NewGraphs, ReplaceGraph(v, new) PROVE RowsFinite'
    BY <1>8, FiniteRowsAssumption DEF ReplaceGraph, RowsFinite
<1>9. RowsFinite'
    BY <1>4, <1>5, <1>6, <1>7, <1>8 DEF Edit
<1> QED BY <1>2, <1>9 DEF FInv

LEMMA NextFInv == ASSUME CInv, FInv, [Next]_vars PROVE FInv'
<1>1. CASE UNCHANGED vars
    BY <1>1 DEF FInv, RowsFinite, FreshAnswers, vars, store, reading, history
<1> QED BY <1>1, SessionStepFInv, EditFInv DEF Next

------------------------------------------------------------------------------
(* What the outcomes say of the graph *)

LEMMA PairsJoinNodes ==
    ASSUME NEW N, NEW E
    PROVE  Pairs(E) \subseteq EdgesOver(GraphNodes(N, E))
BY DEF Pairs, EdgesOver, GraphNodes

LEMMA GraphFinite ==
    ASSUME NEW N, NEW E, IsFiniteSet(N), IsFiniteSet(E)
    PROVE  IsFiniteSet(GraphNodes(N, E))
<1> DEFINE Source == [e \in E |-> e.source]
           Target == [e \in E |-> e.target]
<1>1. IsFiniteSet({Source[e] : e \in E}) /\ IsFiniteSet({Target[e] : e \in E})
    <2> HIDE DEF Source, Target
    <2>1. Source \in Surjection(E, {Source[e] : e \in E})
        BY DEF Source, Surjection
    <2>2. Target \in Surjection(E, {Target[e] : e \in E})
        BY DEF Target, Surjection
    <2> QED BY <2>1, <2>2, FS_Surjection
<1>2. {Source[e] : e \in E} = {e.source : e \in E} /\ {Target[e] : e \in E} = {e.target : e \in E}
    OBVIOUS
<1> HIDE DEF Source, Target
<1> QED BY <1>1, <1>2, FS_Union DEF GraphNodes

\* Levels and the absence of cycles come together.
LEMMA LevelsOfGraph ==
    ASSUME NEW N, NEW E, IsFiniteSet(N), IsFiniteSet(E)
    PROVE  LET G == GraphNodes(N, E) IN
           Acyclic(G, Pairs(E))
             <=> \E lv \in [G -> 0 .. Cardinality(G) - 1] : IsLevelling(G, Pairs(E), lv)
<1> DEFINE G == GraphNodes(N, E)
<1>1. IsFiniteSet(G) /\ Pairs(E) \subseteq EdgesOver(G) /\ Cardinality(G) \in Nat
    BY GraphFinite, PairsJoinNodes, FS_CardinalityType
<1> HIDE DEF G
<1>2. ASSUME NEW lv \in [G -> 0 .. Cardinality(G) - 1], IsLevelling(G, Pairs(E), lv)
      PROVE  Acyclic(G, Pairs(E))
    <2>1. lv \in [G -> Nat]
        BY <1>1
    <2> QED BY <1>1, <1>2, <2>1, LevelledIsAcyclic
<1> QED BY <1>1, <1>2, AcyclicIsLevelled DEF G

\* A validation that ends without an error of its own says "valid" when nothing is wrong.
LEMMA ValidMeansNoErrors ==
    ASSUME NEW N, NEW E, NEW o, NEW result \in Outcomes(N, E, o), result # "crash"
    PROVE  result = "valid" <=> Errors(N, E, o) = {}
<1>1. CASE "CYCLE_DETECTED" \notin Errors(N, E, o)
    <2>1. result = IF Errors(N, E, o) = {} THEN "valid" ELSE "invalid"
        BY <1>1 DEF Outcomes
    <2> QED BY <2>1
<1>2. CASE "CYCLE_DETECTED" \in Errors(N, E, o)
    <2>1. result \in {IF DOMAIN c \subseteq N THEN "invalid" ELSE "crash"
                      : c \in Cycles(GraphNodes(N, E), Pairs(E))}
        BY <1>2, Zenon DEF Outcomes
    <2> QED BY <1>2, <2>1
<1> QED BY <1>1, <1>2

LEMMA NoErrorsMeansAcyclic ==
    ASSUME NEW N, NEW E, NEW o, Errors(N, E, o) = {}
    PROVE  Acyclic(GraphNodes(N, E), Pairs(E))
<1>1. StructuralErrors(N, E) = {}
    BY DEF Errors
<1> QED BY <1>1 DEF StructuralErrors, Codes

\* The nodes without a successor or a predecessor are those no edge has as an end.
LEMMA DanglingAreNoEnds ==
    ASSUME NEW N, NEW E
    PROVE  LET G == GraphNodes(N, E) IN
           {n \in G : Predecessors(Pairs(E), n) = {} /\ Successors(Pairs(E), n) = {}} = {}
             <=> G = GraphNodes({}, Pairs(E))
<1> DEFINE G == GraphNodes(N, E)
           P == Pairs(E)
<1>1. P \subseteq EdgesOver(G)
    BY PairsJoinNodes
<1> HIDE DEF G, P
<1>2. \A n : n \in GraphNodes({}, P) <=> \E e \in P : n \in {e.source, e.target}
    BY DEF GraphNodes
<1>3. GraphNodes({}, P) \subseteq G
    BY <1>1, <1>2 DEF EdgesOver
<1>4. \A n : Predecessors(P, n) = {} /\ Successors(P, n) = {}
               <=> ~\E e \in P : n \in {e.source, e.target}
    BY DEF Predecessors, Successors
<1>5. {n \in G : Predecessors(P, n) = {} /\ Successors(P, n) = {}} = {}
        <=> \A n \in G : n \in GraphNodes({}, P)
    BY <1>2, <1>4
<1> QED BY <1>3, <1>5 DEF G, P

\* Only triggers start: the triggers reach everything, and there are triggers as soon as
\* there are nodes.
LEMMA TriggersStart ==
    ASSUME RowsFinite
    PROVE  LET G == GraphNodes(nodes, edges)
               E == Pairs(edges)
               S == Triggers(nodes)
           IN  Acyclic(G, E) /\ S # {} /\ ReachableFrom(G, E, S) = G
                 <=> nodes # {} /\ OnlyTriggersStart(G, E)
<1> DEFINE G == GraphNodes(nodes, edges)
           E == Pairs(edges)
           S == Triggers(nodes)
<1>1. /\ IsFiniteSet(G) /\ E \subseteq EdgesOver(G) /\ Cardinality(G) \in Nat
      /\ S \in SUBSET G /\ S \subseteq nodes /\ nodes \subseteq G
    BY GraphFinite, PairsJoinNodes, FS_CardinalityType DEF RowsFinite, GraphNodes, Triggers
<1>2. OnlyTriggersStart(G, E)
        <=> \E lv \in [G -> 0 .. Cardinality(G) - 1] :
               IsLevelling(G, E, lv) /\ \A n \in G : lv[n] = 0 => n \in S
    BY DEF OnlyTriggersStart
<1> HIDE DEF G, E, S
<1>3. ASSUME Acyclic(G, E), S # {}, ReachableFrom(G, E, S) = G
      PROVE  nodes # {} /\ OnlyTriggersStart(G, E)
    <2>1. PICK lv \in [G -> 0 .. Cardinality(G) - 1] : IsLevelling(G, E, lv)
        BY <1>1, <1>3, AcyclicIsLevelled
    <2>2. lv \in [G -> Nat]
        BY <1>1
    <2>3. \A n \in G : lv[n] = 0 => n \in S
        BY <1>1, <1>3, <2>1, <2>2, ReachedFromFirstLevel
    <2> QED BY <1>1, <1>2, <1>3, <2>1, <2>3
<1>4. ASSUME nodes # {}, OnlyTriggersStart(G, E)
      PROVE  Acyclic(G, E) /\ S # {} /\ ReachableFrom(G, E, S) = G
    <2>1. PICK lv \in [G -> 0 .. Cardinality(G) - 1] :
              IsLevelling(G, E, lv) /\ \A n \in G : lv[n] = 0 => n \in S
        BY <1>2, <1>4
    <2>2. lv \in [G -> Nat]
        BY <1>1
    <2>3. Acyclic(G, E) /\ ReachableFrom(G, E, S) = G
        BY <1>1, <2>1, <2>2, LevelledIsAcyclic, ReachedFromFirstLevel
    <2>4. ReachableFrom(G, E, {}) = {}
        <3>1. Closed(E, {}) /\ {} \subseteq {} /\ {} \in SUBSET G
            BY DEF Closed
        <3> QED BY <3>1 DEF ReachableFrom
    <2> QED BY <1>1, <1>4, <2>3, <2>4
<1> QED BY <1>3, <1>4 DEF G, E, S

LEMMA StandardVerdict ==
    ASSUME RowsFinite, NEW o \in ValidationOptions, o.level = "standard"
    PROVE  LET G == GraphNodes(nodes, edges)
               E == Pairs(edges)
           IN  Errors(nodes, edges, o) = {}
                 <=> /\ nodes # {} /\ OnlyTriggersStart(G, E)
                     /\ Cardinality(G) > 1 => G = GraphNodes({}, E)
                     /\ ~\E d, e \in edges : d # e /\ SameSignature(d, e)
                     /\ Cardinality(G) <= o.maxNodes
                     /\ Cardinality(edges) <= o.maxEdges
<1> DEFINE G == GraphNodes(nodes, edges)
           E == Pairs(edges)
           S == Triggers(nodes)
<1>1. /\ Cardinality(G) \in Nat /\ Cardinality(edges) \in Nat
      /\ o.maxNodes \in Nat /\ o.maxEdges \in Nat
    BY GraphFinite, FS_CardinalityType DEF RowsFinite, ValidationOptions
<1>2. Errors(nodes, edges, o) = {}
        <=> /\ SizeErrors(nodes, edges, o) = {} /\ StructuralErrors(nodes, edges) = {}
            /\ ConnectivityErrors(nodes, edges) = {}
    BY DEF Errors
<1>3. SizeErrors(nodes, edges, o) = {}
        <=> Cardinality(G) <= o.maxNodes /\ Cardinality(edges) <= o.maxEdges
    BY <1>1 DEF SizeErrors, Codes
<1>4. StructuralErrors(nodes, edges) = {}
        <=> Acyclic(G, E) /\ ~\E d, e \in edges : d # e /\ SameSignature(d, e)
    BY DEF StructuralErrors, Codes
<1>5. ConnectivityErrors(nodes, edges) = {}
        <=> S # {} /\ FindDanglingNodes(G, E) = {} /\ FindUnreachableFrom(G, E, S) = {}
    BY Zenon DEF ConnectivityErrors, Codes
<1>6. FindDanglingNodes(G, E) = {}
        <=> (Cardinality(G) > 1 => G = GraphNodes({}, E))
    <2>1. FindDanglingNodes(G, E)
            = IF Cardinality(G) <= 1 THEN {}
              ELSE {n \in G : Predecessors(E, n) = {} /\ Successors(E, n) = {}}
        BY DEF FindDanglingNodes
    <2>2. {n \in G : Predecessors(E, n) = {} /\ Successors(E, n) = {}} = {}
            <=> G = GraphNodes({}, E)
        BY DanglingAreNoEnds
    <2> HIDE DEF G, E
    <2> QED BY <1>1, <2>1, <2>2
<1>7. FindUnreachableFrom(G, E, S) = {} <=> ReachableFrom(G, E, S) = G
    BY DEF FindUnreachableFrom, ReachableFrom
<1>8. Acyclic(G, E) /\ S # {} /\ ReachableFrom(G, E, S) = G
        <=> nodes # {} /\ OnlyTriggersStart(G, E)
    BY TriggersStart
<1> HIDE DEF G, E, S
<1>9. Errors(nodes, edges, o) = {}
        <=> /\ nodes # {} /\ OnlyTriggersStart(G, E)
            /\ Cardinality(G) > 1 => G = GraphNodes({}, E)
            /\ ~\E d, e \in edges : d # e /\ SameSignature(d, e)
            /\ Cardinality(G) <= o.maxNodes
            /\ Cardinality(edges) <= o.maxEdges
    BY <1>2, <1>3, <1>4, <1>5, <1>6, <1>7, <1>8
<1> QED BY <1>9 DEF G, E

\* An edge that is found valid joins two nodes, closes no cycle and is new.
LEMMA EdgeVerdict ==
    ASSUME NEW N, NEW E, NEW p, "valid" \in EdgeOutcomes(N, E, p)
    PROVE  /\ p.source # p.target /\ {p.source, p.target} \subseteq N
           /\ ~ClosesCycle(GraphNodes(N, E), Pairs(E), p)
           /\ ~\E e \in E : SameSignature(e, p)
<1> DEFINE pair == [source |-> p.source, target |-> p.target]
           G == GraphNodes(N, E)
           through == {IF DOMAIN c \subseteq N THEN "invalid" ELSE "crash"
                       : c \in CyclesThrough(G, Pairs(E), pair)}
<1>1. EdgeOutcomes(N, E, p)
        = IF p.source = p.target THEN {IF p.source \in N THEN "invalid" ELSE "crash"}
          ELSE IF ~({p.source, p.target} \subseteq N) THEN {"invalid"}
          ELSE IF ClosesCycle(G, Pairs(E), pair) THEN through
          ELSE {IF \E e \in E : SameSignature(e, p) THEN "invalid" ELSE "valid"}
    BY DEF EdgeOutcomes
<1>2. "valid" \notin through
    OBVIOUS
<1>3. ClosesCycle(G, Pairs(E), p) <=> ClosesCycle(G, Pairs(E), pair)
    BY DEF ClosesCycle
<1> HIDE DEF through, G, pair
<1>4. p.source # p.target /\ {p.source, p.target} \subseteq N /\ ~ClosesCycle(G, Pairs(E), pair)
    BY <1>1, <1>2
<1>5. ~\E e \in E : SameSignature(e, p)
    BY <1>1, <1>4
<1> QED BY <1>3, <1>4, <1>5 DEF G

\* A batch that is found valid adds no node, and leaves the graph without a cycle.
LEMMA BatchVerdict ==
    ASSUME NEW N, NEW E, NEW batch, "valid" \in BatchOutcomes(N, E, batch)
    PROVE  Acyclic(GraphNodes(N, E), Pairs(E) \cup Pairs(batch))
<1> DEFINE all == Pairs(E) \cup Pairs(batch)
<1>1. /\ \A p \in batch : {p.source, p.target} \subseteq N
      /\ Acyclic(GraphNodes(N, all), all)
    BY DEF BatchOutcomes
<1>2. GraphNodes(N, all) = GraphNodes(N, E)
    <2>1. ASSUME NEW p \in all
          PROVE  \E e \in E \cup batch : p.source = e.source /\ p.target = e.target
        BY <2>1 DEF Pairs
    <2>2. ASSUME NEW e \in E PROVE \E p \in all : p.source = e.source /\ p.target = e.target
        <3>1. [source |-> e.source, target |-> e.target] \in all
            BY DEF Pairs
        <3> QED BY <3>1
    <2> HIDE DEF all
    <2>3. ASSUME NEW n \in GraphNodes(N, all) PROVE n \in GraphNodes(N, E)
        BY <1>1, <2>1, <2>3 DEF GraphNodes
    <2>4. ASSUME NEW n \in GraphNodes(N, E) PROVE n \in GraphNodes(N, all)
        BY <2>2, <2>4 DEF GraphNodes
    <2> QED BY <2>3, <2>4
<1> QED BY <1>1, <1>2

LEMMA FreshVerdict == ASSUME FInv PROVE FreshVerdictIsTrue
<1>1. SUFFICES ASSUME NEW s \in Session, NEW r, r = request[s],
                      answer[s].result \in {"valid", "invalid"}, ~answer[s].cached,
                      answer[s].basis = epoch
               PROVE  LET a == answer[s]
                          E == Pairs(edges)
                          G == GraphNodes(nodes, edges)
                      IN  /\ r.kind = "validate" /\ a.result = "valid" => Acyclic(G, E)
                          /\ r.kind = "validate" /\ r.options.level = "standard" =>
                               (a.result = "valid" <=>
                                  /\ nodes # {} /\ OnlyTriggersStart(G, E)
                                  /\ Cardinality(G) > 1 => G = GraphNodes({}, E)
                                  /\ ~\E d, e \in edges : d # e /\ SameSignature(d, e)
                                  /\ Cardinality(G) <= r.options.maxNodes
                                  /\ Cardinality(edges) <= r.options.maxEdges)
                          /\ r.kind \in {"topology", "checkCycle"} =>
                               (a.result = "valid" <=>
                                  \E lv \in [G -> 0 .. Cardinality(G) - 1] :
                                     IsLevelling(G, E, lv))
                          /\ r.kind = "checkEdge" /\ a.result = "valid" =>
                               /\ r.edge.source # r.edge.target
                               /\ {r.edge.source, r.edge.target} \subseteq nodes
                               /\ ~ClosesCycle(G, E, r.edge)
                               /\ ~\E e \in edges : SameSignature(e, r.edge)
                          /\ r.kind = "checkBatch" /\ a.result = "valid" =>
                               Acyclic(G, E \cup Pairs(r.batch))
    BY Zenon DEF FreshVerdictIsTrue
<1> DEFINE a == answer[s]
           E == Pairs(edges)
           G == GraphNodes(nodes, edges)
<1>2. RowsFinite /\ r \in Request /\ a.result \in OutcomesOf(r, nodes, edges)
      /\ a.result \in {"valid", "invalid"}
    BY <1>1 DEF FInv, FreshAnswers
<1> HIDE DEF a
<1>3. ASSUME r.kind = "validate"
      PROVE  a.result = "valid" <=> Errors(nodes, edges, r.options) = {}
    <2>1. a.result \in Outcomes(nodes, edges, r.options)
        BY <1>2, <1>3 DEF OutcomesOf
    <2> QED BY <1>2, <2>1, ValidMeansNoErrors
<1>4. r.kind = "validate" /\ a.result = "valid" => Acyclic(G, E)
    BY <1>3, NoErrorsMeansAcyclic
<1>5. r.kind = "validate" /\ r.options.level = "standard" =>
         (a.result = "valid" <=>
            /\ nodes # {} /\ OnlyTriggersStart(G, E)
            /\ Cardinality(G) > 1 => G = GraphNodes({}, E)
            /\ ~\E d, e \in edges : d # e /\ SameSignature(d, e)
            /\ Cardinality(G) <= r.options.maxNodes
            /\ Cardinality(edges) <= r.options.maxEdges)
    <2>1. SUFFICES ASSUME r.kind = "validate", r.options.level = "standard"
                   PROVE  a.result = "valid" <=>
                            /\ nodes # {} /\ OnlyTriggersStart(G, E)
                            /\ Cardinality(G) > 1 => G = GraphNodes({}, E)
                            /\ ~\E d, e \in edges : d # e /\ SameSignature(d, e)
                            /\ Cardinality(G) <= r.options.maxNodes
                            /\ Cardinality(edges) <= r.options.maxEdges
        OBVIOUS
    <2>2. r.options \in ValidationOptions
        BY <1>2, <2>1 DEF Request
    <2>3. Errors(nodes, edges, r.options) = {} <=>
             /\ nodes # {} /\ OnlyTriggersStart(G, E)
             /\ Cardinality(G) > 1 => G = GraphNodes({}, E)
             /\ ~\E d, e \in edges : d # e /\ SameSignature(d, e)
             /\ Cardinality(G) <= r.options.maxNodes
             /\ Cardinality(edges) <= r.options.maxEdges
        BY <1>2, <2>1, <2>2, StandardVerdict
    <2> QED BY <1>3, <2>1, <2>3
<1>6. r.kind \in {"topology", "checkCycle"} =>
         (a.result = "valid" <=>
            \E lv \in [G -> 0 .. Cardinality(G) - 1] : IsLevelling(G, E, lv))
    <2>1. SUFFICES ASSUME r.kind \in {"topology", "checkCycle"}
                   PROVE  a.result = "valid" <=>
                            \E lv \in [G -> 0 .. Cardinality(G) - 1] : IsLevelling(G, E, lv)
        OBVIOUS
    <2>2. a.result \in CycleOutcomes(nodes, edges)
        BY <1>2, <2>1 DEF OutcomesOf
    <2>3. a.result = "valid" <=> Acyclic(G, E)
        BY <2>2 DEF CycleOutcomes
    <2>4. Acyclic(G, E)
            <=> \E lv \in [G -> 0 .. Cardinality(G) - 1] : IsLevelling(G, E, lv)
        BY <1>2, LevelsOfGraph DEF RowsFinite
    <2> QED BY <2>3, <2>4
<1>7. r.kind = "checkEdge" /\ a.result = "valid" =>
         /\ r.edge.source # r.edge.target
         /\ {r.edge.source, r.edge.target} \subseteq nodes
         /\ ~ClosesCycle(G, E, r.edge)
         /\ ~\E e \in edges : SameSignature(e, r.edge)
    <2>1. SUFFICES ASSUME r.kind = "checkEdge", a.result = "valid"
                   PROVE  /\ r.edge.source # r.edge.target
                          /\ {r.edge.source, r.edge.target} \subseteq nodes
                          /\ ~ClosesCycle(G, E, r.edge)
                          /\ ~\E e \in edges : SameSignature(e, r.edge)
        OBVIOUS
    <2>2. "valid" \in EdgeOutcomes(nodes, edges, r.edge)
        BY <1>2, <2>1 DEF OutcomesOf
    <2> QED BY <2>2, EdgeVerdict
<1>8. r.kind = "checkBatch" /\ a.result = "valid" => Acyclic(G, E \cup Pairs(r.batch))
    <2>1. r.kind = "checkBatch" /\ a.result = "valid" =>
             "valid" \in BatchOutcomes(nodes, edges, r.batch)
        BY <1>2 DEF OutcomesOf
    <2> QED BY <2>1, BatchVerdict
<1> QED BY <1>4, <1>5, <1>6, <1>7, <1>8 DEF a

------------------------------------------------------------------------------
\* For any workflow, requests and edits, an answer - cached or worked out - rests on a
\* graph at least as young as the last replacement the request could know of, unless
\* two updates wrote the same version (cache.py, validator.py).
THEOREM AnswersKnowTheReplacement == Spec => []ReplacementSeen
<1>1. CInv => ReplacementSeen
    BY DEF CInv
<1> QED BY <1>1, InitCInv, NextCInv, PTL DEF Spec

\* The KeyError on a node without a position (validator.py) needs an edit between the
\* two SELECTs, edges of another workflow, or a self loop of an unknown node.
THEOREM CrashesNeedARace == Spec => []CrashNeedsRace
<1>1. CInv => CrashNeedsRace
    BY DEF CInv
<1> QED BY <1>1, InitCInv, NextCInv, PTL DEF Spec

\* For any workflow, requests and edits, the verdict of a request that no edit has overtaken
\* is right: at level "standard" in both directions, for the topology and the search for a
\* cycle as well, and for the others what "valid" promises (validator.py).
THEOREM FreshVerdictsAreTrue == Spec => []FreshVerdictIsTrue
<1>1. Init => CInv /\ FInv
    BY InitCInv, InitFInv
<1>2. CInv /\ FInv /\ [Next]_vars => (CInv /\ FInv)'
    BY NextCInv, NextFInv
<1>3. CInv /\ FInv => FreshVerdictIsTrue
    BY FreshVerdict
<1> QED BY <1>1, <1>2, <1>3, PTL DEF Spec
==============================================================================
