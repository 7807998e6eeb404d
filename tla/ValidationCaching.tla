-------------------------- MODULE ValidationCaching --------------------------
(***************************************************************************)
(* Requests to validate one workflow (api/v1/validation.py, DAGValidator)  *)
(* while others edit it, and the cache they share (services/workflow/      *)
(* cache.py).  A validation reads the version, looks into the cache, and   *)
(* on a miss reads the nodes and then the edges - two SELECTs, each of     *)
(* which sees what is committed by then - within a time limit.  What it    *)
(* finds valid it stores under the version it read first.                  *)
(*                                                                         *)
(* The version row is bumped by the update and the replacement of a        *)
(* workflow only (WorkflowEditing); creating and deleting nodes and edges  *)
(* leaves it as it is.  An entry of the cache may be expired at any time.  *)
(***************************************************************************)
EXTENDS WorkflowValidation

CONSTANTS
    Session,       \* validation requests, each on its own database session
    Requests,      \* bound: Requests[s], what session s may ask
    Batches,       \* bound: the sets of edges that a createEdges request brings
    NewGraphs,     \* bound: the nodes and edges that a replacement brings
    MaxEdits,      \* bound: how many edits are committed
    MaxServed,     \* bound: how many requests one session serves
    Backends,      \* where the cache is: "memory", "redis" or both in turn
    StartNodes, StartEdges

Request ==
    [kind : {"validate"}, options : ValidationOptions]
    \cup [kind : {"topology", "checkCycle"}]
    \cup [kind : {"checkEdge"}, edge : [source : Node, target : Node,
                                        handle : Handle \cup {Null}]]
    \cup [kind : {"checkBatch"}, batch : SUBSET EdgeRow]

ASSUME RequestsAssumption == \A s \in Session : Requests[s] \subseteq Request
ASSUME EditsAssumption ==
    /\ MaxEdits \in Nat /\ MaxServed \in Nat
    /\ Batches \subseteq SUBSET EdgeRow
    /\ \A g \in NewGraphs : /\ g.nodes \subseteq Node /\ g.edges \subseteq EdgeRow
                             /\ GraphNodes({}, g.edges) \subseteq Foreign
    /\ StartNodes \subseteq Node /\ StartEdges \subseteq EdgeRow
    /\ GraphNodes({}, StartEdges) \subseteq StartNodes
    /\ Backends \subseteq {"memory", "redis"}

\* A table has finitely many rows, and a request brings finitely many.
ASSUME FiniteRowsAssumption ==
    /\ IsFiniteSet(StartNodes) /\ IsFiniteSet(StartEdges)
    /\ \A batch \in Batches : IsFiniteSet(batch)
    /\ \A g \in NewGraphs : IsFiniteSet(g.nodes) /\ IsFiniteSet(g.edges)

VARIABLES
    nodes, edges,    \* the committed rows
    version,         \* workflow.version
    past,            \* the versions the row has had: a session that updates or
                     \*    replaces the workflow has loaded one of them
    backend,         \* how the cache was set up, never changed
    cache,           \* cache[v]: the entries under validation:<id>:<v>, at most one
    at,              \* at[s]: what the request of s waits for
    request,         \* request[s]
    key,             \* key[s]: the version s read first
    seenNodes,       \* seenNodes[s]: the node rows s has read ...
    basis,           \* history: ... and after how many edits
    answer,          \* answer[s]: what s got last
    served,          \* served[s]: how many requests s has made
    epoch,           \* history: the edits committed so far
    replaced,        \* history: after how many the graph was last replaced
    floor,           \* floor[s]: replaced, when s read the version
    overtaken        \* history: a version was written over one not loaded

store   == <<nodes, edges, version, past>>
reading == <<at, request, key, seenNodes, basis, served, floor>>
history == <<epoch, replaced, overtaken>>
vars    == <<store, backend, cache, reading, answer, history>>

NoAnswer == [result |-> "none", cached |-> FALSE, basis |-> 0, torn |-> FALSE, warnings |-> {}]

Init ==
    /\ nodes = StartNodes /\ edges = StartEdges
    /\ version = 1 /\ past = {1}
    /\ backend \in Backends
    /\ cache = [v \in 1 .. MaxEdits + 1 |-> {}]
    /\ at = [s \in Session |-> "idle"]
    /\ request = [s \in Session |-> CHOOSE r \in Requests[s] : TRUE]
    /\ key = [s \in Session |-> 0]
    /\ seenNodes = [s \in Session |-> {}]
    /\ basis = [s \in Session |-> 0]
    /\ answer = [s \in Session |-> NoAnswer]
    /\ served = [s \in Session |-> 0]
    /\ epoch = 0 /\ replaced = 0 /\ overtaken = FALSE
    /\ floor = [s \in Session |-> 0]

------------------------------------------------------------------------------
(* A validation *)

GoTo(s, place) == at' = [at EXCEPT ![s] = place]

Begin(s, r) ==
    /\ at[s] = "idle" /\ served[s] < MaxServed
    /\ served' = [served EXCEPT ![s] = @ + 1]
    /\ request' = [request EXCEPT ![s] = r]
    /\ GoTo(s, "lookup")
    /\ answer' = [answer EXCEPT ![s] = NoAnswer]
    /\ UNCHANGED <<store, backend, cache, key, seenNodes, basis, floor, history>>

Respond(s, a) ==
    /\ answer' = [answer EXCEPT ![s] = a]
    /\ GoTo(s, "idle")
    /\ seenNodes' = [seenNodes EXCEPT ![s] = {}]
    /\ basis' = [basis EXCEPT ![s] = 0]
    /\ key' = [key EXCEPT ![s] = 0]
    /\ floor' = floor
    /\ UNCHANGED <<request, served>>

\* (mutant: the key is the workflow alone)
KeyIgnoringVersion(v) == 1

\* _make_cache_key
Key(v) == v

\* ValidationCache.get for an entry that may have expired: it is removed, or given
\* back, whatever level and limits were asked for.
GetCached(s, v) ==
    \/ /\ cache[Key(v)] = {}
       /\ GoTo(s, "nodes")
       /\ UNCHANGED <<cache, answer, request, seenNodes, basis, served>>
    \/ /\ cache[Key(v)] # {}
       /\ cache' = [cache EXCEPT ![Key(v)] = {}]
       /\ GoTo(s, "nodes")
       /\ UNCHANGED <<answer, request, seenNodes, basis, served>>
    \/ \E entry \in cache[Key(v)] :
          /\ answer' = [answer EXCEPT ![s] = [result |-> "valid", cached |-> TRUE, basis |-> entry,
                                              torn |-> FALSE, warnings |-> {}]]
          /\ GoTo(s, "idle")
          /\ UNCHANGED <<cache, request, seenNodes, basis, served>>

\* The version is read.  The cache in memory answers without a suspension; Redis
\* is asked over the network.
LookUp(s) ==
    /\ at[s] = "lookup"
    /\ key' = [key EXCEPT ![s] = version]
    /\ floor' = [floor EXCEPT ![s] = replaced]
    /\ IF request[s].kind # "validate"
       THEN GoTo(s, "nodes") /\ UNCHANGED <<cache, answer, request, seenNodes, basis, served>>
       ELSE IF backend = "redis"
       THEN GoTo(s, "redis") /\ UNCHANGED <<cache, answer, request, seenNodes, basis, served>>
       ELSE GetCached(s, version)
    /\ UNCHANGED <<store, backend, history>>

\* Redis has nothing, or fails, which counts as nothing.
MissInRedis(s) ==
    /\ at[s] = "redis"
    /\ GoTo(s, "nodes")
    /\ UNCHANGED <<store, backend, cache, request, key, seenNodes, basis, served, floor,
                   answer, history>>

\* The SELECT of the nodes (in a validation after one more of the workflow, whose
\* object keeps the version it has).
SelectNodes(s) ==
    /\ at[s] = "nodes"
    /\ seenNodes' = [seenNodes EXCEPT ![s] = nodes]
    /\ basis' = [basis EXCEPT ![s] = epoch]
    /\ GoTo(s, "edges")
    /\ UNCHANGED <<store, backend, cache, request, key, served, floor, answer, history>>

OutcomesOf(r, N, E) ==
    CASE r.kind = "validate"  -> Outcomes(N, E, r.options)
      [] r.kind \in {"topology", "checkCycle"} -> CycleOutcomes(N, E)
      [] r.kind = "checkEdge" -> EdgeOutcomes(N, E, r.edge)
      [] r.kind = "checkBatch" -> BatchOutcomes(N, E, r.batch)

\* ValidationCache.set: in memory; for Redis json.dumps meets a UUID, raises, and
\* nothing is stored.
StoredIn(v, entry) ==
    IF backend = "memory" THEN [cache EXCEPT ![Key(v)] = {entry}] ELSE cache

\* The SELECT of the edges; everything after it runs without a suspension.
SelectEdges(s) ==
    /\ at[s] = "edges"
    /\ \E result \in OutcomesOf(request[s], seenNodes[s], edges) :
          /\ Respond(s, [result |-> result, cached |-> FALSE, basis |-> basis[s],
                         torn |-> epoch # basis[s],
                         warnings |-> IF request[s].kind = "validate"
                                      THEN DeadEndWarnings(seenNodes[s], edges) ELSE {}])
          /\ cache' = IF request[s].kind = "validate" /\ result = "valid"
                      THEN StoredIn(key[s], basis[s]) ELSE cache
    /\ UNCHANGED <<store, backend, history>>

\* (mutant: only the SELECT of the nodes is under the time limit)
TimeOutEarly(s) ==
    /\ at[s] = "nodes" /\ request[s].kind = "validate"
    /\ Respond(s, [NoAnswer EXCEPT !.result = "timeout"])
    /\ UNCHANGED <<store, backend, cache, history>>

\* wait_for gives up on the two SELECTs.
TimeOut(s) ==
    /\ at[s] \in {"nodes", "edges"} /\ request[s].kind = "validate"
    /\ Respond(s, [NoAnswer EXCEPT !.result = "timeout"])
    /\ UNCHANGED <<store, backend, cache, history>>

------------------------------------------------------------------------------
(* Edits *)

Commit == /\ epoch < MaxEdits
          /\ epoch' = epoch + 1
          /\ UNCHANGED <<backend, cache, reading, answer>>

Fits(N, E) == {e \in E : {e.source, e.target} \subseteq N \cup Foreign}

\* Nodes and edges come and go one request at a time; a batch of new edges is
\* checked edge by edge.
CreateNode(n) ==
    /\ Commit /\ n \notin nodes
    /\ nodes' = nodes \cup {n}
    /\ UNCHANGED <<edges, version, past, replaced, overtaken>>

DeleteNode(n) ==
    /\ Commit /\ n \in nodes
    /\ nodes' = nodes \ {n}
    /\ edges' = Fits(nodes \ {n}, edges)
    /\ UNCHANGED <<version, past, replaced, overtaken>>

\* (mutant: the ends of the new edges need not exist)
CreateEdgesAnywhere(batch) ==
    /\ Commit
    /\ batch \cap edges = {}
    /\ \A d \in batch : ~ClosesCycle(GraphNodes(nodes, edges), Pairs(edges), d)
    /\ edges' = edges \cup batch
    /\ UNCHANGED <<nodes, version, past, replaced, overtaken>>

CreateEdges(batch) ==
    /\ Commit
    /\ GraphNodes({}, batch) \subseteq nodes /\ batch \cap edges = {}
    /\ \A d \in batch : ~ClosesCycle(GraphNodes(nodes, edges), Pairs(edges), d)
    /\ edges' = edges \cup batch
    /\ UNCHANGED <<nodes, version, past, replaced, overtaken>>

DeleteEdge(e) ==
    /\ Commit /\ e \in edges
    /\ edges' = edges \ {e}
    /\ UNCHANGED <<nodes, version, past, replaced, overtaken>>

\* A session that loaded version v writes v + 1, whatever the row holds by now.
BumpVersion(v) ==
    /\ version' = v + 1
    /\ past' = past \cup {v + 1}
    /\ overtaken' = (overtaken \/ version # v)

UpdateWorkflow(v) ==
    /\ Commit /\ BumpVersion(v)
    /\ UNCHANGED <<nodes, edges, replaced>>

\* The edges of a replacement can only join nodes that existed before, and those of
\* the workflow itself are gone: they join nodes of another one.
ReplaceGraph(v, new) ==
    /\ Commit /\ BumpVersion(v)
    /\ nodes' = new.nodes /\ edges' = new.edges
    /\ replaced' = epoch'

------------------------------------------------------------------------------
Answered(s) == LookUp(s) \/ MissInRedis(s) \/ SelectNodes(s) \/ SelectEdges(s)

Edit == \/ \E n \in Node : CreateNode(n) \/ DeleteNode(n)
        \/ \E batch \in Batches : CreateEdges(batch)
        \/ \E e \in edges : DeleteEdge(e)
        \/ \E v \in past : \/ UpdateWorkflow(v)
                           \/ \E new \in NewGraphs : ReplaceGraph(v, new)

Next == \/ \E s \in Session : \/ \E r \in Requests[s] : Begin(s, r)
                              \/ Answered(s) \/ TimeOut(s)
        \/ Edit

\* The timer of wait_for fires.  Nothing is assumed of the database: it may never
\* answer a SELECT.
Spec == Init /\ [][Next]_vars /\ \A s \in Session : WF_vars(TimeOut(s))

------------------------------------------------------------------------------
TypeOK ==
    /\ nodes \subseteq Node /\ edges = Fits(nodes, edges) /\ edges \subseteq EdgeRow
    /\ version \in 1 .. MaxEdits + 1 /\ version \in past /\ past \subseteq 1 .. MaxEdits + 1
    /\ \A v \in DOMAIN cache : cache[v] \subseteq 0 .. epoch /\ Cardinality(cache[v]) <= 1
    /\ at \in [Session -> {"idle", "lookup", "redis", "nodes", "edges"}]
    /\ \A s \in Session : request[s] \in Requests[s]
    /\ \A s \in Session : /\ key[s] \in past \cup {0} /\ seenNodes[s] \subseteq Node
                          /\ basis[s] \in 0 .. epoch /\ served[s] \in 0 .. MaxServed
                          /\ floor[s] \in 0 .. replaced
    /\ replaced <= epoch /\ epoch <= MaxEdits

\* No answer rests on a graph that had been replaced when the request read the
\* version - out of the cache or not, and although results are stored long after
\* their version was read - unless two updates wrote the same version.
ReplacementSeen ==
    \A s \in Session : answer[s].result \in {"valid", "invalid"} =>
        overtaken \/ answer[s].basis >= floor[s]

\* In every run of the workflow only triggers start without a predecessor.
OnlyTriggersStart(G, E) ==
    \E lv \in [G -> 0 .. Cardinality(G) - 1] :
        /\ IsLevelling(G, E, lv)
        /\ \A n \in G : lv[n] = 0 => n \in Triggers(nodes)

\* An answer that was worked out, and nothing committed since its nodes were read,
\* is right: a workflow is valid at level "standard" exactly when it is not empty,
\* can be sorted into levels that start with triggers, none of them idle, and has
\* no two edges alike; a workflow has a topology, and no cycle, exactly when its nodes
\* can be sorted into levels; an edge found valid may be created (EdgeService), and a
\* batch found valid leaves the graph acyclic, which EdgeService does not check.
FreshVerdictIsTrue ==
    \A s \in Session : \A r \in {request[s]} :
        LET a == answer[s]
            E == Pairs(edges)
            G == GraphNodes(nodes, edges)
        IN  a.result \in {"valid", "invalid"} /\ ~a.cached /\ a.basis = epoch =>
              /\ r.kind = "validate" /\ a.result = "valid" => Acyclic(G, E)
              /\ r.kind = "validate" /\ r.options.level = "standard" =>
                   (a.result = "valid" <=>
                      /\ nodes # {} /\ OnlyTriggersStart(G, E)
                      /\ Cardinality(G) > 1 => G = GraphNodes({}, E)
                      /\ ~\E d, e \in edges : d # e /\ SameSignature(d, e)
                      /\ Cardinality(G) <= r.options.maxNodes
                      /\ Cardinality(edges) <= r.options.maxEdges)
              /\ r.kind \in {"topology", "checkCycle"} =>
                   (a.result = "valid" <=>
                      \E lv \in [G -> 0 .. Cardinality(G) - 1] : IsLevelling(G, E, lv))
              /\ r.kind = "checkEdge" /\ a.result = "valid" =>
                   /\ r.edge.source # r.edge.target
                   /\ {r.edge.source, r.edge.target} \subseteq nodes
                   /\ ~ClosesCycle(G, E, r.edge)
                   /\ ~\E e \in edges : SameSignature(e, r.edge)
              /\ r.kind = "checkBatch" /\ a.result = "valid" =>
                   Acyclic(G, E \cup Pairs(r.batch))

\* A request fails with an error of its own only when an edit came between its two
\* SELECTs, a replacement brought edges of another workflow, or a self loop of an
\* unknown node is proposed.
CrashNeedsRace ==
    \A s \in Session : answer[s].result = "crash" =>
        \/ answer[s].torn
        \/ replaced > 0
        \/ request[s].kind = "checkEdge" /\ request[s].edge.source = request[s].edge.target

\* A validation past the cache is answered, even by a database that never is.
PastLookupAnswered ==
    \A s \in Session : at[s] \in {"nodes", "edges"} /\ request[s].kind = "validate"
                           ~> at[s] = "idle"
===============================================================================
