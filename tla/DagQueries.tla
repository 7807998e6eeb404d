----------------------------- MODULE DagQueries -----------------------------
(***************************************************************************)
(* The questions DAGValidator asks of a graph, each put together from the  *)
(* algorithms: "topology" is get_topology and _generate_topology, a cycle  *)
(* search and, when it finds none, the levels and the critical path;       *)
(* "levels" is topological_sort_levels on its own; "probe" is the search   *)
(* validate_edge_addition makes for an edge that is proposed.              *)
(***************************************************************************)
EXTENDS WorkflowGraph, Sequences, FiniteSets

CONSTANTS
    Node,    \* the nodes of the graph
    Graphs,  \* bound: the edge sets asked about
    Probes,  \* bound: the edges proposed
    None     \* Python's None

ASSUME GraphsAssumption == Graphs \subseteq SUBSET EdgesOver(Node)
ASSUME ProbesAssumption == Probes \subseteq EdgesOver(Node)
ASSUME FiniteNodes == IsFiniteSet(Node)
ASSUME NoneAssumption == None \notin Node

VARIABLES
    kind, edges,                                          \* the question
    visited, recStack, path, todo, verdict, cycle,        \* the cycle search
    sorting, inDegree, queue, nextQueue, depth, levelOf,  \* the levels
    proposed, probing, seen, pending, cameFrom, node, rebuilt, closed,  \* the probe
    memo,        \* get_critical_path: the longest path from each node seen to its end
    critical     \* the critical path, empty until it is known

searchVars == <<visited, recStack, path, todo, verdict, cycle>>
sortVars == <<sorting, inDegree, queue, nextQueue, depth, levelOf>>
probeVars == <<proposed, probing, seen, pending, cameFrom, node, rebuilt, closed>>
criticalVars == <<memo, critical>>
vars == <<kind, edges, searchVars, sortVars, probeVars, criticalVars>>

Search == INSTANCE CycleSearch
Sort == INSTANCE KahnLevels WITH pc <- sorting
Probe == INSTANCE EdgeProbe WITH pc <- probing, visited <- seen, queue <- pending,
                                 path <- cameFrom, cycle <- closed

Init ==
    /\ kind \in {"topology", "levels", "probe"}
    /\ Search!Init /\ Sort!Init /\ Probe!Init
    /\ kind # "probe" => proposed = CHOOSE e \in Probes : TRUE
    /\ memo = << >> /\ critical = << >>

\* get_topology: a cycle that is found is raised as CycleDetectedError.
SearchStep ==
    /\ kind = "topology"
    /\ Search!Next
    /\ UNCHANGED <<kind, sortVars, probeVars, criticalVars>>

\* topological_sort_levels, in get_topology only after a search without a cycle.
SortStep ==
    /\ kind = "levels" \/ (kind = "topology" /\ verdict = "acyclic")
    /\ Sort!Next
    /\ UNCHANGED <<kind, searchVars, probeVars, criticalVars>>

ProbeStep ==
    /\ kind = "probe"
    /\ Probe!Next
    /\ UNCHANGED <<kind, searchVars, sortVars, criticalVars>>

------------------------------------------------------------------------------
(* get_critical_path, memo holding what dfs() has returned.                   *)

Memoised == DOMAIN memo
Seeks == kind = "topology" /\ verdict = "acyclic" /\ sorting = "done" /\ critical = << >>

AnyOf(S) == S

\* The nodes of S from which the longest paths start.
Longest(S) == {n \in S : \A m \in S : Len(memo[m]) <= Len(memo[n])}

\* dfs(n) returns: a first one of the longest paths of its successors, after n.
ReturnFromDfs(n) ==
    /\ Seeks
    /\ n \notin Memoised
    /\ Successors(edges, n) \subseteq Memoised
    /\ \E tail \in IF Successors(edges, n) = {} THEN {<< >>}
                   ELSE {memo[m] : m \in Longest(Successors(edges, n))} :
          memo' = [m \in Memoised \cup {n} |-> IF m = n THEN <<n>> \o tail ELSE memo[m]]
    /\ UNCHANGED <<kind, edges, searchVars, sortVars, probeVars, critical>>

\* The loop over all nodes keeps the first of the longest paths.
KeepLongest ==
    /\ Seeks
    /\ Memoised = Node
    /\ \E n \in Longest(Node) : critical' = memo[n]
    /\ UNCHANGED <<kind, edges, searchVars, sortVars, probeVars, memo>>

Next == \/ SearchStep \/ SortStep \/ ProbeStep \/ KeepLongest
        \/ \E n \in Node : ReturnFromDfs(n)

Spec == Init /\ [][Next]_vars

------------------------------------------------------------------------------
(* Of an acyclic graph every node is sorted, and the levels returned are the  *)
(* only ones with every node just after the last of its predecessors.         *)
LevelsAreForced == Sort!LevelsAreForced

(* A cycle that is returned follows the edges of the graph, with the proposed *)
(* edge first when one was proposed, and ends where it starts.                *)
CycleIsReal == Search!CycleIsReal /\ Probe!CycleIsReal

(* No cycle is missed by the search, and an edge is reported exactly when it  *)
(* would close a cycle.                                                       *)
VerdictIsRight == Search!VerdictIsRight /\ Probe!VerdictIsRight

(* The loop that reads a cycle back through path comes to an end, although    *)
(* entries of path are overwritten while nodes wait in the queue.             *)
RebuildEnds == Probe!RebuildEnds

(* The critical path follows edges, and it has as many nodes as there are     *)
(* levels: the two algorithms agree on how long the workflow must take.       *)
CriticalPathIsLongest ==
    critical # << >> =>
        /\ \A i \in 1 .. Len(critical) - 1 :
              [source |-> critical[i], target |-> critical[i + 1]] \in edges
        /\ Len(critical) = Cardinality({levelOf[n] : n \in Node})
==============================================================================
