----------------------------- MODULE CycleSearch -----------------------------
(***************************************************************************)
(* GraphAlgorithms.detect_cycle (services/workflow/algorithms.py): the     *)
(* depth-first search behind every verdict on a workflow graph.  A call of *)
(* the inner dfs() is a node on `path` with the neighbours it has not      *)
(* looked at; get_successors gives them in an order the database chooses.  *)
(***************************************************************************)
EXTENDS WorkflowGraph, Sequences

CONSTANTS
    Node,    \* the nodes of the graph
    Graphs   \* bound: the edge sets to search

VARIABLES
    edges,     \* the edges of the graph, never changed
    visited,   \* nodes whose dfs() has been called
    recStack,  \* nodes whose dfs() has not returned
    path,      \* the same nodes, in the order of the calls
    todo,      \* todo[n]: neighbours the loop of dfs(n) has still to look at
    verdict,   \* "searching", "acyclic" or "cyclic"
    cycle      \* the cycle returned

result == <<verdict, cycle>>
vars == <<edges, visited, recStack, path, todo, result>>

Init ==
    /\ edges \in Graphs
    /\ visited = {} /\ recStack = {} /\ path = << >>
    /\ todo = [n \in Node |-> {}]
    /\ verdict = "searching" /\ cycle = << >>

Top == path[Len(path)]

\* The first lines of dfs(n).
Enter(n) ==
    /\ visited' = visited \cup {n}
    /\ recStack' = recStack \cup {n}
    /\ path' = Append(path, n)

\* The outer loop starts a search from a node not visited yet.
StartAt(n) ==
    /\ verdict = "searching"
    /\ path = << >>
    /\ n \notin visited
    /\ Enter(n)
    /\ todo' = [todo EXCEPT ![n] = Successors(edges, n)]
    /\ UNCHANGED <<edges, result>>

Descend(n) ==
    /\ verdict = "searching"
    /\ path # << >>
    /\ n \in todo[Top] \ visited
    /\ Enter(n)
    /\ todo' = [todo EXCEPT ![Top] = @ \ {n}, ![n] = Successors(edges, n)]
    /\ UNCHANGED <<edges, result>>

\* (mutant: the whole path is returned, not the part from the neighbour on)
CloseCycleWholePath(n) ==
    /\ verdict = "searching"
    /\ path # << >>
    /\ n \in todo[Top] \cap recStack
    /\ verdict' = "cyclic"
    /\ cycle' = Append(path, n)
    /\ UNCHANGED <<edges, visited, recStack, path, todo>>

\* A neighbour on the stack closes a cycle: the path from its first occurrence.
CloseCycle(n) ==
    /\ verdict = "searching"
    /\ path # << >>
    /\ n \in todo[Top] \cap recStack
    /\ verdict' = "cyclic"
    /\ cycle' = Append(SubSeq(path, CHOOSE i \in DOMAIN path : path[i] = n,
                              Len(path)), n)
    /\ UNCHANGED <<edges, visited, recStack, path, todo>>

\* A neighbour that was searched completely is passed over.
PassOver(n) ==
    /\ verdict = "searching"
    /\ path # << >>
    /\ n \in todo[Top] \cap (visited \ recStack)
    /\ todo' = [todo EXCEPT ![Top] = @ \ {n}]
    /\ UNCHANGED <<edges, visited, recStack, path, result>>

\* dfs() returns: its node leaves the stack and the path.
Backtrack ==
    /\ verdict = "searching"
    /\ path # << >>
    /\ todo[Top] = {}
    /\ recStack' = recStack \ {Top}
    /\ path' = SubSeq(path, 1, Len(path) - 1)
    /\ UNCHANGED <<edges, visited, todo, result>>

Conclude ==
    /\ verdict = "searching"
    /\ path = << >>
    /\ visited = Node
    /\ verdict' = "acyclic"
    /\ UNCHANGED <<edges, visited, recStack, path, todo, cycle>>

Next == \/ \E n \in Node : \/ StartAt(n) \/ Descend(n)
                           \/ CloseCycle(n) \/ PassOver(n)
        \/ Backtrack \/ Conclude

Spec == Init /\ [][Next]_vars

------------------------------------------------------------------------------
TypeOK ==
    /\ edges \subseteq EdgesOver(Node)
    /\ visited \subseteq Node /\ recStack \subseteq visited
    /\ path \in Seq(Node)
    /\ todo \in [Node -> SUBSET Node]
    /\ verdict \in {"searching", "acyclic", "cyclic"}
    /\ cycle \in Seq(Node)

\* What is returned is a cycle: it ends where it starts and follows edges.
CycleIsReal ==
    verdict = "cyclic" =>
        /\ Len(cycle) > 1 /\ cycle[1] = cycle[Len(cycle)]
        /\ \A i \in 1 .. Len(cycle) - 1 :
              [source |-> cycle[i], target |-> cycle[i + 1]] \in edges

\* No cycle is missed.
VerdictIsRight == verdict = "acyclic" => Acyclic(Node, edges)
==============================================================================
