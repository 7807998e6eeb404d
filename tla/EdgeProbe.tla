------------------------------ MODULE EdgeProbe ------------------------------
(***************************************************************************)
(* GraphAlgorithms.detect_cycle_with_proposed_edge (services/workflow/     *)
(* algorithms.py): would the edge source -> target close a cycle?  A       *)
(* breadth-first search from target looks for source and remembers in      *)
(* `path` from where it reached each node.  A node may be queued several   *)
(* times, each time with its entry in path overwritten, before it is       *)
(* visited; the cycle is then read back through path by a while loop.      *)
(***************************************************************************)
EXTENDS WorkflowGraph, SequencesExt

CONSTANTS
    Node,    \* the nodes of the graph
    Graphs,  \* bound: the edge sets to probe
    Probes,  \* bound: the edges proposed
    None     \* Python's None

VARIABLES
    edges, proposed,  \* the arguments, never changed
    pc,         \* "search", "rebuild" or "done"
    visited,    \* nodes taken from the queue
    queue,      \* the deque
    path,       \* path[n]: the node n was last queued from, or None
    node,       \* the pointer of the rebuilding loop
    rebuilt,    \* reversed_path, kept the right way round
    cycle       \* the answer: empty when there is no cycle

arguments == <<edges, proposed>>
vars == <<arguments, pc, visited, queue, path, node, rebuilt, cycle>>

Init ==
    /\ edges \in Graphs /\ proposed \in Probes
    /\ pc = "search"
    /\ visited = {} /\ queue = <<proposed.target>>
    /\ path = [n \in Node |-> None]
    /\ node = None /\ rebuilt = << >> /\ cycle = << >>

\* Source is reached: rebuild the path that led there.
Reach ==
    /\ pc = "search"
    /\ queue # << >> /\ Head(queue) = proposed.source
    /\ node' = proposed.source
    /\ pc' = "rebuild"
    /\ queue' = Tail(queue)
    /\ UNCHANGED <<arguments, visited, path, rebuilt, cycle>>

\* (mutant: path is redirected before the test whether the neighbour was visited)
ExpandRedirecting ==
    /\ pc = "search"
    /\ queue # << >> /\ Head(queue) # proposed.source
    /\ LET current == Head(queue)
           next    == Successors(edges, current)
       IN  /\ visited' = visited \cup {current}
           /\ path' = [n \in Node |-> IF n \in next THEN current ELSE path[n]]
           /\ \E order \in SetToSeqs(next \ visited') : queue' = Tail(queue) \o order
    /\ UNCHANGED <<arguments, pc, node, rebuilt, cycle>>

\* (mutant: the search follows the edges backwards)
ExpandBackwards ==
    /\ pc = "search"
    /\ queue # << >> /\ Head(queue) # proposed.source
    /\ LET current == Head(queue)
           next    == Predecessors(edges, current)
           fresh   == next \ (visited \cup {current})
       IN  /\ visited' = visited \cup {current}
           /\ path' = [n \in Node |-> IF n \in fresh THEN current ELSE path[n]]
           /\ \E order \in SetToSeqs(fresh) : queue' = Tail(queue) \o order
    /\ UNCHANGED <<arguments, pc, node, rebuilt, cycle>>

\* Any other node: its neighbours not visited yet are queued, in the order the
\* adjacency list has them, whether or not they wait in the queue already.
Expand ==
    /\ pc = "search"
    /\ queue # << >> /\ Head(queue) # proposed.source
    /\ LET current == Head(queue)
           next    == Successors(edges, current)
           fresh   == next \ (visited \cup {current})
       IN  /\ visited' = visited \cup {current}
           /\ path' = [n \in Node |-> IF n \in fresh THEN current ELSE path[n]]
           /\ \E order \in SetToSeqs(fresh) : queue' = Tail(queue) \o order
    /\ UNCHANGED <<arguments, pc, node, rebuilt, cycle>>

\* Follow path back from source; what it meets is put in front.
Rebuild ==
    /\ pc = "rebuild"
    /\ node # None
    /\ rebuilt' = <<node>> \o rebuilt
    /\ node' = path[node]
    /\ UNCHANGED <<arguments, pc, visited, queue, path, cycle>>

Answer ==
    /\ pc = "rebuild"
    /\ node = None
    /\ cycle' = <<proposed.source>> \o rebuilt
    /\ pc' = "done"
    /\ UNCHANGED <<arguments, visited, queue, path, node, rebuilt>>

NoCycle ==
    /\ pc = "search"
    /\ queue = << >>
    /\ pc' = "done"
    /\ UNCHANGED <<arguments, visited, queue, path, node, rebuilt, cycle>>

Next == Reach \/ Expand \/ Rebuild \/ Answer \/ NoCycle

Spec == Init /\ [][Next]_vars

------------------------------------------------------------------------------
TypeOK ==
    /\ edges \subseteq EdgesOver(Node) /\ proposed \in EdgesOver(Node)
    /\ pc \in {"search", "rebuild", "done"}
    /\ visited \subseteq Node /\ queue \in Seq(Node)
    /\ path \in [Node -> Node \cup {None}] /\ path[proposed.target] = None
    /\ node \in Node \cup {None}
    /\ rebuilt \in Seq(Node) /\ cycle \in Seq(Node)

\* The loop that rebuilds the path meets no node twice, however often entries of
\* path were overwritten: it comes to an end.
RebuildEnds == \A i, j \in DOMAIN rebuilt : rebuilt[i] = rebuilt[j] => i = j

\* A cycle that is returned starts with the proposed edge, ends where it starts
\* and follows edges of the graph in between.
CycleIsReal ==
    cycle # << >> =>
        /\ Len(cycle) > 1
        /\ cycle[1] = proposed.source /\ cycle[2] = proposed.target
        /\ cycle[Len(cycle)] = proposed.source
        /\ \A i \in 2 .. Len(cycle) - 1 :
              [source |-> cycle[i], target |-> cycle[i + 1]] \in edges

\* The edge is reported exactly when it would close a cycle.
VerdictIsRight ==
    pc = "done" => (cycle # << >> <=> ClosesCycle(Node, edges, proposed))
==============================================================================
