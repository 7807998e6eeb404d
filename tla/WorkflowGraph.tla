---------------------------- MODULE WorkflowGraph ----------------------------
(***************************************************************************)
(* The directed graph of a workflow, as services/workflow/graph.py keeps   *)
(* it: a set of nodes and a set of edges [source |-> m, target |-> n].     *)
(* The adjacency lists of the code may hold an edge twice (two rows that   *)
(* differ in their handles).  The searches ask only whether a node is a    *)
(* successor, so a set of pairs says the same; the in-degrees of Kahn's    *)
(* algorithm count such an edge twice, see KahnLevels.  Nothing here       *)
(* recurses: reachability is the least closed set, and the levels of       *)
(* Kahn's algorithm are characterised by the condition that determines     *)
(* them (KahnLevels shows that the algorithm computes them).               *)
(***************************************************************************)
EXTENDS Naturals

EdgesOver(N) == [source : N, target : N]

\* Graph.get_successors and Graph.get_predecessors.
Successors(E, n) == {e.target : e \in {d \in E : d.source = n}}

Predecessors(E, n) == {e.source : e \in {d \in E : d.target = n}}

\* C is closed under the edges: following an edge never leaves it.
Closed(E, C) == \A e \in E : e.source \in C => e.target \in C

(***************************************************************************)
(* The nodes a breadth-first search from S visits, S included: those that  *)
(* belong to every closed set containing S.                                *)
(***************************************************************************)
ReachableFrom(N, E, S) ==
    {n \in N : \A C \in SUBSET N : S \subseteq C /\ Closed(E, C) => n \in C}

\* A breadth-first search from the target of e meets its source.
ClosesCycle(N, E, e) == e.source \in ReachableFrom(N, E, {e.target})

Acyclic(N, E) == \A e \in E : ~ClosesCycle(N, E, e)

(***************************************************************************)
(* lv is the level function of topological_sort_levels: a node without     *)
(* predecessors is at level 0, every other node one level after the last   *)
(* of its predecessors.  There is one such function when the graph is      *)
(* acyclic and none when it has a cycle.                                   *)
(***************************************************************************)
IsLevelling(N, E, lv) ==
    /\ \A e \in E : lv[e.source] < lv[e.target]
    /\ \A n \in N : lv[n] > 0 =>
          \E e \in E : e.target = n /\ lv[n] = lv[e.source] + 1
==============================================================================
