------------------------------- MODULE MCGraphs -------------------------------
(***************************************************************************)
(* The graphs on which TLC runs the graph algorithms.                      *)
(***************************************************************************)
EXTENDS WorkflowGraph

CONSTANTS a, b, c, d

Edge(m, n) == [source |-> m, target |-> n]

FourNodes == {a, b, c, d}

\* Every graph on four nodes without self loops.
SimpleGraphs == SUBSET {e \in EdgesOver(FourNodes) : e.source # e.target}

\* Every graph on three nodes, self loops included: check_cycle() and
\* validate_batch_edges() search graphs that no constraint of the database has
\* seen.
ThreeNodes == {a, b, c}
LoopyGraphs == SUBSET EdgesOver(ThreeNodes)

AllGraphs == SimpleGraphs \cup LoopyGraphs

\* Up to renaming, an edge between two nodes, and a loop.
OneProbe == {Edge(b, a), Edge(a, a)}
===============================================================================
