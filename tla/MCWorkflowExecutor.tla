-------------------------- MODULE MCWorkflowExecutor --------------------------
(***************************************************************************)
(* Instances of WorkflowExecutor for TLC.                                  *)
(***************************************************************************)
EXTENDS WorkflowExecutor, TLC

CONSTANTS a, b, c, d

Edge(m, n) == [source |-> m, target |-> n]

\* Three nodes, a and b conditions: every acyclic graph up to the exchange of a and b,
\* and a cycle.
ThreeNodes == {a, b, c}
InOrder(x, y, z) == SUBSET {Edge(x, y), Edge(x, z), Edge(y, z)}
ThreeNodeGraphs ==
    InOrder(a, b, c) \cup InOrder(a, c, b) \cup InOrder(c, a, b)
    \cup {{Edge(a, b), Edge(b, a)}}

\* Every acyclic graph on three nodes, up to renaming.
ForwardGraphs == InOrder(a, b, c)

\* Four nodes: every acyclic graph, up to renaming, and one cycle.
FourNodes == {a, b, c, d}
FourNodeGraphs ==
    SUBSET {Edge(a, b), Edge(a, c), Edge(a, d), Edge(b, c), Edge(b, d), Edge(c, d)}
    \cup {{Edge(a, b), Edge(b, c), Edge(c, a)}}

NoConditions == {}
OneCondition == {a}
TwoConditions == {a, b}

OneRetryForB == [n \in Node |-> IF n = b THEN 1 ELSE 0]
NoRetries == [n \in Node |-> 0]

ThreeThere == {ThreeNodes}
FourThere == {FourNodes}

\* c exists from the start, or somebody may create it meanwhile.
ThirdMayComeLate == {ThreeNodes, {a, b}}

NoEdits == {}
AllEdits == {"deleteEdge", "createEdge", "deleteNode", "createNode"}
==============================================================================
