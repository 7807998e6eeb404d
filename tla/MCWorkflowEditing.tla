-------------------------- MODULE MCWorkflowEditing --------------------------
(***************************************************************************)
(* Instances of WorkflowEditing for TLC.                                   *)
(***************************************************************************)
EXTENDS WorkflowEditing, TLC

CONSTANTS a, b, c, x, y, h

E(m, n) == [source |-> m, target |-> n, handle |-> h]

TwoNodes == {a, b}
ThreeNodes == {a, b, c}
OtherNodes == {x, y}
OneHandle == {h}
OneEdge == {E(a, b)}

Create(batch) == [kind |-> "createEdges", batch |-> batch]
Update(v)     == [kind |-> "update", version |-> v]

\* One request of every kind; edges that close a cycle alone, with each other, or
\* with the edge there is, edges to a node not created yet, and a new graph whose
\* edge joins nodes of another workflow.
AllRequests ==
    { [kind |-> "createNodes"], [kind |-> "delete"], [kind |-> "duplicate"],
      [kind |-> "deleteNode", node |-> a], [kind |-> "deleteEdge", edge |-> E(a, b)],
      Create(<<E(b, a)>>), Create(<<E(b, c)>>), Create(<<E(b, c), E(c, a)>>),
      Update(1), Update(2),
      [kind |-> "replace", version |-> 1, batch |-> << >>],
      [kind |-> "replace", version |-> 1, batch |-> <<E(x, y)>>] }

Symmetry == Permutations(Session)
==============================================================================
