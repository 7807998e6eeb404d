------------------------------ MODULE KahnLevels ------------------------------
(***************************************************************************)
(* GraphAlgorithms.topological_sort_levels (services/workflow/             *)
(* algorithms.py): Kahn's algorithm, level by level.  The executor takes   *)
(* its levels from here and never looks at an edge again, so whatever is   *)
(* wrong with a level is wrong with every run.                             *)
(*                                                                         *)
(* The order within a deque and the order in which a Python set is walked  *)
(* decide nothing, so queues are sets.  levelOf[n] = i says that n is in   *)
(* levels[i]; current_level is the part of it at the current depth.        *)
(*                                                                         *)
(* An edge that is there twice is left out: the code counts it twice in    *)
(* the in-degree of its target, and takes both off again when it goes      *)
(* through the successors of its source, where the node occurs twice; only *)
(* whether a degree is 0 is ever asked, and only after the second is it.   *)
(***************************************************************************)
EXTENDS WorkflowGraph, FiniteSets

CONSTANTS
    Node,    \* the nodes of the graph
    Graphs   \* bound: the edge sets to sort

VARIABLES
    edges,      \* the edges of the graph, never changed
    pc,         \* "check", "sort" or "done"
    inDegree,   \* in_degree: edges from nodes not yet sorted
    queue,      \* nodes of the current level still to sort
    nextQueue,  \* nodes of the next level found so far
    depth,      \* index of the current level
    levelOf     \* the level of every node sorted so far

vars == <<edges, pc, inDegree, queue, nextQueue, depth, levelOf>>

Sorted == DOMAIN levelOf

InDegree(n) == Cardinality({e \in edges : e.target = n})

Init ==
    /\ edges \in Graphs
    /\ pc = "check"
    /\ inDegree = [n \in Node |-> 0]
    /\ queue = {} /\ nextQueue = {}
    /\ depth = 0
    /\ levelOf = [n \in {} |-> 0]

\* A graph with a cycle is not sorted: the result is None.
RefuseCycle ==
    /\ pc = "check"
    /\ ~Acyclic(Node, edges)
    /\ pc' = "done"
    /\ UNCHANGED <<edges, inDegree, queue, nextQueue, depth, levelOf>>

\* Count the edges into every node; the first level has none.
CountDegrees ==
    /\ pc = "check"
    /\ Acyclic(Node, edges)
    /\ inDegree' = [n \in Node |-> InDegree(n)]
    /\ queue' = {n \in Node : InDegree(n) = 0}
    /\ pc' = "sort"
    /\ UNCHANGED <<edges, nextQueue, depth, levelOf>>

\* (mutant: a node that becomes free joins the level being built)
SortNodeIntoSameLevel(n) ==
    /\ pc = "sort"
    /\ n \in queue
    /\ levelOf' = [m \in Sorted \cup {n} |-> IF m = n THEN depth ELSE levelOf[m]]
    /\ LET next == Successors(edges, n)
           free == {m \in next : inDegree[m] = 1}
       IN  /\ inDegree' = [m \in Node |-> IF m \in next THEN inDegree[m] - 1
                                                        ELSE inDegree[m]]
           /\ queue' = (queue \ {n}) \cup free
    /\ UNCHANGED <<edges, pc, nextQueue, depth>>

\* Take a node from the queue into the current level; its successors have one
\* edge less to wait for, and those that wait for none form the next level.
SortNode(n) ==
    /\ pc = "sort"
    /\ n \in queue
    /\ queue' = queue \ {n}
    /\ levelOf' = [m \in Sorted \cup {n} |-> IF m = n THEN depth ELSE levelOf[m]]
    /\ LET next == Successors(edges, n)
           free == {m \in next : inDegree[m] = 1}
       IN  /\ inDegree' = [m \in Node |-> IF m \in next THEN inDegree[m] - 1
                                                        ELSE inDegree[m]]
           /\ nextQueue' = nextQueue \cup free
    /\ UNCHANGED <<edges, pc, depth>>

NextLevel ==
    /\ pc = "sort"
    /\ queue = {} /\ nextQueue # {}
    /\ queue' = nextQueue
    /\ nextQueue' = {}
    /\ depth' = depth + 1
    /\ UNCHANGED <<edges, pc, inDegree, levelOf>>

Finish ==
    /\ pc = "sort"
    /\ queue = {} /\ nextQueue = {}
    /\ pc' = "done"
    /\ UNCHANGED <<edges, inDegree, queue, nextQueue, depth, levelOf>>

Next == \/ RefuseCycle \/ CountDegrees \/ NextLevel \/ Finish
        \/ \E n \in Node : SortNode(n)

Spec == Init /\ [][Next]_vars

------------------------------------------------------------------------------
TypeOK ==
    /\ edges \subseteq EdgesOver(Node)
    /\ pc \in {"check", "sort", "done"}
    /\ inDegree \in [Node -> Nat]
    /\ queue \subseteq Node /\ nextQueue \subseteq Node
    /\ depth \in Nat
    /\ Sorted \subseteq Node /\ levelOf \in [Sorted -> Nat]

\* What is sorted so far is right: a sorted node has all its predecessors sorted,
\* in lower levels, and one of them in the level just below its own.
LevelsAreRight ==
    /\ \A e \in edges : e.target \in Sorted =>
          e.source \in Sorted /\ levelOf[e.source] < levelOf[e.target]
    /\ \A n \in Sorted : levelOf[n] > 0 =>
          \E e \in edges : e.target = n /\ levelOf[n] = levelOf[e.source] + 1

\* Of an acyclic graph every node is sorted, and the levels returned are the only
\* ones that satisfy IsLevelling: that is what WorkflowExecutor takes as the
\* outcome of get_topology.
LevelsAreForced ==
    pc = "done" /\ Acyclic(Node, edges) =>
        {lv \in [Node -> 0 .. Cardinality(Node) - 1] : IsLevelling(Node, edges, lv)}
            = {levelOf}
==============================================================================
