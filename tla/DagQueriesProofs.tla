--------------------------- MODULE DagQueriesProofs ---------------------------
(***************************************************************************)
(* Proofs about DagQueries, for every finite graph and every edge that is  *)
(* proposed: what the algorithms of services/workflow/algorithms.py        *)
(* return.  Where an argument goes along a path or down the levels it      *)
(* takes a least counterexample: LeastNumber and SmallestSet.              *)
(***************************************************************************)
EXTENDS DagQueries, SequenceTheorems, FiniteSetTheorems, TLAPS

Edge(m, n) == [source |-> m, target |-> n]

\* The operators of WorkflowGraph as the instances name them.
LEMMA SameOperators ==
    /\ \A E, n : Search!Successors(E, n) = Successors(E, n)
    /\ \A E, n : Probe!Successors(E, n) = Successors(E, n)
    /\ \A E, n : Sort!Successors(E, n) = Successors(E, n)
    /\ \A N, E : Search!Acyclic(N, E) = Acyclic(N, E)
    /\ \A N, E : Sort!Acyclic(N, E) = Acyclic(N, E)
    /\ \A N, E, e : Probe!ClosesCycle(N, E, e) = ClosesCycle(N, E, e)
BY DEF Search!Successors, Probe!Successors, Sort!Successors, Successors,
       Acyclic, Search!Acyclic, Sort!Acyclic,
       ClosesCycle, Search!ClosesCycle, Sort!ClosesCycle, Probe!ClosesCycle,
       ReachableFrom, Search!ReachableFrom, Sort!ReachableFrom, Probe!ReachableFrom,
       Closed, Search!Closed, Sort!Closed, Probe!Closed

LEMMA SuccessorsAreEnds ==
    ASSUME NEW E, E \subseteq EdgesOver(Node), NEW m, NEW n
    PROVE  n \in Successors(E, m) <=> Edge(m, n) \in E
<1>1. \A e \in E : e = [source |-> e.source, target |-> e.target]
  BY DEF EdgesOver
<1>2. ASSUME n \in Successors(E, m) PROVE Edge(m, n) \in E
  <2>1. PICK e \in E : e.source = m /\ n = e.target
    BY <1>2 DEF Successors
  <2> QED
    BY <1>1, <2>1 DEF Edge
<1>3. ASSUME Edge(m, n) \in E PROVE n \in Successors(E, m)
  BY <1>3 DEF Edge, Successors
<1> QED
  BY <1>2, <1>3

------------------------------------------------------------------------------
(* The cycle search *)

finished == visited \ recStack
OnPath(n) == \E i \in DOMAIN path : path[i] = n

\* path holds the nodes whose dfs() runs, each once, and follows edges.
PathInv ==
    /\ path \in Seq(Node)
    /\ \A n : n \in recStack <=> OnPath(n)
    /\ \A i, j \in DOMAIN path : path[i] = path[j] => i = j
    /\ \A i \in DOMAIN path : i + 1 \in DOMAIN path => Edge(path[i], path[i + 1]) \in edges

\* A neighbour on whom dfs() of a node on the path does not work any more is finished,
\* or it is the next one on the path.
TodoInv ==
    /\ todo \in [Node -> SUBSET Node]
    /\ \A n \in Node : todo[n] \subseteq Successors(edges, n)
    /\ \A i \in DOMAIN path : \A m \in Successors(edges, path[i]) :
          \/ m \in todo[path[i]] \cup finished
          \/ i + 1 \in DOMAIN path /\ m = path[i + 1]

\* No cycle goes through a finished node.
FinishedInv ==
    \A e \in edges : e.source \in finished =>
        e.target \in finished /\ ~ClosesCycle(Node, edges, e)

SInv ==
    /\ edges \subseteq EdgesOver(Node)
    /\ visited \subseteq Node /\ recStack \subseteq visited
    /\ PathInv /\ TodoInv /\ FinishedInv
    /\ verdict = "acyclic" => visited = Node /\ recStack = {}
    /\ Search!CycleIsReal

------------------------------------------------------------------------------
LEMMA SuccessorsStay ==
    ASSUME NEW E, E \subseteq EdgesOver(Node), NEW n
    PROVE  Successors(E, n) \in SUBSET Node
BY DEF Successors, EdgesOver

LEMMA InitSInv == Init => SInv
<1> SUFFICES ASSUME Init PROVE SInv
  OBVIOUS
<1>1. edges \subseteq EdgesOver(Node)
  BY GraphsAssumption DEF Init, Search!Init
<1>2. /\ path = << >> /\ visited = {} /\ recStack = {} /\ verdict = "searching"
      /\ todo = [n \in Node |-> {}]
  BY DEF Init, Search!Init
<1>3. PathInv /\ TodoInv /\ FinishedInv
  BY <1>2 DEF PathInv, TodoInv, FinishedInv, OnPath, finished
<1> QED
  BY <1>1, <1>2, <1>3 DEF SInv, Search!CycleIsReal

\* A node is entered whose neighbours are all still to be looked at.
LEMMA EnterSInv ==
    ASSUME SInv, verdict = "searching", NEW n \in Node, n \notin visited,
           Search!Enter(n), UNCHANGED <<edges, verdict, cycle>>,
           todo' \in [Node -> SUBSET Node], todo'[n] = Successors(edges, n),
           \/ path = << >> /\ todo' = [todo EXCEPT ![n] = Successors(edges, n)]
           \/ /\ path # << >> /\ n \in todo[Search!Top]
              /\ todo' = [todo EXCEPT ![Search!Top] = @ \ {n}, ![n] = Successors(edges, n)]
    PROVE  SInv'
<1> USE DEF SInv
<1> DEFINE l == Len(path)
<1>1. path \in Seq(Node) /\ l \in Nat /\ DOMAIN path = 1 .. l
  BY LenProperties DEF PathInv
<1>2. path' = Append(path, n) /\ visited' = visited \cup {n} /\ recStack' = recStack \cup {n}
  BY DEF Search!Enter
<1>3. /\ path' \in Seq(Node) /\ Len(path') = l + 1 /\ DOMAIN path' = 1 .. l + 1
      /\ path'[l + 1] = n /\ \A i \in 1 .. l : path'[i] = path[i]
  BY <1>1, <1>2, AppendProperties, LenProperties
<1>4. \A i \in 1 .. l : path[i] \in recStack /\ path[i] # n
  BY <1>1 DEF PathInv, OnPath
<1>5. l # 0 => Search!Top = path[l] /\ Search!Top \in Node /\ Search!Top # n
  BY <1>1, <1>4, ElementOfSeq DEF Search!Top
<1>6. path = << >> <=> l = 0
  BY <1>1, EmptySeq
<1> HIDE DEF l
<1>7. finished' = finished
  BY <1>2 DEF finished
<1>8. PathInv'
  <2>1. \A m : m \in recStack' <=> OnPath(m)'
    BY <1>1, <1>2, <1>3 DEF PathInv, OnPath
  <2>2. \A i, j \in 1 .. l + 1 : path'[i] = path'[j] => i = j
    BY <1>1, <1>3, <1>4 DEF PathInv
  <2>3. ASSUME NEW i \in 1 .. l + 1, i + 1 \in 1 .. l + 1
        PROVE  Edge(path'[i], path'[i + 1]) \in edges
    <3>1. CASE i = l
      <4>1. n \in Successors(edges, path[l])
        BY <3>1, <1>1, <1>5, <1>6, <2>3, ElementOfSeq DEF TodoInv
      <4> QED
        BY <4>1, <3>1, <2>3, <1>3, SuccessorsAreEnds
    <3>2. CASE i # l
      <4>1. i \in 1 .. l /\ i + 1 \in 1 .. l
        <5>1. l \in Nat
          BY <1>1
        <5> QED
          BY <5>1, <3>2, <2>3
      <4> QED
        BY <4>1, <1>1, <1>3 DEF PathInv
    <3> QED
      BY <3>1, <3>2
  <2> QED
    BY <2>1, <2>2, <2>3, <1>3 DEF PathInv
<1>9. TodoInv'
  <2>1. ASSUME NEW m \in Node PROVE todo'[m] \subseteq Successors(edges, m)
    BY <2>1, <1>5, <1>6 DEF TodoInv
  <2>2. ASSUME NEW i \in 1 .. l, NEW m \in Successors(edges, path[i])
        PROVE  m \in todo'[path[i]] \cup finished \/ m = path'[i + 1]
    <3>1. path[i] \in Node
      BY <1>1, ElementOfSeq
    <3>2. CASE i = l
      BY <3>1, <3>2, <2>2, <1>1, <1>3, <1>4, <1>5, <1>6 DEF TodoInv
    <3>3. CASE i # l
      <4>1. path[i] # path[l] /\ path[i] # n /\ l # 0
        BY <3>1, <3>3, <1>1, <1>4 DEF PathInv
      <4>2. todo'[path[i]] = todo[path[i]]
        BY <4>1, <3>1, <1>5, <1>6 DEF TodoInv
      <4> QED
        BY <4>2, <3>3, <1>1, <1>3 DEF TodoInv
    <3> QED
      BY <3>2, <3>3
  <2> QED
    BY <2>1, <2>2, <1>1, <1>3, <1>7 DEF TodoInv
<1>10. FinishedInv'
  BY <1>7 DEF FinishedInv
<1> QED
  BY <1>2, <1>8, <1>9, <1>10 DEF Search!CycleIsReal

LEMMA BacktrackSInv ==
    ASSUME SInv, Search!Backtrack
    PROVE  SInv'
<1> USE DEF SInv
<1> DEFINE l == Len(path)
           top == Search!Top
<1>1. path \in Seq(Node) /\ l \in Nat \ {0} /\ DOMAIN path = 1 .. l
  BY LenProperties, EmptySeq DEF PathInv, Search!Backtrack
<1>2. /\ top = path[l] /\ top \in Node /\ todo[top] = {} /\ recStack' = recStack \ {top}
      /\ UNCHANGED <<edges, visited, todo, verdict, cycle>> /\ verdict = "searching"
  BY <1>1, ElementOfSeq DEF Search!Backtrack, Search!Top, Search!result
<1>3. path' = SubSeq(path, 1, l - 1)
  BY DEF Search!Backtrack
<1>4. /\ path' \in Seq(Node) /\ Len(path') = l - 1 /\ DOMAIN path' = 1 .. l - 1
      /\ \A i \in 1 .. l - 1 : path'[i] = path[i]
  <2>1. \A i \in 1 .. l - 1 : path[i] \in Node
    BY <1>1, ElementOfSeq
  <2>2. /\ path' \in Seq(Node) /\ Len(path') = l - 1
        /\ \A i \in 1 .. l - 1 : path'[i] = path[i]
    <3>1. /\ SubSeq(path, 1, l - 1) \in Seq(Node)
          /\ Len(SubSeq(path, 1, l - 1)) = IF 1 <= l - 1 THEN l - 1 - 1 + 1 ELSE 0
          /\ \A i \in 1 .. l - 1 - 1 + 1 : SubSeq(path, 1, l - 1)[i] = path[1 + i - 1]
      BY <1>1, <2>1, SubSeqProperties
    <3> QED
      BY <3>1, <1>1, <1>3
  <2> QED
    BY <2>2, <1>1, LenProperties
<1>5. PathInv'
  <2>1. \A m : m \in recStack' <=> OnPath(m)'
    BY <1>1, <1>2, <1>4 DEF PathInv, OnPath
  <2> QED
    BY <2>1, <1>1, <1>2, <1>4 DEF PathInv
<1>6. finished' = finished \cup {top} /\ top \in recStack /\ top \notin finished
  BY <1>1, <1>2 DEF finished, PathInv, OnPath
<1>7. TodoInv'
  BY <1>1, <1>2, <1>4, <1>6 DEF TodoInv
<1>8. FinishedInv'
  <2>1. ASSUME NEW e \in edges, e.source = top
        PROVE  e.target \in finished /\ ~ClosesCycle(Node, edges, e)
    <3>1. e.target \in Successors(edges, top)
      BY <2>1 DEF Successors
    <3>2. e.target \in finished
      BY <3>1, <1>1, <1>2 DEF TodoInv
    <3>3. finished \in SUBSET Node /\ Closed(edges, finished)
      BY DEF finished, FinishedInv, Closed
    <3> QED
      BY <3>2, <3>3, <2>1, <1>6 DEF ClosesCycle, ReachableFrom
  <2> QED
    BY <2>1, <1>2, <1>6 DEF FinishedInv
<1> QED
  BY <1>2, <1>5, <1>7, <1>8 DEF Search!CycleIsReal

LEMMA CloseCycleReal ==
    ASSUME SInv, NEW n \in Node, Search!CloseCycle(n)
    PROVE  Search!CycleIsReal'
<1> USE DEF SInv
<1> DEFINE l == Len(path)
           i0 == CHOOSE i \in DOMAIN path : path[i] = n
           part == SubSeq(path, i0, l)
<1>1. path \in Seq(Node) /\ l \in Nat \ {0} /\ DOMAIN path = 1 .. l
  BY LenProperties, EmptySeq DEF PathInv, Search!CloseCycle
<1>2. i0 \in 1 .. l /\ path[i0] = n
  BY <1>1 DEF PathInv, OnPath, Search!CloseCycle
<1>3. Edge(path[l], n) \in edges
  <2>1. path[l] \in Node /\ n \in todo[path[l]]
    BY <1>1, ElementOfSeq DEF Search!CloseCycle, Search!Top
  <2> QED
    BY <2>1, SuccessorsAreEnds DEF TodoInv
<1> HIDE DEF i0
<1>4. /\ part \in Seq(Node) /\ Len(part) = l - i0 + 1
      /\ \A i \in 1 .. l - i0 + 1 : part[i] = path[i0 + i - 1]
  <2>1. \A i \in i0 .. l : path[i] \in Node
    BY <1>1, <1>2, ElementOfSeq
  <2> QED
    BY <2>1, <1>1, <1>2, SubSeqProperties
<1>5. cycle' = Append(part, n) /\ edges' = edges
  BY DEF Search!CloseCycle, i0
<1> HIDE DEF part
<1> DEFINE k == l - i0 + 1
<1>6. /\ Len(cycle') = k + 1 /\ k \in Nat /\ k >= 1 /\ cycle'[k + 1] = n
      /\ \A i \in 1 .. k : cycle'[i] = path[i0 + i - 1]
  <2>1. Len(part) = k /\ k \in Nat /\ k >= 1 /\ part \in Seq(Node)
    BY <1>1, <1>2, <1>4
  <2>2. /\ Len(cycle') = k + 1 /\ cycle'[k + 1] = n
        /\ \A i \in 1 .. k : cycle'[i] = part[i]
    BY <2>1, <1>5, AppendProperties
  <2> QED
    BY <2>1, <2>2, <1>4
<1>7. cycle'[1] = n
  BY <1>1, <1>2, <1>6
<1>8. ASSUME NEW i \in 1 .. k PROVE Edge(cycle'[i], cycle'[i + 1]) \in edges
  <2>1. CASE i = k
    BY <2>1, <1>1, <1>2, <1>3, <1>6
  <2>2. CASE i # k
    <3>1. i0 + i - 1 \in 1 .. l /\ i0 + i - 1 + 1 \in 1 .. l /\ i + 1 \in 1 .. k
      BY <2>2, <1>1, <1>2
    <3>2. cycle'[i + 1] = path[i0 + i - 1 + 1]
      BY <3>1, <1>1, <1>2, <1>6
    <3> QED
      BY <3>1, <3>2, <1>1, <1>6 DEF PathInv
  <2> QED
    BY <2>1, <2>2
<1> HIDE DEF k
<1>9. Len(cycle') - 1 = k
  BY <1>6
<1> QED
  BY <1>5, <1>6, <1>7, <1>8, <1>9 DEF Search!CycleIsReal, Edge

LEMMA SearchSInv ==
    ASSUME SInv, Search!Next
    PROVE  SInv'
<1>1. ASSUME NEW n \in Node, Search!StartAt(n) PROVE SInv'
  <2>1. todo' \in [Node -> SUBSET Node] /\ todo'[n] = Successors(edges, n)
    BY <1>1, SuccessorsStay, SameOperators DEF SInv, TodoInv, Search!StartAt
  <2> QED
    BY <1>1, <2>1, EnterSInv DEF Search!StartAt, Search!result
<1>2. ASSUME NEW n \in Node, Search!Descend(n) PROVE SInv'
  <2>1. todo' \in [Node -> SUBSET Node] /\ todo'[n] = Successors(edges, n)
    BY <1>2, SuccessorsStay, SameOperators DEF SInv, TodoInv, Search!Descend
  <2> QED
    BY <1>2, <2>1, EnterSInv DEF Search!Descend, Search!result
<1>3. ASSUME NEW n \in Node, Search!CloseCycle(n) PROVE SInv'
  <2>1. /\ UNCHANGED <<edges, visited, recStack, path, todo>> /\ verdict' = "cyclic"
    BY <1>3 DEF Search!CloseCycle
  <2> QED
    BY <1>3, <2>1, CloseCycleReal
    DEF SInv, PathInv, TodoInv, FinishedInv, OnPath, finished
<1>4. ASSUME NEW n \in Node, Search!PassOver(n) PROVE SInv'
  <2>1. /\ UNCHANGED <<edges, visited, recStack, path, verdict, cycle>>
        /\ verdict = "searching" /\ n \in finished
        /\ todo' = [todo EXCEPT ![Search!Top] = @ \ {n}]
    BY <1>4 DEF Search!PassOver, Search!result, finished
  <2>2. /\ todo' \in [Node -> SUBSET Node]
        /\ \A m \in Node : /\ todo'[m] \subseteq todo[m]
                          /\ todo[m] \subseteq todo'[m] \cup finished
    BY <2>1 DEF SInv, TodoInv
  <2>3. \A i \in DOMAIN path : path[i] \in Node
    BY ElementOfSeq, LenProperties DEF SInv, PathInv
  <2>4. TodoInv'
    BY <2>1, <2>2, <2>3 DEF SInv, TodoInv, finished
  <2> QED
    BY <2>1, <2>4 DEF SInv, PathInv, FinishedInv, OnPath, finished, Search!CycleIsReal
<1>5. ASSUME Search!Conclude PROVE SInv'
  <2>1. /\ UNCHANGED <<edges, visited, recStack, path, todo, cycle>>
        /\ path = << >> /\ visited = Node /\ verdict' = "acyclic"
    BY <1>5 DEF Search!Conclude
  <2>2. recStack = {}
    BY <2>1 DEF SInv, PathInv, OnPath
  <2> QED
    BY <2>1, <2>2
    DEF SInv, PathInv, TodoInv, FinishedInv, OnPath, finished, Search!CycleIsReal
<1> QED
  BY <1>1, <1>2, <1>3, <1>4, <1>5, BacktrackSInv DEF Search!Next

LEMMA OtherSInv ==
    ASSUME SInv, UNCHANGED <<edges, searchVars>>
    PROVE  SInv'
BY DEF SInv, PathInv, TodoInv, FinishedInv, OnPath, finished, searchVars, Search!CycleIsReal

LEMMA SInvVerdict == SInv => Search!VerdictIsRight
BY SameOperators DEF SInv, FinishedInv, finished, Search!VerdictIsRight, Acyclic, EdgesOver

------------------------------------------------------------------------------
(* The probe of a proposed edge *)

from == proposed.source
to == proposed.target

Queued(n) == \E i \in DOMAIN pending : pending[i] = n
Known(n) == n \in seen \/ Queued(n)

\* n is in every closed set of nodes that holds the target of the proposed edge.
Reached(n) == \A C \in SUBSET Node : to \in C /\ Closed(edges, C) => n \in C

\* What path says of n: an edge from a visited node led here.
Traced(n) == IF n = to THEN cameFrom[n] = None
                       ELSE cameFrom[n] \in seen /\ Edge(cameFrom[n], n) \in edges

ProbeTyped ==
    /\ edges \subseteq EdgesOver(Node) /\ proposed \in EdgesOver(Node)
    /\ probing \in {"search", "rebuild", "done"}
    /\ seen \subseteq Node /\ pending \in Seq(Node)
    /\ cameFrom \in [Node -> Node \cup {None}]
    /\ rebuilt \in Seq(Node)
    /\ probing = "search" => rebuilt = << >>
    /\ closed # << >> => probing = "done"

\* Every neighbour of a visited node is known, and everything known was reached.
FrontInv ==
    /\ from \notin seen
    /\ \A n \in Node : Known(n) => Traced(n) /\ Reached(n)
    /\ probing = "search" => to \in seen \/ (seen = {} /\ pending = <<to>>)
    /\ probing # "rebuild" /\ closed = << >> =>
          /\ Known(to)
          /\ \A e \in edges : e.source \in seen => Known(e.target)
    /\ probing = "done" /\ closed = << >> => pending = << >>

\* Nodes were visited in an order: path leads from each to an earlier one, however
\* often its entries were overwritten before.
Ordered(r, b) ==
    /\ \A n \in seen : r[n] < b /\ (n # to => r[cameFrom[n]] < r[n])
    /\ \A i, j \in DOMAIN rebuilt : i < j => r[rebuilt[i]] < r[rebuilt[j]]
    /\ probing = "rebuild" /\ from # to => r[cameFrom[from]] < r[from]

OrderInv == \E r \in [Node -> Nat], b \in Nat : Ordered(r, b)

\* What the rebuilding loop has collected.
RebuildInv ==
    probing = "rebuild" =>
        /\ Traced(from) /\ Reached(from)
        /\ node \in seen \cup {from, None}
        /\ rebuilt = << >> => node = from
        /\ rebuilt # << >> => rebuilt[Len(rebuilt)] = from /\ node = cameFrom[rebuilt[1]]
        /\ \A i \in DOMAIN rebuilt :
              /\ rebuilt[i] \in seen \cup {from}
              /\ i + 1 \in DOMAIN rebuilt => Edge(rebuilt[i], rebuilt[i + 1]) \in edges

PInv ==
    /\ ProbeTyped /\ FrontInv /\ OrderInv /\ RebuildInv
    /\ closed # << >> => Reached(from)
    /\ Probe!CycleIsReal

------------------------------------------------------------------------------
LEMMA InitPInv == Init => PInv
<1> SUFFICES ASSUME Init PROVE PInv
  OBVIOUS
<1>1. /\ edges \subseteq EdgesOver(Node) /\ proposed \in EdgesOver(Node)
      /\ probing = "search" /\ seen = {} /\ pending = <<to>> /\ rebuilt = << >> /\ closed = << >>
      /\ cameFrom = [n \in Node |-> None] /\ from \in Node /\ to \in Node
  BY GraphsAssumption, ProbesAssumption DEF Init, Search!Init, Probe!Init, to, from, EdgesOver
<1>2. ProbeTyped
  BY <1>1 DEF ProbeTyped
<1>3. Len(pending) = 1 /\ DOMAIN pending = {1} /\ pending[1] = to
  BY <1>1
<1>4. FrontInv
  BY <1>1, <1>3 DEF FrontInv, Known, Queued, Traced, Reached
<1>5. OrderInv
  <2>1. Ordered([n \in Node |-> 0], 0)
    BY <1>1 DEF Ordered
  <2> QED
    BY <2>1 DEF OrderInv
<1> QED
  BY <1>1, <1>2, <1>4, <1>5 DEF PInv, RebuildInv, Probe!CycleIsReal

\* An order of a set of nodes lists all of it and nothing else.
LEMMA OrderLists ==
    ASSUME NEW S \in SUBSET Node, NEW order \in Probe!SetToSeqs(S)
    PROVE  /\ order \in Seq(Node)
           /\ \A n : n \in S <=> \E i \in DOMAIN order : order[i] = n
<1> DEFINE c == Cardinality(S)
<1>1. IsFiniteSet(S) /\ c \in Nat
  BY FiniteNodes, FS_Subset, FS_CardinalityType
<1>2. order \in [1 .. c -> S] /\ \A i, j \in 1 .. c : i # j => order[i] # order[j]
  BY DEF Probe!SetToSeqs, Probe!Cardinality, Cardinality
<1>3. order \in Injection(1 .. c, S)
  BY <1>2 DEF Injection, IsInjective
<1>4. Cardinality(1 .. c) = c
  BY <1>1, FS_Interval
<1>5. order \in Surjection(1 .. c, S)
  BY <1>1, <1>3, <1>4, FS_Injection
<1>6. order \in Seq(Node)
  BY <1>1, <1>2
<1> QED
  BY <1>2, <1>5, <1>6 DEF Surjection

LEMMA ExpandPInv ==
    ASSUME PInv, Probe!Expand
    PROVE  PInv'
<1> DEFINE current == Head(pending)
           fresh == Successors(edges, current) \ (seen \cup {current})
<1>1. /\ probing = "search" /\ pending # << >> /\ current # from
      /\ seen' = seen \cup {current}
      /\ cameFrom' = [n \in Node |-> IF n \in fresh THEN current ELSE cameFrom[n]]
      /\ UNCHANGED <<edges, proposed, probing, node, rebuilt, closed>>
  BY SameOperators DEF Probe!Expand, Probe!arguments, from
<1>2. PICK order \in Probe!SetToSeqs(fresh) : pending' = Tail(pending) \o order
  BY SameOperators DEF Probe!Expand
<1>3. closed = << >> /\ rebuilt = << >>
  BY <1>1 DEF PInv, ProbeTyped
<1>4. current \in Node /\ pending \in Seq(Node) /\ fresh \in SUBSET Node
  BY <1>1, HeadTailProperties, SuccessorsStay DEF PInv, ProbeTyped
<1>5. order \in Seq(Node) /\ \A n : n \in fresh <=> \E i \in DOMAIN order : order[i] = n
  BY <1>4, OrderLists
<1>6. /\ \A n : n \in fresh <=> n \notin seen \cup {current} /\ Edge(current, n) \in edges
      /\ current \notin fresh
  BY SuccessorsAreEnds DEF PInv, ProbeTyped
<1> HIDE DEF fresh
<1>7. /\ Tail(pending) \in Seq(Node) /\ Len(Tail(pending)) = Len(pending) - 1
      /\ \A i \in 1 .. Len(Tail(pending)) : Tail(pending)[i] = pending[i + 1]
      /\ current = pending[1]
  BY <1>1, <1>4, HeadTailProperties
<1> DEFINE l == Len(pending)
           k == Len(order)
<1>8. l \in Nat /\ l > 0 /\ k \in Nat /\ DOMAIN pending = 1 .. l /\ DOMAIN order = 1 .. k
  BY <1>1, <1>4, <1>5, LenProperties, EmptySeq
<1>9. /\ pending' \in Seq(Node) /\ Len(pending') = l - 1 + k
      /\ DOMAIN pending' = 1 .. l - 1 + k
      /\ \A i \in 1 .. l - 1 + k :
            pending'[i] = IF i <= l - 1 THEN Tail(pending)[i] ELSE order[i - (l - 1)]
  BY <1>2, <1>5, <1>7, ConcatProperties, LenProperties
<1> HIDE DEF l, k, current
<1>10. \A n : Known(n)' <=> Known(n) \/ n \in fresh
  <2>1. ASSUME NEW n, Known(n)' PROVE Known(n) \/ n \in fresh
    <3>1. CASE n \in seen'
      BY <3>1, <1>1, <1>7, <1>8 DEF Known, Queued
    <3>2. ASSUME NEW i \in 1 .. l - 1 + k, pending'[i] = n PROVE Known(n) \/ n \in fresh
      <4>1. CASE i <= l - 1
        <5>1. i \in 1 .. l - 1 /\ i + 1 \in 1 .. l
          BY <4>1, <1>8
        <5>2. pending[i + 1] = n
          BY <5>1, <4>1, <3>2, <1>7, <1>9 DEF l
        <5> QED
          BY <5>1, <5>2, <1>8 DEF Known, Queued
      <4>2. CASE ~(i <= l - 1)
        <5>1. i - (l - 1) \in 1 .. k
          BY <4>2, <1>8
        <5> QED
          BY <5>1, <4>2, <3>2, <1>5, <1>8, <1>9
      <4> QED
        BY <4>1, <4>2
    <3> QED
      BY <2>1, <3>1, <3>2, <1>9 DEF Known, Queued
  <2>2. ASSUME NEW n, n \in seen PROVE Known(n)'
    BY <2>2, <1>1 DEF Known
  <2>3. ASSUME NEW n, n \in fresh PROVE Known(n)'
    <3>1. PICK i \in 1 .. k : order[i] = n
      BY <2>3, <1>5, <1>8
    <3>2. PICK j \in 1 .. l - 1 + k : ~(j <= l - 1) /\ j - (l - 1) = i
      <4>1. PICK j \in Int : j = i + (l - 1)
        BY <1>8
      <4>2. j \in 1 .. l - 1 + k /\ ~(j <= l - 1) /\ j - (l - 1) = i
        BY <4>1, <1>8
      <4> QED
        BY <4>2
    <3>3. pending'[j] = n
      BY <3>1, <3>2, <1>9
    <3> QED
      BY <3>2, <3>3, <1>9 DEF Known, Queued
  <2>4. ASSUME NEW n, NEW i \in 1 .. l, pending[i] = n PROVE Known(n)'
    <3>1. CASE i = 1
      BY <3>1, <2>4, <1>1, <1>7 DEF Known
    <3>2. CASE i # 1
      <4>1. /\ i - 1 \in 1 .. l - 1 + k /\ i - 1 <= l - 1 /\ i - 1 \in 1 .. l - 1
            /\ i - 1 + 1 = i
        BY <3>2, <1>8
      <4>2. pending'[i - 1] = n
        BY <4>1, <2>4, <1>7, <1>9 DEF l
      <4> QED
        BY <4>1, <4>2, <1>9 DEF Known, Queued
    <3> QED
      BY <3>1, <3>2
  <2> QED
    BY <2>1, <2>2, <2>3, <2>4, <1>8 DEF Known, Queued
<1>11. Known(current) /\ Traced(current) /\ Reached(current)
  <2>1. Known(current)
    BY <1>7, <1>8 DEF Known, Queued
  <2> QED
    BY <2>1, <1>4 DEF PInv, FrontInv
<1>12. to \in seen' /\ to \notin fresh
  BY <1>1, <1>6, <1>7 DEF PInv, FrontInv
<1>13. to' = to /\ from' = from
  BY <1>1 DEF to, from
<1>14. ProbeTyped'
  BY <1>1, <1>4, <1>9 DEF PInv, ProbeTyped
<1>15. FrontInv'
  <2>1. ASSUME NEW n \in Node, Known(n) \/ n \in fresh PROVE Traced(n)' /\ Reached(n)'
    <3>1. CASE n \in fresh
      <4>1. cameFrom'[n] = current /\ n # to /\ Edge(current, n) \in edges
        BY <3>1, <2>1, <1>1, <1>6, <1>12
      <4>2. \A C \in SUBSET Node : Closed(edges, C) /\ current \in C => n \in C
        BY <4>1 DEF Closed, Edge
      <4> QED
        BY <4>1, <4>2, <1>1, <1>11, <1>13 DEF Traced, Reached
    <3>2. CASE n \notin fresh
      <4>1. Traced(n) /\ Reached(n) /\ cameFrom'[n] = cameFrom[n]
        BY <3>2, <2>1, <1>1 DEF PInv, FrontInv
      <4> QED
        BY <4>1, <1>1, <1>13 DEF Traced, Reached
    <3> QED
      BY <3>1, <3>2
  <2>2. ASSUME NEW e \in edges, e.source \in seen' PROVE Known(e.target) \/ e.target \in fresh
    <3>1. CASE e.source = current
      <4>1. Edge(current, e.target) \in edges
        BY <3>1 DEF Edge, PInv, ProbeTyped, EdgesOver
      <4> QED
        BY <4>1, <1>6, <1>11 DEF Known
    <3>2. CASE e.source \in seen
      BY <3>2, <1>1, <1>3 DEF PInv, FrontInv
    <3> QED
      BY <3>1, <3>2, <2>2, <1>1
  <2>3. Known(to)'
    BY <1>12, <1>13 DEF Known
  <2> QED
    BY <2>1, <2>2, <2>3, <1>1, <1>10, <1>12, <1>13 DEF FrontInv, PInv
<1>16. OrderInv'
  <2>1. PICK r \in [Node -> Nat], b \in Nat : Ordered(r, b)
    BY DEF PInv, OrderInv
  <2>2. CASE current \in seen
    <3>1. Ordered(r, b)'
      BY <2>1, <2>2, <1>1, <1>3, <1>6, <1>13 DEF Ordered, PInv, ProbeTyped
    <3> QED
      BY <3>1 DEF OrderInv
  <2>3. CASE current \notin seen
    <3>1. PICK q \in [Node -> Nat] : q = [r EXCEPT ![current] = b]
      BY <1>4
    <3>2. q[current] = b /\ \A n \in Node : n # current => q[n] = r[n]
      BY <1>4, <3>1
    <3>3. ASSUME NEW n \in seen' PROVE q[n] < b + 1 /\ (n # to => q[cameFrom'[n]] < q[n])
      <4>1. cameFrom'[n] = cameFrom[n] /\ n \in Node
        BY <1>1, <1>4, <1>6 DEF PInv, ProbeTyped
      <4>2. n # to => cameFrom[n] \in seen
        BY <4>1, <1>1, <1>11 DEF PInv, FrontInv, Known, Traced
      <4>3. \A m \in seen : m \in Node /\ m # current /\ q[m] = r[m] /\ r[m] < b /\ r[m] \in Nat
        BY <2>1, <2>3, <3>2 DEF Ordered, PInv, ProbeTyped
      <4>4. n \in seen /\ n # to => r[cameFrom[n]] < r[n]
        BY <2>1 DEF Ordered
      <4> QED
        BY <4>1, <4>2, <4>3, <4>4, <3>2, <1>1
    <3>4. Ordered(q, b + 1)'
      <4>1. probing' = "search" /\ rebuilt' = << >>
        BY <1>1, <1>3
      <4> QED
        BY <4>1, <3>3, <1>13 DEF Ordered
    <3> QED
      BY <3>4 DEF OrderInv
  <2> QED
    BY <2>2, <2>3
<1> QED
  BY <1>1, <1>3, <1>14, <1>15, <1>16 DEF PInv, RebuildInv, Probe!CycleIsReal

\* An element put in front of a sequence.
LEMMA Prepended ==
    ASSUME NEW s \in Seq(Node), NEW n \in Node
    PROVE  LET t == <<n>> \o s
           IN  /\ t \in Seq(Node) /\ Len(t) = Len(s) + 1 /\ t # << >> /\ t[1] = n
               /\ \A i \in 1 .. Len(s) : t[i + 1] = s[i]
<1> DEFINE one == <<n>>
           t == one \o s
           l == Len(s)
<1>1. one \in Seq(Node) /\ Len(one) = 1 /\ one[1] = n
  OBVIOUS
<1>2. l \in Nat
  BY LenProperties
<1> HIDE DEF one
<1>3. /\ t \in Seq(Node) /\ Len(t) = 1 + l
      /\ \A i \in 1 .. 1 + l : t[i] = IF i <= 1 THEN one[i] ELSE s[i - 1]
  <2>1. /\ t \in Seq(Node) /\ Len(t) = Len(one) + Len(s)
        /\ \A i \in 1 .. Len(one) + Len(s) :
              t[i] = IF i <= Len(one) THEN one[i] ELSE s[i - Len(one)]
    BY <1>1, ConcatProperties
  <2> QED
    BY <2>1, <1>1
<1> HIDE DEF t, l
<1>4. \A i \in 1 .. l : i + 1 \in 1 .. 1 + l /\ ~(i + 1 <= 1) /\ i + 1 - 1 = i
  BY <1>2
<1>5. \A i \in 1 .. l : t[i + 1] = s[i]
  BY <1>3, <1>4
<1>6. t[1] = n
  BY <1>1, <1>2, <1>3
<1>7. t # << >>
  BY <1>2, <1>3, EmptySeq
<1> QED
  BY <1>2, <1>3, <1>5, <1>6, <1>7 DEF t, l, one

LEMMA ReachPInv ==
    ASSUME PInv, Probe!Reach
    PROVE  PInv'
<1>1. /\ probing = "search" /\ probing' = "rebuild" /\ pending # << >> /\ Head(pending) = from
      /\ node' = from /\ pending' = Tail(pending)
      /\ UNCHANGED <<edges, proposed, seen, cameFrom, rebuilt, closed>>
  BY DEF Probe!Reach, Probe!arguments, from
<1>2. to' = to /\ from' = from /\ rebuilt = << >> /\ closed = << >> /\ from \in Node
  BY <1>1 DEF to, from, PInv, ProbeTyped, EdgesOver
<1>3. /\ pending' \in Seq(Node) /\ pending[1] = from /\ 1 \in DOMAIN pending
      /\ \A n : Queued(n)' => Queued(n)
  <2>1. /\ Tail(pending) \in Seq(Node) /\ Len(Tail(pending)) = Len(pending) - 1
        /\ \A i \in 1 .. Len(Tail(pending)) : Tail(pending)[i] = pending[i + 1]
        /\ Len(pending) \in Nat \ {0} /\ DOMAIN pending = 1 .. Len(pending)
        /\ DOMAIN Tail(pending) = 1 .. Len(Tail(pending))
        /\ Head(pending) = pending[1]
    BY <1>1, HeadTailProperties, LenProperties, EmptySeq DEF PInv, ProbeTyped
  <2>2. \A i \in DOMAIN pending' : i + 1 \in DOMAIN pending /\ pending'[i] = pending[i + 1]
    BY <2>1, <1>1
  <2> QED
    BY <2>1, <2>2, <1>1 DEF Queued
<1>4. Traced(from) /\ Reached(from)
  BY <1>2, <1>3 DEF PInv, FrontInv, Known, Queued
<1>5. ProbeTyped'
  BY <1>1, <1>2, <1>3 DEF PInv, ProbeTyped
<1>6. FrontInv'
  BY <1>1, <1>2, <1>3 DEF PInv, FrontInv, Known, Traced, Reached
<1>7. RebuildInv'
  BY <1>1, <1>2, <1>4 DEF RebuildInv, Traced, Reached
<1>8. OrderInv'
  <2>1. PICK r \in [Node -> Nat], b \in Nat : Ordered(r, b)
    BY DEF PInv, OrderInv
  <2>2. PICK q \in [Node -> Nat] : q = [r EXCEPT ![from] = b]
    BY <1>2
  <2>3. q[from] = b /\ \A n \in seen : q[n] = r[n] /\ n \in Node
    BY <1>2, <2>2 DEF PInv, FrontInv, ProbeTyped
  <2>4. ASSUME NEW n \in seen PROVE q[n] < b /\ (n # to => q[cameFrom[n]] < q[n])
    <3>1. n # to => cameFrom[n] \in seen
      BY <2>3 DEF PInv, FrontInv, Known, Traced
    <3> QED
      BY <3>1, <2>1, <2>3 DEF Ordered
  <2>5. from # to => q[cameFrom[from]] < q[from]
    <3>1. from # to => cameFrom[from] \in seen
      BY <1>4 DEF Traced
    <3> QED
      BY <3>1, <2>3, <2>4
  <2>6. rebuilt' = << >>
    BY <1>1, <1>2
  <2>7. Ordered(q, b)'
    BY <2>4, <2>5, <2>6, <1>1, <1>2 DEF Ordered
  <2> QED
    BY <2>7 DEF OrderInv
<1> QED
  BY <1>1, <1>2, <1>5, <1>6, <1>7, <1>8 DEF PInv, Probe!CycleIsReal

\* What the rebuilding loop puts in front, and where it goes on.
LEMMA RebuildPInv ==
    ASSUME PInv, Probe!Rebuild
    PROVE  PInv'
<1>1. /\ probing = "rebuild" /\ node # None /\ rebuilt' = <<node>> \o rebuilt
      /\ node' = cameFrom[node]
      /\ UNCHANGED <<edges, proposed, probing, seen, pending, cameFrom, closed>>
  BY DEF Probe!Rebuild, Probe!arguments
<1>2. /\ to' = to /\ from' = from /\ closed = << >> /\ from \in Node /\ node \in seen \cup {from}
      /\ node \in Node
  BY <1>1 DEF to, from, PInv, ProbeTyped, EdgesOver, RebuildInv
<1> DEFINE l == Len(rebuilt)
<1>3. /\ rebuilt \in Seq(Node) /\ l \in Nat /\ DOMAIN rebuilt = 1 .. l
      /\ rebuilt = << >> <=> l = 0
  BY LenProperties, EmptySeq DEF PInv, ProbeTyped
<1>4. /\ rebuilt' \in Seq(Node) /\ Len(rebuilt') = l + 1 /\ DOMAIN rebuilt' = 1 .. l + 1
      /\ rebuilt'[1] = node /\ rebuilt' # << >>
      /\ \A i \in 1 .. l : rebuilt'[i + 1] = rebuilt[i]
  BY <1>1, <1>2, <1>3, Prepended, LenProperties
<1> HIDE DEF l
<1>5. \A i \in 1 .. l + 1 : i # 1 => i - 1 \in 1 .. l /\ rebuilt'[i] = rebuilt[i - 1]
  <2> SUFFICES ASSUME NEW i \in 1 .. l + 1, i # 1
               PROVE  i - 1 \in 1 .. l /\ rebuilt'[i] = rebuilt[i - 1]
    OBVIOUS
  <2>1. i - 1 \in 1 .. l /\ (i - 1) + 1 = i
    BY <1>3
  <2> QED
    BY <2>1, <1>4
<1>6. Traced(node)
  BY <1>1, <1>2 DEF PInv, FrontInv, RebuildInv, Known, ProbeTyped
<1>7. l # 0 => node = cameFrom[rebuilt[1]] /\ rebuilt[l] = from
               /\ Traced(rebuilt[1]) /\ rebuilt[1] # to /\ rebuilt[1] \in seen \cup {from}
  <2> SUFFICES ASSUME l # 0
               PROVE  /\ node = cameFrom[rebuilt[1]] /\ rebuilt[l] = from
                      /\ Traced(rebuilt[1]) /\ rebuilt[1] # to /\ rebuilt[1] \in seen \cup {from}
    OBVIOUS
  <2>1. 1 \in 1 .. l
    BY <1>3
  <2>2. node = cameFrom[rebuilt[1]] /\ rebuilt[l] = from /\ rebuilt[1] \in seen \cup {from}
    BY <2>1, <1>1, <1>3 DEF PInv, RebuildInv, l
  <2>3. Traced(rebuilt[1])
    BY <2>2, <1>1 DEF PInv, FrontInv, RebuildInv, Known, ProbeTyped
  <2> QED
    BY <2>2, <2>3, <1>1 DEF Traced
<1>8. RebuildInv'
  <2>1. Traced(from)' /\ Reached(from)'
    BY <1>1, <1>2 DEF PInv, RebuildInv, Traced, Reached
  <2>2. node' \in seen \cup {from, None}
    BY <1>1, <1>6 DEF Traced
  <2>3. rebuilt'[l + 1] = from
    <3>1. CASE l = 0
      BY <3>1, <1>1, <1>3, <1>4 DEF PInv, RebuildInv
    <3>2. CASE l # 0
      BY <3>2, <1>3, <1>4, <1>7
    <3> QED
      BY <3>1, <3>2
  <2>4. ASSUME NEW i \in 1 .. l + 1
        PROVE  /\ rebuilt'[i] \in seen \cup {from}
               /\ i + 1 \in 1 .. l + 1 => Edge(rebuilt'[i], rebuilt'[i + 1]) \in edges
    <3>1. CASE i = 1
      <4>1. i + 1 \in 1 .. l + 1 => l # 0 /\ rebuilt'[i + 1] = rebuilt[1]
        BY <3>1, <1>3, <1>4
      <4>2. l # 0 => Edge(node, rebuilt[1]) \in edges
        BY <1>7 DEF Traced
      <4> QED
        BY <4>1, <4>2, <3>1, <1>2, <1>4
    <3>2. CASE i # 1
      <4>1. i - 1 \in 1 .. l /\ rebuilt'[i] = rebuilt[i - 1] /\ (i - 1) + 1 = i
        BY <3>2, <1>3, <1>5
      <4>2. i + 1 \in 1 .. l + 1 => i \in 1 .. l /\ rebuilt'[i + 1] = rebuilt[i]
        BY <3>2, <1>3, <1>4
      <4>3. /\ rebuilt[i - 1] \in seen \cup {from}
            /\ (i - 1) + 1 \in 1 .. l => Edge(rebuilt[i - 1], rebuilt[(i - 1) + 1]) \in edges
        BY <4>1, <1>1, <1>3 DEF PInv, RebuildInv
      <4> QED
        BY <4>1, <4>2, <4>3
    <3> QED
      BY <3>1, <3>2
  <2> QED
    BY <2>1, <2>2, <2>3, <2>4, <1>1, <1>2, <1>4 DEF RebuildInv
<1>9. OrderInv'
  <2>1. PICK r \in [Node -> Nat], b \in Nat : Ordered(r, b)
    BY DEF PInv, OrderInv
  <2>2. l # 0 => r[node] < r[rebuilt[1]]
    BY <2>1, <1>1, <1>7 DEF Ordered
  <2>3. ASSUME NEW i \in 1 .. l PROVE r[node] < r[rebuilt[i]]
    <3>1. i = 1 \/ r[rebuilt[1]] < r[rebuilt[i]]
      BY <2>1, <1>3 DEF Ordered
    <3>2. r[node] \in Nat /\ r[rebuilt[1]] \in Nat /\ r[rebuilt[i]] \in Nat
      BY <1>2, <1>3, ElementOfSeq
    <3> QED
      BY <3>1, <3>2, <2>2, <1>3
  <2>4. ASSUME NEW i \in 1 .. l + 1, NEW j \in 1 .. l + 1, i < j
        PROVE  r[rebuilt'[i]] < r[rebuilt'[j]]
    <3>1. j - 1 \in 1 .. l /\ rebuilt'[j] = rebuilt[j - 1]
      BY <2>4, <1>3, <1>5
    <3>2. CASE i = 1
      BY <3>1, <3>2, <2>3, <1>4
    <3>3. CASE i # 1
      <4>1. i - 1 \in 1 .. l /\ rebuilt'[i] = rebuilt[i - 1] /\ i - 1 < j - 1
        BY <3>3, <2>4, <1>3, <1>5
      <4> QED
        BY <4>1, <3>1, <2>1, <1>3 DEF Ordered
    <3> QED
      BY <3>2, <3>3
  <2>5. Ordered(r, b)'
    BY <2>1, <2>4, <1>1, <1>2, <1>4 DEF Ordered
  <2> QED
    BY <2>5 DEF OrderInv
<1>10. ProbeTyped' /\ FrontInv'
  BY <1>1, <1>2, <1>4 DEF PInv, ProbeTyped, FrontInv, Known, Queued, Traced, Reached
<1> QED
  BY <1>1, <1>2, <1>8, <1>9, <1>10 DEF PInv, Probe!CycleIsReal

LEMMA AnswerPInv ==
    ASSUME PInv, Probe!Answer
    PROVE  PInv'
<1>1. /\ probing = "rebuild" /\ probing' = "done" /\ node = None
      /\ closed' = <<from>> \o rebuilt
      /\ UNCHANGED <<edges, proposed, seen, pending, cameFrom, node, rebuilt>>
  BY DEF Probe!Answer, Probe!arguments, from
<1>2. /\ to' = to /\ from' = from /\ from \in Node /\ node \notin seen \cup {from}
  BY <1>1, NoneAssumption DEF to, from, PInv, ProbeTyped, EdgesOver
<1> DEFINE l == Len(rebuilt)
<1>3. /\ rebuilt \in Seq(Node) /\ l \in Nat /\ DOMAIN rebuilt = 1 .. l
      /\ rebuilt # << >> /\ l # 0
  BY <1>1, <1>2, LenProperties, EmptySeq DEF PInv, ProbeTyped, RebuildInv
<1>4. rebuilt[1] = to /\ rebuilt[l] = from
  <2>1. 1 \in 1 .. l
    BY <1>3
  <2>2. node = cameFrom[rebuilt[1]] /\ rebuilt[l] = from /\ rebuilt[1] \in seen \cup {from}
    BY <2>1, <1>1, <1>3 DEF PInv, RebuildInv
  <2>3. Traced(rebuilt[1])
    BY <2>2, <1>1 DEF PInv, FrontInv, RebuildInv, Known, ProbeTyped
  <2> QED
    BY <2>2, <2>3, <1>2 DEF Traced
<1>5. /\ Len(closed') = l + 1 /\ closed' # << >> /\ closed'[1] = from
      /\ \A i \in 1 .. l : closed'[i + 1] = rebuilt[i]
  BY <1>1, <1>2, <1>3, Prepended
<1>6. Probe!CycleIsReal'
  <2>1. closed'[2] = to /\ closed'[l + 1] = from
    <3>1. 1 \in 1 .. l /\ l \in 1 .. l /\ 1 + 1 = 2
      BY <1>3
    <3> QED
      BY <3>1, <1>4, <1>5
  <2>2. ASSUME NEW i \in 2 .. l PROVE Edge(closed'[i], closed'[i + 1]) \in edges
    <3>1. i - 1 \in 1 .. l /\ i \in 1 .. l /\ (i - 1) + 1 = i
      BY <1>3
    <3>2. closed'[i] = rebuilt[i - 1] /\ closed'[i + 1] = rebuilt[i]
      BY <3>1, <1>5
    <3>3. Edge(rebuilt[i - 1], rebuilt[(i - 1) + 1]) \in edges
      BY <3>1, <1>1, <1>3 DEF PInv, RebuildInv
    <3> QED
      BY <3>1, <3>2, <3>3
  <2>3. Len(closed') > 1 /\ Len(closed') - 1 = l
    BY <1>3, <1>5
  <2> HIDE DEF l
  <2> QED
    BY <2>1, <2>2, <2>3, <1>1, <1>2, <1>5 DEF Probe!CycleIsReal, Edge, from, to
<1>7. ProbeTyped' /\ FrontInv'
  BY <1>1, <1>2, <1>5 DEF PInv, ProbeTyped, FrontInv, Known, Queued, Traced, Reached
<1>8. OrderInv'
  <2>1. PICK r \in [Node -> Nat], b \in Nat : Ordered(r, b)
    BY DEF PInv, OrderInv
  <2>2. Ordered(r, b)'
    BY <2>1, <1>1, <1>2 DEF Ordered
  <2> QED
    BY <2>2 DEF OrderInv
<1>9. Reached(from)'
  BY <1>1, <1>2 DEF PInv, RebuildInv, Reached
<1> QED
  BY <1>1, <1>6, <1>7, <1>8, <1>9 DEF PInv, RebuildInv

LEMMA NoCyclePInv ==
    ASSUME PInv, Probe!NoCycle
    PROVE  PInv'
<1>1. /\ probing = "search" /\ probing' = "done" /\ pending = << >> /\ closed = << >>
      /\ UNCHANGED <<edges, proposed, seen, pending, cameFrom, node, rebuilt, closed>>
  BY DEF Probe!NoCycle, Probe!arguments, PInv, ProbeTyped
<1>2. to' = to /\ from' = from
  BY <1>1 DEF to, from
<1>3. ProbeTyped' /\ FrontInv'
  BY <1>1, <1>2 DEF PInv, ProbeTyped, FrontInv, Known, Queued, Traced, Reached
<1>4. OrderInv'
  <2>1. PICK r \in [Node -> Nat], b \in Nat : Ordered(r, b)
    BY DEF PInv, OrderInv
  <2>2. Ordered(r, b)'
    BY <2>1, <1>1, <1>2 DEF Ordered
  <2> QED
    BY <2>2 DEF OrderInv
<1> QED
  BY <1>1, <1>3, <1>4 DEF PInv, RebuildInv, Probe!CycleIsReal

LEMMA ProbePInv == PInv /\ Probe!Next => PInv'
BY ReachPInv, ExpandPInv, RebuildPInv, AnswerPInv, NoCyclePInv DEF Probe!Next

LEMMA OtherPInv ==
    ASSUME PInv, UNCHANGED <<edges, probeVars>>
    PROVE  PInv'
<1>1. /\ UNCHANGED <<edges, proposed, probing, seen, pending, cameFrom, node, rebuilt, closed>>
      /\ to' = to /\ from' = from
  BY DEF probeVars, to, from
<1>2. ProbeTyped' /\ FrontInv' /\ RebuildInv'
  BY <1>1 DEF PInv, ProbeTyped, FrontInv, RebuildInv, Known, Queued, Traced, Reached
<1>3. OrderInv'
  <2>1. PICK r \in [Node -> Nat], b \in Nat : Ordered(r, b)
    BY DEF PInv, OrderInv
  <2>2. Ordered(r, b)'
    BY <2>1, <1>1 DEF Ordered
  <2> QED
    BY <2>2 DEF OrderInv
<1> QED
  BY <1>1, <1>2, <1>3 DEF PInv, Reached, Probe!CycleIsReal

LEMMA PInvVerdict == PInv => Probe!VerdictIsRight
<1> SUFFICES ASSUME PInv, probing = "done"
             PROVE  closed # << >> <=> ClosesCycle(Node, edges, proposed)
  BY SameOperators DEF Probe!VerdictIsRight
<1>1. from \in Node /\ to \in Node
  BY DEF PInv, ProbeTyped, from, to, EdgesOver
<1>2. ClosesCycle(Node, edges, proposed) <=> Reached(from)
  BY <1>1 DEF ClosesCycle, ReachableFrom, Reached, from, to
<1>3. ASSUME closed = << >> PROVE ~Reached(from)
  <2>1. \A n : Known(n) => n \in seen
    BY <1>3 DEF PInv, FrontInv, Known, Queued
  <2>2. to \in seen /\ Closed(edges, seen) /\ seen \in SUBSET Node /\ from \notin seen
    BY <2>1, <1>3 DEF PInv, FrontInv, Closed, ProbeTyped
  <2> QED
    BY <2>2 DEF Reached
<1> QED
  BY <1>2, <1>3 DEF PInv

LEMMA PInvRebuildEnds == PInv => Probe!RebuildEnds
<1> SUFFICES ASSUME PInv, NEW i \in DOMAIN rebuilt, NEW j \in DOMAIN rebuilt,
                    rebuilt[i] = rebuilt[j]
             PROVE  i = j
  BY DEF Probe!RebuildEnds
<1>1. PICK r \in [Node -> Nat], b \in Nat : Ordered(r, b)
  BY DEF PInv, OrderInv
<1>2. i \in Nat /\ j \in Nat /\ rebuilt[i] \in Node
  BY LenProperties, ElementOfSeq DEF PInv, ProbeTyped
<1>3. r[rebuilt[i]] \in Nat
  BY <1>2
<1>4. ~(i < j) /\ ~(j < i)
  BY <1>1, <1>3 DEF Ordered
<1> QED
  BY <1>2, <1>4

------------------------------------------------------------------------------
(* Least elements *)

LEMMA LeastNumber ==
    ASSUME NEW T \in SUBSET Nat, T # {}
    PROVE  \E m \in T : \A k \in T : m <= k
<1> DEFINE R == OpToRel(<, Nat)
<1>1. \E m \in T : \A k \in T : ~(<<k, m>> \in R)
  BY NatLessThanWellFounded, WFMin
<1>2. \A k, m \in Nat : <<k, m>> \in R <=> k < m
  BY DEF OpToRel
<1> HIDE DEF R
<1>3. PICK m \in T : \A k \in T : ~(<<k, m>> \in R)
  BY <1>1
<1>4. \A k \in T : ~(k < m)
  BY <1>2, <1>3
<1> QED
  BY <1>4

LEMMA SmallestSet ==
    ASSUME NEW F \in SUBSET SUBSET Node, F # {}
    PROVE  \E X \in F : \A Y \in F : Y \subseteq X => Y = X
<1>1. IsWellFoundedOn(StrictSubsetOrdering(Node), SUBSET Node)
  BY FiniteNodes, FS_StrictSubsetOrderingWellFounded, FS_FiniteSubsetsOfFinite
<1>2. PICK X \in F : \A Y \in F : ~(<<Y, X>> \in StrictSubsetOrdering(Node))
  BY <1>1, WFMin
<1>3. \A Y \in F : Y \subseteq X /\ Y # X => <<Y, X>> \in StrictSubsetOrdering(Node)
  BY DEF StrictSubsetOrdering
<1>4. \A Y \in F : Y \subseteq X => Y = X
  BY <1>2, <1>3
<1> QED
  BY <1>4

\* In an acyclic graph some node of every set has no predecessor in it: one with the
\* fewest nodes before it.
LEMMA FirstOfSet ==
    ASSUME NEW E, E \subseteq EdgesOver(Node), Acyclic(Node, E),
           NEW U \in SUBSET Node, U # {}
    PROVE  \E u \in U : \A e \in E : e.target = u => e.source \notin U
<1> DEFINE Before(u) == {a \in U : u \in ReachableFrom(Node, E, {a})}
<1>1. PICK u \in U : \A v \in U : Before(v) \subseteq Before(u) => Before(v) = Before(u)
  <2> DEFINE F == {Before(u) : u \in U}
  <2>1. \A u \in U : Before(u) \in SUBSET Node /\ Before(u) \in F
    OBVIOUS
  <2> HIDE DEF Before
  <2>2. F \in SUBSET SUBSET Node /\ F # {}
    BY <2>1
  <2>3. PICK X \in F : \A Y \in F : Y \subseteq X => Y = X
    BY <2>2, SmallestSet
  <2>4. PICK u \in U : X = Before(u)
    OBVIOUS
  <2> QED
    BY <2>1, <2>3, <2>4
<1>2. ASSUME NEW e \in E, e.target = u, e.source \in U PROVE FALSE
  <2>1. Before(e.source) \subseteq Before(u)
    <3> SUFFICES ASSUME NEW a \in U, e.source \in ReachableFrom(Node, E, {a})
                 PROVE  u \in ReachableFrom(Node, E, {a})
      OBVIOUS
    <3>1. ASSUME NEW C \in SUBSET Node, {a} \subseteq C, Closed(E, C) PROVE u \in C
      BY <3>1, <1>2 DEF ReachableFrom, Closed
    <3> QED
      BY <3>1 DEF ReachableFrom
  <2>2. u \in Before(u)
    BY DEF ReachableFrom
  <2>3. u \notin Before(e.source)
    BY <1>2 DEF Acyclic, ClosesCycle
  <2> QED
    BY <2>1, <2>2, <2>3, <1>1, <1>2
<1> QED
  BY <1>2

\* There is at most one levelling: two could not differ at a lowest node.
LEMMA LevellingUnique ==
    ASSUME NEW E, E \subseteq EdgesOver(Node),
           NEW f \in [Node -> Nat], IsLevelling(Node, E, f),
           NEW g \in [Node -> Nat], IsLevelling(Node, E, g)
    PROVE  f = g
<1> DEFINE Differ == {n \in Node : f[n] # g[n]}
<1>1. SUFFICES ASSUME Differ # {} PROVE FALSE
  OBVIOUS
<1>2. PICK n \in Differ : \A m \in Differ : f[n] <= f[m]
  <2> DEFINE T == {f[m] : m \in Differ}
  <2>1. T \in SUBSET Nat /\ T # {}
    BY <1>1
  <2>2. PICK k \in T : \A j \in T : k <= j
    BY <2>1, LeastNumber
  <2> QED
    BY <2>2
<1>3. \A e \in E : e.source \in Node /\ e.target \in Node
  BY DEF EdgesOver
<1>4. ASSUME NEW e \in E, e.target = n PROVE f[e.source] = g[e.source] /\ f[e.source] < f[n]
  <2>1. f[e.source] < f[n]
    BY <1>4 DEF IsLevelling
  <2>2. f[e.source] \in Nat /\ f[n] \in Nat
    BY <1>3
  <2>3. e.source \notin Differ
    BY <2>1, <2>2, <1>2
  <2> QED
    BY <2>1, <2>3, <1>3
<1>5. f[n] \in Nat /\ g[n] \in Nat /\ f[n] # g[n] /\ n \in Node
  OBVIOUS
<1>6. f[n] <= g[n]
  <2>1. CASE f[n] > 0
    <3>1. PICK e \in E : e.target = n /\ f[n] = f[e.source] + 1
      BY <2>1, <1>5 DEF IsLevelling
    <3>2. g[e.source] < g[n] /\ f[e.source] = g[e.source]
      BY <3>1, <1>4 DEF IsLevelling
    <3>3. g[e.source] \in Nat
      BY <1>3
    <3> QED
      BY <3>1, <3>2, <3>3, <1>5
  <2>2. CASE ~(f[n] > 0)
    BY <2>2, <1>5
  <2> QED
    BY <2>1, <2>2
<1>7. g[n] <= f[n]
  <2>1. CASE g[n] > 0
    <3>1. PICK e \in E : e.target = n /\ g[n] = g[e.source] + 1
      BY <2>1, <1>5 DEF IsLevelling
    <3>2. f[e.source] = g[e.source] /\ f[e.source] < f[n]
      BY <3>1, <1>4
    <3>3. g[e.source] \in Nat
      BY <1>3
    <3> QED
      BY <3>1, <3>2, <3>3, <1>5
  <2>2. CASE ~(g[n] > 0)
    BY <2>2, <1>5
  <2> QED
    BY <2>1, <2>2
<1> QED
  BY <1>5, <1>6, <1>7

------------------------------------------------------------------------------
(* The levels *)

Sorted == DOMAIN levelOf

\* The edges that keep n from being sorted.
Waiting(n) == {e \in edges : e.target = n /\ e.source \notin Sorted}

Levels(n) ==
    /\ \A e \in edges : e.target = n => e.source \in Sorted /\ levelOf[e.source] < levelOf[n]
    /\ levelOf[n] > 0 =>
          \E e \in edges : e.target = n /\ levelOf[n] = levelOf[e.source] + 1

LevelTyped ==
    /\ edges \subseteq EdgesOver(Node)
    /\ sorting \in {"check", "sort", "done"}
    /\ queue \subseteq Node /\ nextQueue \subseteq Node /\ depth \in Nat
    /\ Sorted \subseteq Node /\ levelOf \in [Sorted -> Nat]
    /\ sorting = "check" => Sorted = {} /\ queue = {} /\ nextQueue = {} /\ depth = 0
    /\ sorting = "sort" => Acyclic(Node, edges)

\* The nodes that wait for no edge are those sorted and those queued.
DegreeInv ==
    /\ inDegree = [n \in Node |-> Cardinality(Waiting(n))]
    /\ \A n \in Node : Waiting(n) = {} <=> n \in Sorted \cup queue \cup nextQueue
    /\ Sorted \cap (queue \cup nextQueue) = {} /\ queue \cap nextQueue = {}

\* The current level comes just after the one before it, the next one just after it.
LevelInv ==
    /\ \A n \in Sorted : Levels(n) /\ levelOf[n] <= depth /\ levelOf[n] < Cardinality(Node)
    /\ \A n \in queue :
          /\ \A e \in edges : e.target = n => levelOf[e.source] < depth
          /\ depth > 0 => \E e \in edges : e.target = n /\ depth = levelOf[e.source] + 1
    /\ \A n \in nextQueue : \E e \in edges : e.target = n /\ levelOf[e.source] = depth

\* No level is empty.
DepthInv ==
    /\ depth <= Cardinality(Sorted)
    /\ queue = {} /\ nextQueue # {} => depth + 1 <= Cardinality(Sorted)

LInv ==
    /\ LevelTyped
    /\ sorting # "check" /\ Acyclic(Node, edges) =>
          /\ DegreeInv /\ LevelInv /\ DepthInv
          /\ sorting = "done" => queue = {} /\ nextQueue = {}

------------------------------------------------------------------------------
LEMMA SameCardinality == \A S : Sort!Cardinality(S) = Cardinality(S)
BY DEF Sort!Cardinality, Cardinality

LEMMA WaitingFinite ==
    ASSUME LevelTyped, NEW n
    PROVE  IsFiniteSet(Waiting(n)) /\ Cardinality(Waiting(n)) \in Nat
<1> DEFINE f == [e \in Waiting(n) |-> e.source]
<1>1. \A e \in Waiting(n) : e = Edge(e.source, n) /\ e.source \in Node
  BY DEF Waiting, LevelTyped, EdgesOver, Edge
<1>2. f \in [Waiting(n) -> Node]
  BY <1>1
<1>3. ASSUME NEW d \in Waiting(n), NEW e \in Waiting(n), f[d] = f[e] PROVE d = e
  <2>1. d.source = e.source
    BY <1>3
  <2> QED
    BY <2>1, <1>1
<1>4. f \in Injection(Waiting(n), Node)
  BY <1>2, <1>3 DEF Injection, IsInjective
<1> QED
  BY <1>4, FiniteNodes, FS_Injection, FS_CardinalityType

LEMMA InitLInv == Init => LInv
<1> SUFFICES ASSUME Init PROVE LInv
  OBVIOUS
<1>1. /\ edges \subseteq EdgesOver(Node) /\ sorting = "check" /\ queue = {} /\ nextQueue = {}
      /\ depth = 0 /\ levelOf = [n \in {} |-> 0]
  BY GraphsAssumption DEF Init, Search!Init, Sort!Init
<1> QED
  BY <1>1 DEF LInv, LevelTyped, Sorted

LEMMA CountDegreesLInv ==
    ASSUME LInv, Sort!CountDegrees
    PROVE  LInv'
<1>1. /\ sorting = "check" /\ sorting' = "sort" /\ Acyclic(Node, edges)
      /\ UNCHANGED <<edges, nextQueue, depth, levelOf>>
      /\ inDegree' = [n \in Node |-> Cardinality({e \in edges : e.target = n})]
      /\ queue' = {n \in Node : Cardinality({e \in edges : e.target = n}) = 0}
  BY SameOperators, SameCardinality DEF Sort!CountDegrees, Sort!InDegree
<1>2. Sorted = {} /\ Sorted' = {} /\ nextQueue = {} /\ depth = 0
  BY <1>1 DEF LInv, LevelTyped, Sorted
<1>3. ASSUME NEW n \in Node
      PROVE  Waiting(n)' = {e \in edges : e.target = n} /\ Waiting(n)' = Waiting(n)
  BY <1>1, <1>2 DEF Waiting
<1>4. \A n \in Node : /\ Cardinality(Waiting(n)) \in Nat
                      /\ Cardinality(Waiting(n)) = 0 <=> Waiting(n) = {}
  BY WaitingFinite, FS_EmptySet DEF LInv
<1>5. queue' = {n \in Node : Waiting(n)' = {}}
  BY <1>1, <1>3, <1>4
<1>6. LevelTyped'
  BY <1>1, <1>2, <1>5 DEF LInv, LevelTyped, Sorted
<1>7. DegreeInv'
  <2>1. inDegree' = [n \in Node |-> Cardinality(Waiting(n)')]
    BY <1>1, <1>3
  <2> QED
    BY <2>1, <1>1, <1>2, <1>5 DEF DegreeInv
<1>8. LevelInv'
  BY <1>1, <1>2, <1>5 DEF LevelInv, Waiting
<1>9. DepthInv'
  BY <1>1, <1>2, FS_EmptySet DEF DepthInv
<1> QED
  BY <1>1, <1>6, <1>7, <1>8, <1>9 DEF LInv

LEMMA SortNodeLInv ==
    ASSUME LInv, NEW n \in Node, Sort!SortNode(n)
    PROVE  LInv'
<1> DEFINE next == Successors(edges, n)
           free == {m \in next : inDegree[m] = 1}
<1>1. /\ sorting = "sort" /\ Acyclic(Node, edges) /\ n \in queue
      /\ UNCHANGED <<edges, sorting, depth>>
      /\ queue' = queue \ {n} /\ nextQueue' = nextQueue \cup free
      /\ levelOf' = [m \in Sorted \cup {n} |-> IF m = n THEN depth ELSE levelOf[m]]
      /\ inDegree' = [m \in Node |-> IF m \in next THEN inDegree[m] - 1 ELSE inDegree[m]]
  BY SameOperators DEF LInv, LevelTyped, Sort!SortNode, Sort!Sorted, Sorted
<1>2. LevelTyped /\ DegreeInv /\ LevelInv /\ DepthInv
  BY <1>1 DEF LInv
<1>3. n \notin Sorted /\ Sorted' = Sorted \cup {n} /\ Waiting(n) = {} /\ n \notin nextQueue
  BY <1>1, <1>2 DEF DegreeInv, Sorted
<1>4. \A m : m \in next <=> Edge(n, m) \in edges
  BY <1>2, SuccessorsAreEnds DEF LevelTyped
<1>5. next \in SUBSET Node
  BY <1>2, SuccessorsStay DEF LevelTyped
<1> HIDE DEF next
<1>6. \A m : Waiting(m)' = Waiting(m) \ {Edge(n, m)}
  BY <1>1, <1>2, <1>3 DEF Waiting, LevelTyped, EdgesOver, Edge
<1>7. \A m \in next : Edge(n, m) \in Waiting(m)
  BY <1>3, <1>4 DEF Waiting, Edge
<1>8. \A m : m \notin next => Waiting(m)' = Waiting(m)
  BY <1>4, <1>6 DEF Waiting
<1>9. ASSUME NEW m \in next
      PROVE  /\ Cardinality(Waiting(m)') = Cardinality(Waiting(m)) - 1
             /\ inDegree[m] = 1 <=> Waiting(m)' = {}
  <2>1. IsFiniteSet(Waiting(m)) /\ Cardinality(Waiting(m)) \in Nat
    BY <1>2, WaitingFinite
  <2>2. /\ IsFiniteSet(Waiting(m)')
        /\ Cardinality(Waiting(m)') = Cardinality(Waiting(m)) - 1
    BY <2>1, <1>6, <1>7, <1>9, FS_RemoveElement
  <2>3. Cardinality(Waiting(m)') = 0 <=> Waiting(m)' = {}
    BY <2>2, FS_EmptySet
  <2>4. inDegree[m] = Cardinality(Waiting(m))
    BY <1>2, <1>5 DEF DegreeInv
  <2> QED
    BY <2>1, <2>2, <2>3, <2>4
<1>10. \A m \in free : m \in next /\ Waiting(m)' = {} /\ m \notin Sorted \cup queue \cup nextQueue
  BY <1>2, <1>5, <1>7, <1>9 DEF DegreeInv
<1>11. free \subseteq Node
  BY <1>5
<1>12. \A m \in Node : Waiting(m)' = {} <=> m \in Sorted \cup queue \cup nextQueue \cup free
  BY <1>2, <1>7, <1>8, <1>9 DEF DegreeInv
<1> HIDE DEF free
<1>13. LevelTyped'
  BY <1>1, <1>2, <1>3, <1>11 DEF LevelTyped
<1>14. DegreeInv'
  <2>1. \A m \in Node : inDegree'[m] = Cardinality(Waiting(m)')
    BY <1>1, <1>2, <1>8, <1>9 DEF DegreeInv
  <2>2. inDegree' = [m \in Node |-> Cardinality(Waiting(m)')]
    BY <2>1, <1>1
  <2>3. \A m \in Node : Waiting(m)' = {} <=> m \in Sorted' \cup queue' \cup nextQueue'
    BY <1>1, <1>3, <1>12
  <2>4. Sorted' \cap (queue' \cup nextQueue') = {} /\ queue' \cap nextQueue' = {}
    BY <1>1, <1>2, <1>3, <1>10 DEF DegreeInv
  <2> QED
    BY <2>2, <2>3, <2>4 DEF DegreeInv
<1>15. /\ levelOf'[n] = depth /\ \A m \in Sorted : levelOf'[m] = levelOf[m] /\ levelOf[m] \in Nat
       /\ depth \in Nat
  BY <1>1, <1>2, <1>3 DEF LevelTyped
<1>16. \A m \in Node : Waiting(m) = {} =>
          \A e \in edges : e.target = m =>
              e.source \in Sorted /\ levelOf'[e.source] = levelOf[e.source]
  BY <1>15 DEF Waiting
<1>17. \A m \in Sorted \cup queue \cup nextQueue : m \in Node /\ Waiting(m) = {}
  BY <1>2 DEF LevelTyped, DegreeInv
<1>18. Cardinality(Sorted') = Cardinality(Sorted) + 1 /\ Cardinality(Sorted) \in Nat
       /\ Cardinality(Sorted') <= Cardinality(Node) /\ Cardinality(Node) \in Nat
  <2>1. IsFiniteSet(Sorted) /\ Sorted' \in SUBSET Node
    BY <1>2, <1>3, FiniteNodes, FS_Subset DEF LevelTyped
  <2> QED
    BY <2>1, <1>3, FiniteNodes, FS_Subset, FS_AddElement, FS_CardinalityType
<1>19. LevelInv'
  <2>1. ASSUME NEW m \in Sorted'
        PROVE  Levels(m)' /\ levelOf'[m] <= depth' /\ levelOf'[m] < Cardinality(Node)
    <3>1. CASE m = n
      <4>1. \A e \in edges : e.target = n => e.source \in Sorted /\ levelOf'[e.source] < depth
        BY <1>1, <1>2, <1>16, <1>17 DEF LevelInv
      <4>2. depth > 0 => \E e \in edges : e.target = n /\ depth = levelOf'[e.source] + 1
        BY <1>1, <1>2, <1>16, <1>17 DEF LevelInv
      <4>3. depth <= depth /\ depth < Cardinality(Node)
        BY <1>2, <1>15, <1>18 DEF DepthInv
      <4> QED
        BY <4>1, <4>2, <4>3, <3>1, <1>1, <1>3, <1>15 DEF Levels
    <3>2. CASE m # n
      <4>1. m \in Sorted /\ levelOf'[m] = levelOf[m]
        BY <3>2, <2>1, <1>3, <1>15
      <4>2. Levels(m) /\ levelOf[m] <= depth /\ levelOf[m] < Cardinality(Node)
        BY <4>1, <1>2 DEF LevelInv
      <4>3. \A e \in edges : e.target = m =>
               e.source \in Sorted /\ levelOf'[e.source] = levelOf[e.source]
        BY <4>1, <1>16, <1>17
      <4> QED
        BY <4>1, <4>2, <4>3, <1>1, <1>3 DEF Levels
    <3> QED
      BY <3>1, <3>2
  <2>2. ASSUME NEW m \in queue'
        PROVE  /\ \A e \in edges' : e.target = m => levelOf'[e.source] < depth'
               /\ depth' > 0 =>
                     \E e \in edges' : e.target = m /\ depth' = levelOf'[e.source] + 1
    <3>1. m \in queue
      BY <2>2, <1>1
    <3>2. \A e \in edges : e.target = m => levelOf'[e.source] = levelOf[e.source]
      BY <3>1, <1>16, <1>17
    <3>3. /\ \A e \in edges : e.target = m => levelOf[e.source] < depth
          /\ depth > 0 => \E e \in edges : e.target = m /\ depth = levelOf[e.source] + 1
      BY <3>1, <1>2 DEF LevelInv
    <3> QED
      BY <3>2, <3>3, <1>1
  <2>3. ASSUME NEW m \in nextQueue'
        PROVE  \E e \in edges' : e.target = m /\ levelOf'[e.source] = depth'
    <3>1. CASE m \in nextQueue
      <4>1. PICK e \in edges : e.target = m /\ levelOf[e.source] = depth
        BY <3>1, <1>2 DEF LevelInv
      <4>2. levelOf'[e.source] = levelOf[e.source]
        BY <4>1, <3>1, <1>16, <1>17
      <4> QED
        BY <4>1, <4>2, <1>1
    <3>2. CASE m \in free
      <4>1. Edge(n, m) \in edges
        BY <3>2, <1>4, <1>10
      <4> QED
        BY <4>1, <1>1, <1>15 DEF Edge
    <3> QED
      BY <3>1, <3>2, <2>3, <1>1
  <2> QED
    BY <2>1, <2>2, <2>3 DEF LevelInv
<1>20. DepthInv'
  BY <1>1, <1>2, <1>15, <1>18 DEF DepthInv
<1> QED
  BY <1>1, <1>13, <1>14, <1>19, <1>20 DEF LInv

LEMMA NextLevelLInv ==
    ASSUME LInv, Sort!NextLevel
    PROVE  LInv'
<1>1. /\ sorting = "sort" /\ Acyclic(Node, edges) /\ queue = {} /\ nextQueue # {}
      /\ queue' = nextQueue /\ nextQueue' = {} /\ depth' = depth + 1
      /\ UNCHANGED <<edges, sorting, inDegree, levelOf>>
  BY DEF LInv, LevelTyped, Sort!NextLevel
<1>2. LevelTyped /\ DegreeInv /\ LevelInv /\ DepthInv
  BY <1>1 DEF LInv
<1>3. Sorted' = Sorted /\ \A n : Waiting(n)' = Waiting(n)
  BY <1>1 DEF Sorted, Waiting
<1>4. LevelTyped'
  BY <1>1, <1>2, <1>3 DEF LevelTyped
<1>5. DegreeInv'
  BY <1>1, <1>2, <1>3 DEF DegreeInv
<1>6. LevelInv'
  <2>1. \A n \in Sorted : levelOf[n] <= depth /\ levelOf[n] \in Nat /\ depth \in Nat
    BY <1>2 DEF LevelInv, LevelTyped
  <2>2. ASSUME NEW n \in nextQueue, NEW e \in edges, e.target = n
        PROVE  levelOf[e.source] < depth + 1
    <3>1. e.source \in Sorted
      BY <2>2, <1>2 DEF DegreeInv, Waiting, LevelTyped
    <3> QED
      BY <3>1, <2>1
  <2>3. \A n \in nextQueue : \E e \in edges : e.target = n /\ depth + 1 = levelOf[e.source] + 1
    BY <1>2 DEF LevelInv
  <2>4. \A n \in Sorted : Levels(n)' /\ levelOf[n] <= depth + 1 /\ levelOf[n] < Cardinality(Node)
    BY <2>1, <1>1, <1>2, <1>3 DEF LevelInv, Levels
  <2> QED
    BY <2>2, <2>3, <2>4, <1>1, <1>3 DEF LevelInv
<1>7. DepthInv'
  BY <1>1, <1>2, <1>3 DEF DepthInv
<1> QED
  BY <1>1, <1>4, <1>5, <1>6, <1>7 DEF LInv

LEMMA OtherLInv ==
    ASSUME LInv, UNCHANGED <<edges, inDegree, queue, nextQueue, depth, levelOf>>,
           \/ sorting' = sorting
           \/ sorting = "check" /\ sorting' = "done" /\ ~Acyclic(Node, edges)
           \/ sorting = "sort" /\ sorting' = "done" /\ queue = {} /\ nextQueue = {}
    PROVE  LInv'
<1>1. Sorted' = Sorted /\ \A n : Waiting(n)' = Waiting(n)
  BY DEF Sorted, Waiting
<1>2. LevelTyped'
  BY <1>1 DEF LInv, LevelTyped
<1>3. ASSUME DegreeInv, LevelInv, DepthInv PROVE DegreeInv' /\ LevelInv' /\ DepthInv'
  BY <1>1, <1>3 DEF DegreeInv, LevelInv, DepthInv, Levels
<1> QED
  BY <1>2, <1>3 DEF LInv

LEMMA SortLInv == LInv /\ Sort!Next => LInv'
<1> SUFFICES ASSUME LInv, Sort!Next PROVE LInv'
  OBVIOUS
<1>1. CASE Sort!RefuseCycle
  BY <1>1, OtherLInv, SameOperators DEF Sort!RefuseCycle
<1>2. CASE Sort!Finish
  BY <1>2, OtherLInv DEF Sort!Finish
<1> QED
  BY <1>1, <1>2, CountDegreesLInv, NextLevelLInv, SortNodeLInv DEF Sort!Next

\* Of an acyclic graph every node is sorted.
LEMMA AllSorted ==
    ASSUME LInv, sorting = "done", Acyclic(Node, edges)
    PROVE  /\ levelOf \in [Node -> 0 .. Cardinality(Node) - 1]
           /\ IsLevelling(Node, edges, levelOf)
<1>1. LevelTyped /\ DegreeInv /\ LevelInv /\ queue = {} /\ nextQueue = {}
  BY DEF LInv
<1>2. Sorted = Node
  <2>1. SUFFICES ASSUME Node \ Sorted # {} PROVE FALSE
    BY <1>1 DEF LevelTyped
  <2>2. PICK u \in Node \ Sorted : \A e \in edges : e.target = u => e.source \notin Node \ Sorted
    BY <2>1, <1>1, FirstOfSet DEF LevelTyped
  <2>3. PICK e \in edges : e.target = u /\ e.source \notin Sorted
    BY <2>2, <1>1 DEF DegreeInv, Waiting
  <2> QED
    BY <2>2, <2>3, <1>1 DEF LevelTyped, EdgesOver
<1>3. \A n \in Node : Levels(n) /\ levelOf[n] < Cardinality(Node) /\ levelOf[n] \in Nat
  BY <1>1, <1>2 DEF LevelInv, LevelTyped
<1>4. Cardinality(Node) \in Nat
  BY FiniteNodes, FS_CardinalityType
<1>5. levelOf \in [Node -> 0 .. Cardinality(Node) - 1]
  <2>1. levelOf \in [Node -> Nat]
    BY <1>1, <1>2 DEF LevelTyped
  <2>2. \A n \in Node : levelOf[n] \in 0 .. Cardinality(Node) - 1
    BY <1>3, <1>4
  <2> QED
    BY <2>1, <2>2
<1> QED
  BY <1>1, <1>3, <1>5 DEF IsLevelling, Levels, LevelTyped, EdgesOver

LEMMA LInvForced == LInv => Sort!LevelsAreForced
<1> SUFFICES ASSUME LInv, sorting = "done", Acyclic(Node, edges)
             PROVE  {lv \in [Node -> 0 .. Cardinality(Node) - 1] : IsLevelling(Node, edges, lv)}
                        = {levelOf}
  BY SameOperators, SameCardinality DEF Sort!LevelsAreForced, Sort!IsLevelling, IsLevelling
<1>1. levelOf \in [Node -> 0 .. Cardinality(Node) - 1] /\ IsLevelling(Node, edges, levelOf)
  BY AllSorted
<1>2. levelOf \in [Node -> Nat] /\ edges \subseteq EdgesOver(Node)
  BY <1>1 DEF LInv, LevelTyped
<1>3. ASSUME NEW lv \in [Node -> 0 .. Cardinality(Node) - 1], IsLevelling(Node, edges, lv)
      PROVE  lv = levelOf
  BY <1>1, <1>2, <1>3, LevellingUnique
<1> QED
  BY <1>1, <1>3

------------------------------------------------------------------------------
(* The critical path *)

LevelSet == {levelOf[n] : n \in Node}
Height == Cardinality(LevelSet)

\* What dfs(n) has returned: a path from n along edges, longer than those of its
\* successors, and with no more nodes than there are levels from n on.
PathFrom(n) ==
    /\ memo[n] \in Seq(Node) /\ Len(memo[n]) > 0 /\ memo[n][1] = n
    /\ \A i \in 1 .. Len(memo[n]) - 1 : Edge(memo[n][i], memo[n][i + 1]) \in edges
    /\ \A m \in Successors(edges, n) : m \in Memoised /\ Len(memo[m]) < Len(memo[n])
    /\ levelOf[n] + Len(memo[n]) <= Height

CInv ==
    /\ Memoised \subseteq Node
    /\ \A n \in Memoised : PathFrom(n)
    /\ Memoised # {} \/ critical # << >> =>
          kind = "topology" /\ verdict = "acyclic" /\ sorting = "done"
    /\ CriticalPathIsLongest

IInv == SInv /\ PInv /\ LInv /\ CInv

------------------------------------------------------------------------------
\* Levels follow each other without a gap.
LEMMA LevelsInARow ==
    ASSUME LInv, sorting = "done", Acyclic(Node, edges), Node # {}
    PROVE  Height \in Nat \ {0} /\ LevelSet = 0 .. Height - 1
<1> DEFINE c == Cardinality(Node)
<1>1. levelOf \in [Node -> 0 .. c - 1] /\ IsLevelling(Node, edges, levelOf) /\ c \in Nat
  BY AllSorted, FiniteNodes, FS_CardinalityType
<1>2. LevelSet \in SUBSET Nat /\ LevelSet # {} /\ \A k \in LevelSet : k <= c
  BY <1>1 DEF LevelSet
<1> HIDE DEF c
<1>3. \A e \in edges : e.source \in Node
  BY DEF LInv, LevelTyped, EdgesOver
<1>4. \A k \in LevelSet : k > 0 => k - 1 \in LevelSet
  <2> SUFFICES ASSUME NEW n \in Node, levelOf[n] > 0 PROVE levelOf[n] - 1 \in LevelSet
    BY DEF LevelSet
  <2>1. PICK e \in edges : e.target = n /\ levelOf[n] = levelOf[e.source] + 1
    BY <1>1 DEF IsLevelling
  <2>2. levelOf[e.source] \in LevelSet /\ levelOf[e.source] \in Nat
    BY <1>1, <1>3 DEF LevelSet
  <2> QED
    BY <2>1, <2>2
<1>5. PICK top \in LevelSet : \A k \in LevelSet : k <= top
  <2> DEFINE B == {b \in Nat : \A k \in LevelSet : k <= b}
  <2>1. B \in SUBSET Nat /\ c \in B
    BY <1>1, <1>2
  <2>2. PICK b \in B : \A a \in B : b <= a
    BY <2>1, LeastNumber
  <2>3. b \in LevelSet
    <3>1. SUFFICES ASSUME b \notin LevelSet PROVE FALSE
      OBVIOUS
    <3>2. \A k \in LevelSet : k < b
      BY <3>1, <1>2
    <3>3. b \in Nat /\ b # 0
      <4>1. PICK k \in LevelSet : k \in Nat
        BY <1>2
      <4>2. b \in Nat /\ k < b
        BY <3>2
      <4> QED
        BY <4>1, <4>2
    <3>4. \A k \in LevelSet : k <= b - 1
      BY <3>2, <3>3, <1>2
    <3>5. b - 1 \in Nat /\ ~(b <= b - 1)
      BY <3>3
    <3>6. b - 1 \in B
      BY <3>4, <3>5
    <3> QED
      BY <3>5, <3>6, <2>2
  <2> QED
    BY <2>3
<1>6. \A k \in 0 .. top : k \in LevelSet
  <2> SUFFICES ASSUME NEW k \in 0 .. top, k \notin LevelSet PROVE FALSE
    OBVIOUS
  <2> DEFINE A == {j \in LevelSet : j > k}
  <2>1. A \in SUBSET Nat /\ top \in A
    <3>1. top \in Nat /\ top # k /\ k <= top /\ k \in Nat
      BY <1>2
    <3>2. top > k
      BY <3>1
    <3>3. A \subseteq LevelSet
      OBVIOUS
    <3> QED
      BY <3>2, <3>3, <1>2
  <2>2. PICK j \in A : \A i \in A : j <= i
    BY <2>1, LeastNumber
  <2>3. j - 1 \in LevelSet /\ j \in Nat /\ j > k /\ k \in Nat
    BY <1>2, <1>4, <2>1
  <2>4. j - 1 \in A
    BY <2>3, <1>2
  <2> QED
    BY <2>2, <2>3, <2>4
<1>7. LevelSet = 0 .. top /\ top \in Nat
  <2>1. top \in Nat /\ \A k \in LevelSet : k \in 0 .. top
    BY <1>2, <1>5
  <2> QED
    BY <2>1, <1>6
<1>8. Height = top + 1
  BY <1>7, FS_Interval DEF Height
<1> QED
  BY <1>7, <1>8

LEMMA ReturnCInv ==
    ASSUME SInv, LInv, CInv, NEW n \in Node, ReturnFromDfs(n)
    PROVE  CInv'
<1>1. /\ kind = "topology" /\ verdict = "acyclic" /\ sorting = "done" /\ critical = << >>
      /\ n \notin Memoised /\ Successors(edges, n) \subseteq Memoised
      /\ UNCHANGED <<kind, edges, verdict, sorting, levelOf, critical>>
  BY DEF ReturnFromDfs, Seeks, searchVars, sortVars
<1>2. PICK tail \in IF Successors(edges, n) = {} THEN {<< >>}
                    ELSE {memo[m] : m \in Longest(Successors(edges, n))} :
         memo' = [m \in Memoised \cup {n} |-> IF m = n THEN <<n>> \o tail ELSE memo[m]]
  BY DEF ReturnFromDfs
<1>3. Acyclic(Node, edges) /\ edges \subseteq EdgesOver(Node)
  BY <1>1, SInvVerdict, SameOperators DEF SInv, Search!VerdictIsRight
<1>4. Height \in Nat \ {0} /\ LevelSet = 0 .. Height - 1
  BY <1>1, <1>3, LevelsInARow
<1>5. /\ \A m \in Node : levelOf[m] \in 0 .. Height - 1
      /\ \A m \in Successors(edges, n) : levelOf[n] < levelOf[m]
  <2>1. IsLevelling(Node, edges, levelOf)
    BY <1>1, <1>3, AllSorted
  <2> QED
    <3>1. \A m \in Node : levelOf[m] \in 0 .. Height - 1
      BY <1>4 DEF LevelSet
    <3>2. \A m \in Successors(edges, n) : Edge(n, m) \in edges
      BY <1>3, SuccessorsAreEnds
    <3> QED
      BY <3>1, <3>2, <2>1 DEF IsLevelling, Edge
<1>6. /\ tail \in Seq(Node)
      /\ levelOf[n] + 1 + Len(tail) <= Height
      /\ tail # << >> => Edge(n, tail[1]) \in edges
      /\ \A i \in 1 .. Len(tail) - 1 : Edge(tail[i], tail[i + 1]) \in edges
      /\ \A m \in Successors(edges, n) : Len(memo[m]) <= Len(tail)
  <2>1. CASE Successors(edges, n) = {}
    <3>1. tail = << >>
      BY <2>1
    <3> QED
      BY <3>1, <2>1, <1>4, <1>5
  <2>2. CASE Successors(edges, n) # {}
    <3>1. PICK m \in Longest(Successors(edges, n)) : tail = memo[m]
      BY <2>2
    <3>2. /\ m \in Successors(edges, n)
          /\ \A k \in Successors(edges, n) : Len(memo[k]) <= Len(memo[m])
      BY DEF Longest
    <3>3. PathFrom(m) /\ m \in Node
      BY <3>2, <1>1 DEF CInv
    <3>4. /\ tail \in Seq(Node) /\ tail[1] = m /\ levelOf[m] + Len(tail) <= Height
          /\ \A i \in 1 .. Len(tail) - 1 : Edge(tail[i], tail[i + 1]) \in edges
      BY <3>1, <3>3 DEF PathFrom
    <3>5. Edge(n, m) \in edges
      BY <3>2, <1>3, SuccessorsAreEnds
    <3>6. levelOf[n] + 1 + Len(tail) <= Height
      <4>1. /\ levelOf[n] < levelOf[m] /\ levelOf[n] \in Nat /\ levelOf[m] \in Nat
            /\ Len(tail) \in Nat
        BY <3>2, <3>3, <3>4, <1>4, <1>5, LenProperties
      <4> QED
        BY <4>1, <3>4, <1>4
    <3> QED
      BY <3>1, <3>2, <3>4, <3>5, <3>6
  <2> QED
    BY <2>1, <2>2
<1> DEFINE grown == <<n>> \o tail
           l == Len(tail)
<1>7. /\ grown \in Seq(Node) /\ Len(grown) = l + 1 /\ grown[1] = n /\ l \in Nat
      /\ l = 0 <=> tail = << >>
      /\ \A i \in 1 .. l : grown[i + 1] = tail[i]
  BY <1>6, Prepended, LenProperties, EmptySeq
<1>8. /\ Memoised' = Memoised \cup {n} /\ memo'[n] = grown
      /\ \A m \in Memoised : memo'[m] = memo[m]
  BY <1>1, <1>2 DEF Memoised
<1> HIDE DEF grown, l
<1>9. /\ Height' = Height
      /\ \A m : Successors(edges, m)' = Successors(edges, m)
  BY <1>1 DEF Height, LevelSet
<1>10. PathFrom(n)'
  <2>1. ASSUME NEW i \in 1 .. l PROVE Edge(grown[i], grown[i + 1]) \in edges
    <3>1. CASE i = 1
      BY <3>1, <2>1, <1>6, <1>7
    <3>2. CASE i # 1
      <4>1. i - 1 \in 1 .. l - 1 /\ i - 1 \in 1 .. l /\ (i - 1) + 1 = i
        BY <3>2, <1>7
      <4>2. grown[i] = tail[i - 1] /\ grown[i + 1] = tail[i]
        BY <4>1, <1>7
      <4>3. Edge(tail[i - 1], tail[(i - 1) + 1]) \in edges
        BY <4>1, <1>6 DEF l
      <4> QED
        BY <4>1, <4>2, <4>3
    <3> QED
      BY <3>1, <3>2
  <2>2. \A m \in Successors(edges, n) : m \in Memoised /\ Len(memo[m]) < l + 1
    <3>1. ASSUME NEW m \in Successors(edges, n) PROVE m \in Memoised /\ Len(memo[m]) < l + 1
      <4>1. m \in Memoised /\ Len(memo[m]) <= l
        BY <1>1, <1>6 DEF l
      <4>2. Len(memo[m]) \in Nat
        BY <4>1, LenProperties DEF CInv, PathFrom
      <4> QED
        BY <4>1, <4>2, <1>7
    <3> QED
      BY <3>1
  <2>3. levelOf[n] + (l + 1) <= Height
    BY <1>4, <1>5, <1>6, <1>7 DEF l
  <2>4. l + 1 > 0 /\ (l + 1) - 1 = l
    BY <1>7
  <2>5. \A m \in Successors(edges, n) : m \in Memoised' /\ Len(memo'[m]) < l + 1
    BY <2>2, <1>8
  <2> QED
    BY <2>1, <2>3, <2>4, <2>5, <1>1, <1>7, <1>8, <1>9 DEF PathFrom
<1>11. ASSUME NEW m \in Memoised PROVE PathFrom(m)'
  <2>1. PathFrom(m)
    BY DEF CInv
  <2>2. \A k \in Successors(edges, m) : k \in Memoised' /\ memo'[k] = memo[k]
    BY <2>1, <1>8 DEF PathFrom
  <2> QED
    BY <2>1, <2>2, <1>1, <1>8, <1>9 DEF PathFrom
<1> QED
  BY <1>1, <1>8, <1>10, <1>11 DEF CInv, CriticalPathIsLongest

LEMMA KeepCInv ==
    ASSUME SInv, LInv, CInv, KeepLongest
    PROVE  CInv'
<1>1. /\ kind = "topology" /\ verdict = "acyclic" /\ sorting = "done" /\ Memoised = Node
      /\ UNCHANGED <<kind, edges, verdict, sorting, levelOf, memo>>
  BY DEF KeepLongest, Seeks, searchVars, sortVars
<1>2. PICK n \in Longest(Node) : critical' = memo[n]
  BY DEF KeepLongest
<1>3. n \in Node /\ \A m \in Node : PathFrom(m) /\ Len(memo[m]) <= Len(memo[n])
  BY <1>1 DEF Longest, CInv
<1>4. Acyclic(Node, edges) /\ edges \subseteq EdgesOver(Node)
  BY <1>1, SInvVerdict, SameOperators DEF SInv, Search!VerdictIsRight
<1>5. Height \in Nat \ {0} /\ LevelSet = 0 .. Height - 1
  BY <1>1, <1>3, <1>4, LevelsInARow
<1>6. IsLevelling(Node, edges, levelOf)
  BY <1>1, <1>4, AllSorted
<1>7. \A m \in Node : levelOf[m] \in Nat /\ Len(memo[m]) \in Nat /\ Len(memo[m]) > 0
  BY <1>3, <1>5, LenProperties DEF LevelSet, PathFrom
\* Downwards through the levels: some node of each has a path through all above it.
<1>8. \E m \in Node : levelOf[m] = 0 /\ Height <= Len(memo[m])
  <2> DEFINE T == {levelOf[m] : m \in {k \in Node : Height <= levelOf[k] + Len(memo[k])}}
  <2>1. T \in SUBSET Nat
    BY <1>7
  <2>2. T # {}
    <3>1. PICK k \in Node : levelOf[k] = Height - 1
      BY <1>5 DEF LevelSet
    <3>2. Height <= levelOf[k] + Len(memo[k])
      BY <3>1, <1>5, <1>7
    <3> QED
      BY <3>2
  <2>3. PICK j \in T : \A i \in T : j <= i
    BY <2>1, <2>2, LeastNumber
  <2>4. PICK m \in Node : j = levelOf[m] /\ Height <= levelOf[m] + Len(memo[m])
    OBVIOUS
  <2>5. ASSUME levelOf[m] > 0 PROVE FALSE
    <3>1. PICK e \in edges : e.target = m /\ levelOf[m] = levelOf[e.source] + 1
      BY <2>5, <1>6 DEF IsLevelling
    <3>2. e.source \in Node /\ m \in Successors(edges, e.source)
      BY <3>1, <1>4 DEF EdgesOver, Successors
    <3>3. Len(memo[m]) < Len(memo[e.source])
      BY <3>2, <1>3 DEF PathFrom
    <3>4. Height <= levelOf[e.source] + Len(memo[e.source])
      BY <3>1, <3>2, <3>3, <2>4, <1>5, <1>7
    <3>5. levelOf[e.source] \in T
      BY <3>2, <3>4
    <3>6. j <= levelOf[e.source]
      BY <3>5, <2>3
    <3> HIDE DEF T
    <3> QED
      BY <3>1, <3>2, <3>6, <2>4, <1>7
  <2>6. levelOf[m] = 0
    BY <2>5, <1>7
  <2> QED
    BY <2>4, <2>6, <1>5, <1>7
<1>9. Len(memo[n]) = Height
  <2>1. Height <= Len(memo[n])
    BY <1>3, <1>5, <1>7, <1>8
  <2>2. levelOf[n] + Len(memo[n]) <= Height
    BY <1>3 DEF PathFrom
  <2> QED
    BY <2>1, <2>2, <1>3, <1>5, <1>7
<1>10. CriticalPathIsLongest'
  BY <1>1, <1>2, <1>3, <1>9 DEF CriticalPathIsLongest, PathFrom, Height, LevelSet, Edge
<1>11. \A m \in Memoised : PathFrom(m)'
  BY <1>1, <1>3 DEF PathFrom, Memoised, Height, LevelSet
<1> QED
  BY <1>1, <1>10, <1>11 DEF CInv, Memoised

LEMMA OtherCInv ==
    ASSUME CInv, UNCHANGED <<kind, edges, criticalVars>>,
           Memoised # {} \/ critical # << >> => UNCHANGED <<verdict, sorting, levelOf>>
    PROVE  CInv'
BY DEF CInv, Memoised, PathFrom, Height, LevelSet, CriticalPathIsLongest, criticalVars

------------------------------------------------------------------------------
LEMMA InitIInv == Init => IInv
<1>1. Init => CInv
  BY DEF Init, CInv, Memoised, CriticalPathIsLongest
<1> QED
  BY <1>1, InitSInv, InitPInv, InitLInv DEF IInv

LEMMA NextIInv == IInv /\ [Next]_vars => IInv'
<1> SUFFICES ASSUME IInv, [Next]_vars PROVE IInv'
  OBVIOUS
<1> USE DEF IInv
<1>1. ASSUME SearchStep PROVE IInv'
  <2>1. /\ Search!Next /\ UNCHANGED <<kind, edges, sortVars, probeVars, criticalVars>>
        /\ verdict = "searching"
    BY <1>1 DEF SearchStep, Search!Next, Search!StartAt, Search!Descend, Search!CloseCycle,
                Search!PassOver, Search!Backtrack, Search!Conclude
  <2> QED
    BY <2>1, SearchSInv, OtherPInv, OtherLInv, OtherCInv DEF sortVars, CInv
<1>2. ASSUME SortStep PROVE IInv'
  <2>1. /\ Sort!Next /\ UNCHANGED <<kind, edges, searchVars, probeVars, criticalVars>>
        /\ sorting # "done"
    BY <1>2 DEF SortStep, Sort!Next, Sort!RefuseCycle, Sort!CountDegrees, Sort!SortNode,
                Sort!NextLevel, Sort!Finish
  <2> QED
    BY <2>1, SortLInv, OtherSInv, OtherPInv, OtherCInv DEF CInv
<1>3. ASSUME ProbeStep PROVE IInv'
  <2>1. Probe!Next /\ UNCHANGED <<kind, edges, searchVars, sortVars, criticalVars>>
    BY <1>3 DEF ProbeStep, Probe!Next, Probe!Reach, Probe!Expand, Probe!Rebuild, Probe!Answer,
                Probe!NoCycle, Probe!arguments
  <2> QED
    BY <2>1, ProbePInv, OtherSInv, OtherLInv, OtherCInv DEF searchVars, sortVars
<1>4. ASSUME NEW n \in Node, ReturnFromDfs(n) PROVE IInv'
  <2>1. UNCHANGED <<edges, searchVars, sortVars, probeVars>>
    BY <1>4 DEF ReturnFromDfs
  <2> QED
    BY <2>1, <1>4, ReturnCInv, OtherSInv, OtherPInv, OtherLInv DEF sortVars
<1>5. ASSUME KeepLongest PROVE IInv'
  <2>1. UNCHANGED <<edges, searchVars, sortVars, probeVars>>
    BY <1>5 DEF KeepLongest
  <2> QED
    BY <2>1, <1>5, KeepCInv, OtherSInv, OtherPInv, OtherLInv DEF sortVars
<1>6. ASSUME UNCHANGED vars PROVE IInv'
  BY <1>6, OtherSInv, OtherPInv, OtherLInv, OtherCInv DEF vars, sortVars, searchVars
<1> QED
  BY <1>1, <1>2, <1>3, <1>4, <1>5, <1>6 DEF Next

LEMMA SpecIInv == Spec => []IInv
BY InitIInv, NextIInv, PTL DEF Spec

(***************************************************************************)
(* A cycle that detect_cycle or detect_cycle_with_proposed_edge returns    *)
(* follows edges of the graph and ends where it starts.                    *)
(***************************************************************************)
THEOREM CyclesAreReal == Spec => []CycleIsReal
<1>1. IInv => CycleIsReal
  BY DEF IInv, SInv, PInv, CycleIsReal
<1> QED
  BY <1>1, SpecIInv, PTL

(***************************************************************************)
(* detect_cycle misses no cycle, and a proposed edge is refused exactly    *)
(* when it would close one.                                                *)
(***************************************************************************)
THEOREM NoCycleIsMissed == Spec => []VerdictIsRight
<1>1. IInv => VerdictIsRight
  BY SInvVerdict, PInvVerdict DEF IInv, VerdictIsRight
<1> QED
  BY <1>1, SpecIInv, PTL

(***************************************************************************)
(* The loop that reads the cycle back meets no node twice.                 *)
(***************************************************************************)
THEOREM RebuildingEnds == Spec => []RebuildEnds
<1>1. IInv => RebuildEnds
  BY PInvRebuildEnds DEF IInv, RebuildEnds
<1> QED
  BY <1>1, SpecIInv, PTL

(***************************************************************************)
(* topological_sort_levels sorts every acyclic graph, and what it returns  *)
(* is the only levelling: what the executor takes from get_topology.       *)
(***************************************************************************)
THEOREM LevelsAreTheOnlyOnes == Spec => []LevelsAreForced
<1>1. IInv => LevelsAreForced
  BY LInvForced DEF IInv, LevelsAreForced
<1> QED
  BY <1>1, SpecIInv, PTL

(***************************************************************************)
(* get_critical_path returns a path along edges with as many nodes as      *)
(* there are levels.                                                       *)
(***************************************************************************)
THEOREM CriticalPathSpansLevels == Spec => []CriticalPathIsLongest
<1>1. IInv => CriticalPathIsLongest
  BY DEF IInv, CInv
<1> QED
  BY <1>1, SpecIInv, PTL
===============================================================================
