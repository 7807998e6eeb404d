-------------------------- MODULE WorkflowValidation --------------------------
(***************************************************************************)
(* What DAGValidator (services/workflow/validator.py) says about the rows  *)
(* of a workflow: a set N of nodes and a set E of edges that it has read,  *)
(* one after the other.  An edge row is [source, target, handle, row]; two *)
(* rows that differ in `row` alone are possible where `handle` is Null,    *)
(* because NULLs are never equal in the unique constraint of the table.    *)
(***************************************************************************)
EXTENDS WorkflowGraph, FiniteSets

CONSTANTS
    Node,      \* nodes of the workflow
    Foreign,   \* nodes of other workflows, which an edge row may refer to
    Handle,    \* the two handles of an edge; Null where either is NULL
    Null,
    TypeOf,    \* TypeOf[n]: node_type
    Bound,     \* the nodes with a tool_id or an agent_id
    Refs,      \* Refs[n]: top-level names of the {{...}} in its config
    Defined,   \* the keys of workflow.variables
    Gives,     \* Gives[n]: type of its output_schema, "none" without a schema
    Takes      \* Takes[n]: type of its input_schema, "none" without a schema

NodeTypes ==
    {"trigger", "tool", "agent", "condition", "adapter", "parallel", "aggregator"}
SchemaTypes ==
    {"none", "untyped", "any", "number", "integer", "object", "array", "string", "boolean"}

ASSUME NodeRowAssumption ==
    /\ Node \cap Foreign = {}
    /\ TypeOf \in [Node -> NodeTypes] /\ Bound \subseteq Node
    /\ DOMAIN Refs = Node
    /\ Gives \in [Node -> SchemaTypes] /\ Takes \in [Node -> SchemaTypes]

EdgeRow == {e \in [source : Node \cup Foreign, target : Node \cup Foreign,
                   handle : Handle \cup {Null}, row : {1, 2}] : e.source # e.target}

ValidationLevel == {"minimal", "standard", "strict"}

\* Options of a request, as far as the code looks at them.
ValidationOptions == [level : ValidationLevel, maxNodes : Nat, maxEdges : Nat]

------------------------------------------------------------------------------
(* The graph *)

Pairs(E) == {[source |-> e.source, target |-> e.target] : e \in E}

\* _build_graph: add_edge() adds the ends it does not know.
GraphNodes(N, E) == N \cup {e.source : e \in E} \cup {e.target : e \in E}

Triggers(N) == {n \in N : TypeOf[n] = "trigger"}

\* The simple cycles, each a function from its nodes to the next one; detect_cycle
\* returns one of them.
Cycles(N, E) ==
    UNION {{next \in [C -> C] :
                /\ \A n \in C : [source |-> n, target |-> next[n]] \in E
                /\ \A D \in SUBSET C \ {{}} : (\A n \in D : next[n] \in D) => D = C}
           : C \in SUBSET N \ {{}}}

\* Nothing leads there from the start nodes; without any, nothing leads anywhere.
FindUnreachableFrom(N, E, S) == N \ ReachableFrom(N, E, S)

FindDanglingNodes(N, E) ==
    IF Cardinality(N) <= 1 THEN {}
    ELSE {n \in N : Predecessors(E, n) = {} /\ Successors(E, n) = {}}

FindDeadEnds(N, E) == {n \in N : Successors(E, n) = {}}

------------------------------------------------------------------------------
(* The checks, each the set of its error codes *)

Codes(code, found) == IF found THEN {code} ELSE {}

SizeErrors(N, E, o) ==
    Codes("GRAPH_TOO_LARGE", \/ Cardinality(GraphNodes(N, E)) > o.maxNodes
                             \/ Cardinality(E) > o.maxEdges)

\* Equal signatures: NULL handles count as equal here.
SameSignature(d, e) == d.source = e.source /\ d.target = e.target /\ d.handle = e.handle

StructuralErrors(N, E) ==
    Codes("CYCLE_DETECTED", ~Acyclic(GraphNodes(N, E), Pairs(E)))
    \cup Codes("DUPLICATE_EDGE", \E d, e \in E : d # e /\ SameSignature(d, e))

\* (mutant: what has no predecessor counts as a start, trigger or not)
ConnectivityErrorsFromSources(N, E) ==
    LET G == GraphNodes(N, E) IN
    Codes("NO_TRIGGER_NODE", Triggers(N) = {})
    \cup Codes("DANGLING_NODES", FindDanglingNodes(G, Pairs(E)) # {})
    \cup Codes("UNREACHABLE_NODES",
               Triggers(N) # {} /\ FindUnreachableFrom(G, Pairs(E),
                    {n \in G : Predecessors(Pairs(E), n) = {}}) # {})

ConnectivityErrors(N, E) ==
    LET G == GraphNodes(N, E) IN
    Codes("NO_TRIGGER_NODE", Triggers(N) = {})
    \cup Codes("DANGLING_NODES", FindDanglingNodes(G, Pairs(E)) # {})
    \cup Codes("UNREACHABLE_NODES",
               Triggers(N) # {} /\ FindUnreachableFrom(G, Pairs(E), Triggers(N)) # {})

\* The warnings: nodes where a run ends although they are no aggregators.
DeadEndWarnings(N, E) ==
    {n \in FindDeadEnds(GraphNodes(N, E), Pairs(E)) \cap N :
        TypeOf[n] \notin {"aggregator", "trigger"}}

CompatibilityErrors(N) ==
    Codes("INVALID_NODE_CONFIG",
          \E n \in N : TypeOf[n] \in {"tool", "agent"} /\ n \notin Bound)

\* _schemas_compatible: a number goes where an integer is taken, but not the
\* other way round.
SchemasCompatible(out, in) ==
    \/ out = in
    \/ "any" \in {out, in}
    \/ out = "number" /\ in = "integer"

DataFlowErrors(N, E) ==
    Codes("UNDEFINED_VARIABLE", \E n \in N : ~(Refs[n] \subseteq Defined))
    \cup Codes("SCHEMA_MISMATCH",
               \E e \in E : /\ {e.source, e.target} \subseteq N
                            /\ "none" \notin {Gives[e.source], Takes[e.target]}
                            /\ ~SchemasCompatible(Gives[e.source], Takes[e.target]))

\* _validate_workflow_impl
Errors(N, E, o) ==
    SizeErrors(N, E, o) \cup StructuralErrors(N, E)
    \cup (IF o.level = "minimal" THEN {} ELSE ConnectivityErrors(N, E))
    \cup (IF o.level # "strict" THEN {}
          ELSE CompatibilityErrors(N) \cup DataFlowErrors(N, E))

\* What may come of it: the error of a cycle shows the positions of its nodes, and
\* a node that is not among those read has none (KeyError).
Outcomes(N, E, o) ==
    LET G == GraphNodes(N, E)
        errors == Errors(N, E, o)
    IN  IF "CYCLE_DETECTED" \notin errors
        THEN {IF errors = {} THEN "valid" ELSE "invalid"}
        ELSE {IF DOMAIN c \subseteq N THEN "invalid" ELSE "crash" : c \in Cycles(G, Pairs(E))}

\* get_topology raises CycleDetectedError, and check_cycle says has_cycle.
CycleOutcomes(N, E) ==
    {IF Acyclic(GraphNodes(N, E), Pairs(E)) THEN "valid" ELSE "invalid"}

------------------------------------------------------------------------------
(* Proposed edges *)

\* The cycles that an edge p closes.
CyclesThrough(G, E, p) ==
    {c \in Cycles(G, E \cup {p}) : p.source \in DOMAIN c /\ c[p.source] = p.target}

\* validate_edge_addition: a self loop, which needs the position of its node; an
\* unknown node; a cycle, which needs the positions of all its nodes; a duplicate.
EdgeOutcomes(N, E, p) ==
    LET G == GraphNodes(N, E)
        pair == [source |-> p.source, target |-> p.target]
    IN  IF p.source = p.target THEN {IF p.source \in N THEN "invalid" ELSE "crash"}
        ELSE IF ~({p.source, p.target} \subseteq N) THEN {"invalid"}
        ELSE IF ClosesCycle(G, Pairs(E), pair)
        THEN {IF DOMAIN c \subseteq N THEN "invalid" ELSE "crash"
              : c \in CyclesThrough(G, Pairs(E), pair)}
        ELSE {IF \E e \in E : SameSignature(e, p) THEN "invalid" ELSE "valid"}

\* validate_batch_edges: the edges one by one, then all of them in one graph.
BatchOutcomes(N, E, batch) ==
    LET all == Pairs(E) \cup Pairs(batch) IN
    {IF /\ \A p \in batch : p.source # p.target /\ {p.source, p.target} \subseteq N
        /\ Acyclic(GraphNodes(N, all), all)
     THEN "valid" ELSE "invalid"}
===============================================================================
