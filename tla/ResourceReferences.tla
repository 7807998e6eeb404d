------------------------- MODULE ResourceReferences -------------------------
(***************************************************************************)
(* Tools and agents: rows that are soft-deleted, the tools an agent may    *)
(* use, the workflow nodes that name them, and concurrent requests.  A     *)
(* request reads committed data in several statements and commits what it  *)
(* wrote in its last one; the rows it has loaded are not read again.       *)
(***************************************************************************)
EXTENDS Integers, FiniteSets

CONSTANTS Tool, Agent, Node, Request

Resource == Tool \cup Agent
None == "none"

\* Identifiers of different tables are never mixed up.
ASSUME KindsAssumption == Tool \cap Agent = {} /\ Node \cap Agent = {}

VARIABLES
    row,      \* row[x]: exists, is_active and deleted_at (as a flag) of tool or agent x
    tools,    \* tools[a]: the tools agent_tools associates with agent a
    node,     \* node[n]: the resource node n names, or None
    live,     \* the workflow that has the nodes is not soft-deleted
    req,      \* req[r]: request r: operation, target, where it is, what it has read
    ledger,   \* history: how often requests have reported that they associated a pair (at
              \* first 1 for a pair that is there) since one last reported taking it away
    held,     \* history: held[r]: what r has to see, and has been there ever since r loaded
    crossed   \* the resources an update and a deletion of which were under way at once

vars == <<row, tools, node, live, req, ledger, held, crossed>>

Unborn == [op |-> None, target |-> None, tool |-> None, at |-> "start",
           active |-> FALSE, read |-> {}, answer |-> None]

Init ==
    /\ row \in [Resource -> {[exists |-> TRUE, active |-> TRUE, deleted |-> FALSE],
                             [exists |-> FALSE, active |-> FALSE, deleted |-> FALSE]}]
    /\ tools \in [Agent -> SUBSET Tool]
    /\ \A a \in Agent : tools[a] # {} => row[a].exists /\ \A t \in tools[a] : row[t].exists
    /\ node = [n \in Node |-> None]
    /\ live = TRUE
    /\ req = [r \in Request |-> Unborn]
    /\ ledger = [p \in Agent \X Tool |-> IF p[2] \in tools[p[1]] THEN 1 ELSE 0]
    /\ held = [r \in Request |-> {}]
    /\ crossed = {}

NodesNaming(x) == IF live THEN {n \in Node : node[n] = x} ELSE {}
AgentsUsing(t) == {a \in Agent : t \in tools[a] /\ row[a].exists /\ ~row[a].deleted}
Users(x) == NodesNaming(x) \cup (IF x \in Tool THEN AgentsUsing(x) ELSE {})

\* What an operation on x and t has to see: the users of what it deletes, the agents
\* that have what it takes away.
Watched(op, x, t) ==
    CASE op = "delete" -> Users(x)
      [] op = "cleanup" -> AgentsUsing(x)
      [] op = "remove" -> IF t \in tools[x] THEN {x} ELSE {}
      [] OTHER -> {}

\* What a request under way has to see, and still does after this step.
StillHeld ==
    held' = [r \in Request |-> IF req[r].at = "end" THEN held[r]
                   ELSE held[r] \cap Watched(req[r].op, req[r].target, req[r].tool)']

Answer(r, answer) == req' = [req EXCEPT ![r].at = "end", ![r].answer = answer]
Refuse(r, answer) ==
    Answer(r, answer) /\ UNCHANGED <<row, tools, node, live, ledger, held, crossed>>

----------------------------------------------------------------------------
(* The first statement of an operation: get() hides soft-deleted rows, and *)
(* an agent comes with its tools; cleanup_tool_references reads the agents *)
(* that are not deleted, with their tools.                                 *)

Rivals == {"update", "delete"}

Load(r, op, x, t) ==
    LET found == op = "cleanup" \/ (row[x].exists /\ ~row[x].deleted)
        read == CASE op = "cleanup" -> AgentsUsing(x)
                  [] op # "cleanup" /\ x \in Agent -> tools[x]
                  [] OTHER -> {}
        rival == \E q \in Request : /\ req[q].at \in {"loaded", "checked"}
                                    /\ req[q].target = x
                                    /\ {op, req[q].op} = Rivals
    IN /\ req[r].at = "start"
       /\ req' = [req EXCEPT ![r] =
                    [op |-> op, target |-> x, tool |-> t,
                     at |-> IF found THEN "loaded" ELSE "end",
                     active |-> found /\ row[x].active, read |-> read,
                     answer |-> IF found THEN None ELSE "missing"]]
       /\ held' = [held EXCEPT ![r] = IF found THEN Watched(op, x, t) ELSE {}]
       /\ crossed' = IF found /\ rival THEN crossed \cup {x} ELSE crossed
       /\ UNCHANGED <<row, tools, node, live, ledger>>

----------------------------------------------------------------------------
(* Creation, update and deletion of a tool or an agent.                    *)

\* A tool whose configuration lacks a required field is refused.
Create(r, x, complete) ==
    /\ req[r].at = "start"
    /\ ~row[x].exists
    /\ IF x \in Tool /\ ~complete THEN Refuse(r, "refused")
       ELSE /\ \E active \in IF x \in Tool THEN BOOLEAN ELSE {TRUE} :
                 row' = [row EXCEPT ![x] = [exists |-> TRUE, active |-> active,
                                            deleted |-> FALSE]]
            /\ Answer(r, "done")
            /\ UNCHANGED <<tools, node, live, ledger, held, crossed>>

\* Only an attribute whose value differs from the loaded one is written.
Written(r, x, active) == IF active = req[r].active THEN row[x].active ELSE active

\* The update of an agent that gives model_provider or model_name, properties
\* without a setter, or tools, a list of identifiers, raises and is rolled back.
Update(r) ==
    /\ req[r].at = "loaded" /\ req[r].op = "update"
    /\ \/ /\ \E active \in BOOLEAN :
                row' = [row EXCEPT ![req[r].target].active =
                                       Written(r, req[r].target, active)]
          /\ Answer(r, "done")
          /\ UNCHANGED <<tools, node, live, ledger, held, crossed>>
       \/ req[r].target \in Agent /\ Refuse(r, "error")

\* The search of ToolService.delete for agents that use the tool compares the
\* identifier, a string, with the Tool objects of agent.tools: it finds none.
AgentReferences(x) == {}

NodeReferencesInDeleted(x) == IF live THEN {} ELSE {n \in Node : node[n] = x}

NodeReferences(x) == NodesNaming(x)

\* ResourceInUseError when a reference is found.
CheckUse(r) ==
    /\ req[r].at = "loaded" /\ req[r].op = "delete"
    /\ IF AgentReferences(req[r].target) \cup NodeReferences(req[r].target) # {}
       THEN Refuse(r, "refused")
       ELSE /\ req' = [req EXCEPT ![r].at = "checked"]
            /\ UNCHANGED <<row, tools, node, live, ledger, held, crossed>>

DeletedRowStillActive(r, x) == [row[x] EXCEPT !.deleted = TRUE]

DeletedRow(r, x) == [row[x] EXCEPT !.deleted = TRUE, !.active = Written(r, x, FALSE)]

SoftDelete(r) ==
    /\ req[r].at = "checked"
    /\ row' = [row EXCEPT ![req[r].target] = DeletedRow(r, req[r].target)]
    /\ Answer(r, "done")
    /\ UNCHANGED <<tools, node, live, ledger, crossed>>
    /\ StillHeld

----------------------------------------------------------------------------
(* The tools of an agent.  agent_tools has the pair as its primary key, so *)
(* a second INSERT fails; a DELETE that finds no row deletes nothing, and  *)
(* nothing compares the number of rows on postgresql+asyncpg.              *)

TakesAnyPair(a, t) == TRUE

TakesPair(a, t) == t \notin tools[a]

\* add_tool: refused when the loaded tools have it, whatever became of the tool.
AddTool(r) ==
    LET a == req[r].target
        t == req[r].tool
    IN /\ req[r].at = "loaded" /\ req[r].op = "add"
       /\ CASE t \in req[r].read -> Refuse(r, "refused")
            [] t \notin req[r].read /\ ~row[t].exists -> Refuse(r, "missing")
            [] t \notin req[r].read /\ row[t].exists /\ ~TakesPair(a, t) -> Refuse(r, "error")
            [] OTHER -> /\ tools' = [tools EXCEPT ![a] = @ \cup {t}]
                        /\ ledger' = [ledger EXCEPT ![<<a, t>>] = @ + 1]
                        /\ Answer(r, "done")
                        /\ UNCHANGED <<row, node, live, crossed>>
                        /\ StillHeld

\* Takes t from the agents of A, those that still have it.
Dissociate(r, A, t) ==
    /\ tools' = [a \in Agent |-> IF a \in A THEN tools[a] \ {t} ELSE tools[a]]
    /\ ledger' = [p \in Agent \X Tool |-> IF p \in A \X {t} THEN 0 ELSE ledger[p]]
    /\ Answer(r, "done")
    /\ UNCHANGED <<row, node, live, crossed>>
    /\ StillHeld

RemoveTool(r) ==
    /\ req[r].at = "loaded" /\ req[r].op = "remove"
    /\ Dissociate(r, IF req[r].tool \in req[r].read THEN {req[r].target} ELSE {}, req[r].tool)

CleanupToolReferences(r) ==
    /\ req[r].at = "loaded" /\ req[r].op = "cleanup"
    /\ Dissociate(r, req[r].read, req[r].target)

----------------------------------------------------------------------------
(* Nodes and their workflow: a node may name any row that exists.          *)

SetNode(n, x) ==
    /\ x # None => row[x].exists
    /\ node' = [node EXCEPT ![n] = x]
    /\ UNCHANGED <<row, tools, live, req, ledger, crossed>>
    /\ StillHeld

DeleteWorkflow ==
    /\ live
    /\ live' = FALSE
    /\ UNCHANGED <<row, tools, node, req, ledger, crossed>>
    /\ StillHeld

Next ==
    \/ \E r \in Request, op \in Rivals, x \in Resource : Load(r, op, x, None)
    \/ \E r \in Request, op \in {"add", "remove"}, a \in Agent, t \in Tool : Load(r, op, a, t)
    \/ \E r \in Request, t \in Tool : Load(r, "cleanup", t, None)
    \/ \E r \in Request, x \in Resource, complete \in BOOLEAN : Create(r, x, complete)
    \/ \E r \in Request : Update(r) \/ CheckUse(r) \/ SoftDelete(r)
    \/ \E r \in Request : AddTool(r) \/ RemoveTool(r) \/ CleanupToolReferences(r)
    \/ \E n \in Node, x \in Resource \cup {None} : SetNode(n, x)
    \/ DeleteWorkflow

Spec == Init /\ [][Next]_vars

\* validate_tool_references: the tools of an agent by the state of their rows.
ToolReport(a) ==
    [deleted |-> {t \in tools[a] : row[t].deleted},
     inactive |-> {t \in tools[a] : ~row[t].deleted /\ ~row[t].active},
     valid |-> {t \in tools[a] : ~row[t].deleted /\ row[t].active}]

----------------------------------------------------------------------------
(* A tool or an agent is never deleted while a node of a workflow that is  *)
(* not deleted names it during the whole request: ResourceInUseError of    *)
(* both delete operations.                                                 *)
InUseStays ==
    \A r \in Request : req[r].op = "delete" /\ req[r].answer = "done" => held[r] \cap Node = {}

(* A deleted row is inactive (soft_delete sets both), unless an update of  *)
(* the row was under way at the same time as its deletion: then the update *)
(* may activate it, or the deletion may leave is_active as it was loaded.  *)
DeletedIsInactive ==
    \A x \in Resource : row[x].deleted /\ row[x].active => x \in crossed

(* The table follows the answers, although every request works on a list   *)
(* it loaded before: a pair is there if and only if exactly one request    *)
(* has reported its addition since one reported taking it away, so that of *)
(* concurrent add_tool calls one succeeds and no addition is lost; and     *)
(* when remove_tool or cleanup_tool_references has succeeded, no agent is  *)
(* left with a tool it should lose that it had during the whole request.   *)
(* (A removal that loaded no such pair succeeds and changes nothing; two   *)
(* concurrent removals of one pair both succeed.)                          *)
PairsFollowReports ==
    /\ \A a \in Agent, t \in Tool : ledger[<<a, t>>] = IF t \in tools[a] THEN 1 ELSE 0
    /\ \A r \in Request :
          req[r].op \in {"remove", "cleanup"} /\ req[r].answer = "done" =>
              held[r] \cap Agent = {}

(* "ResourceInUseError: If tool is used in agents or workflows": a tool    *)
(* that an undeleted agent uses during the whole request is not deleted.   *)
AgentsKeepTheirTools ==
    \A r \in Request :
        req[r].op = "delete" /\ req[r].answer = "done" => held[r] \cap Agent = {}
=============================================================================
