------------------------- MODULE MCValidationCaching -------------------------
(***************************************************************************)
(* Instances of ValidationCaching for TLC.                                 *)
(***************************************************************************)
EXTENDS ValidationCaching

CONSTANTS t, x, y, f, g, v, s1, s2

ThreeNodes == {t, x, y}
TwoForeign == {f, g}

\* A trigger and two tools, one of them without its tool_id.
Types == [n \in Node |-> IF n = t THEN "trigger" ELSE "tool"]
OnlyXBound == {x}
SomeRefs == [n \in Node |-> IF n = x THEN {v} ELSE {}]
OneDefined == {v}
Outputs == [n \in Node |-> IF n = t THEN "number" ELSE "none"]
Inputs == [n \in Node |-> IF n = x THEN "integer" ELSE IF n = y THEN "string" ELSE "none"]

E(m, n) == [source |-> m, target |-> n, handle |-> Null, row |-> 1]
Second(e) == [e EXCEPT !.row = 2]
Proposed(m, n) == [source |-> m, target |-> n, handle |-> Null]

\* Edges that make the workflow whole or begin at a tool, a batch that closes a cycle together, and a
\* second edge without handles between the same nodes.
SomeBatches == {{E(t, x)}, {E(y, x)}, {E(x, y)}, {E(x, y), E(y, x)}, {Second(E(t, x))}}

Replacements == {[nodes |-> {t}, edges |-> {}],
                 [nodes |-> {t, x}, edges |-> {E(f, g), E(g, f)}]}

Options(level, n) == [level |-> level, maxNodes |-> n, maxEdges |-> 2]

\* The first session asks anything, the second validates as the endpoint does by
\* default.
RequestsOf ==
    [s \in Session |->
        IF s = s1
        THEN {[kind |-> "validate", options |-> Options("minimal", 2)],
              [kind |-> "validate", options |-> Options("strict", 3)],
              [kind |-> "topology"], [kind |-> "checkCycle"],
              [kind |-> "checkEdge", edge |-> Proposed(x, t)],
              [kind |-> "checkEdge", edge |-> Proposed(t, x)],
              [kind |-> "checkEdge", edge |-> Proposed(y, y)],
              [kind |-> "checkBatch", batch |-> {E(y, t), E(x, t)}]}
        ELSE {[kind |-> "validate", options |-> Options("standard", 3)]}]

FirstNodes == {t, x}
FirstEdges == {E(t, x)}
==============================================================================
