----------------------------- MODULE NodeDataflow -----------------------------
(***************************************************************************)
(* What running a workflow promises about its nodes, whatever schedule     *)
(* carries it out: a plan fixes once which node needs which, a node starts *)
(* only when everything it needs has settled, it settles once and never    *)
(* runs again.  Levels, tasks, sessions and cancellation are absent: they  *)
(* are how WorkflowExecutor keeps the promise.                             *)
(***************************************************************************)
CONSTANT Node

VARIABLES
    needs,    \* needs[n]: the nodes that must settle before n starts
    planned,  \* the plan has been fixed
    phase     \* phase[n]: where n is in its life

dvars == <<needs, planned, phase>>

Settled == {"done", "failed", "lost", "skipped"}

DInit ==
    /\ needs = [n \in Node |-> {}]
    /\ planned = FALSE
    /\ phase = [n \in Node |-> "waiting"]

DPlan ==
    /\ ~planned
    /\ planned' = TRUE
    /\ needs' \in [Node -> SUBSET Node]
    /\ UNCHANGED phase

\* The nodes of B start together; some may be lost at the very start.
DStart(B) ==
    /\ planned
    /\ \A n \in B : /\ phase[n] = "waiting"
                    /\ \A m \in needs[n] : phase[m] \in Settled
    /\ \E s \in [B -> {"running", "lost"}] :
          phase' = [n \in Node |-> IF n \in B THEN s[n] ELSE phase[n]]
    /\ UNCHANGED <<needs, planned>>

\* The nodes of B settle: one that ends, or several that are given up at once.
DSettle(B) ==
    /\ \A n \in B : phase[n] = "running"
    /\ \E s \in [B -> {"done", "failed", "lost"}] :
          phase' = [n \in Node |-> IF n \in B THEN s[n] ELSE phase[n]]
    /\ UNCHANGED <<needs, planned>>

DSkip(B) ==
    /\ planned
    /\ phase' = [n \in Node |-> IF n \in B /\ phase[n] = "waiting"
                                THEN "skipped" ELSE phase[n]]
    /\ UNCHANGED <<needs, planned>>

DNext == \/ DPlan
         \/ \E B \in SUBSET Node : DStart(B) \/ DSettle(B) \/ DSkip(B)

DSpec == DInit /\ [][DNext]_dvars
===============================================================================
