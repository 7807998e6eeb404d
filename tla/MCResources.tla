----------------------------- MODULE MCResources -----------------------------
(* The tools and agents, and the user accounts: two components that share no *)
(* state, so that a behaviour exercises one of them while the other stands   *)
(* still in its initial state.                                               *)
EXTENDS ResourceReferences, UserAccounts, TLC

VARIABLE part

MCSpelling == {"ann", "Ann", "bob"}
MCNormalize == [ann |-> "ann", Ann |-> "ann", bob |-> "bob"]

MCInit ==
    \/ /\ part = "resources"
       /\ Init
       /\ account = [u \in User |-> Absent]
       /\ call = [c \in Call |-> NewCall]
    \/ /\ part = "accounts"
       /\ Init
       /\ \A x \in Resource : ~row[x].exists
       /\ AInit

MCNext ==
    \/ part = "resources" /\ Next /\ UNCHANGED <<avars, part>>
    \/ part = "accounts" /\ ANext /\ UNCHANGED vars /\ UNCHANGED part

MCSpec == MCInit /\ [][MCNext]_<<vars, avars, part>>

Symmetry == Permutations(Agent) \cup Permutations(Request) \cup Permutations(Call)
=============================================================================
