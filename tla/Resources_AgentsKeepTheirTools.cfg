SPECIFICATION MCSpec
CONSTANTS
    Tool = {t1}
    Agent = {a1}
    Node = {n1}
    Request = {r1}
    User = {u1}
    Spelling <- MCSpelling
    Normalize <- MCNormalize
    Password = {p1}
    Call = {c1}
INVARIANT AgentsKeepTheirTools
CHECK_DEADLOCK FALSE
