SPECIFICATION MCSpec
CONSTANTS
    Tool = {t1}
    Agent = {a1, a2}
    Node = {n1}
    Request = {r1, r2, r3}
    User = {u1, u2}
    Spelling <- MCSpelling
    Normalize <- MCNormalize
    Password = {p1, p2}
    Call = {c1, c2}
SYMMETRY Symmetry
INVARIANT InUseStays
INVARIANT DeletedIsInactive
INVARIANT PairsFollowReports
INVARIANT PasswordHandOver
CHECK_DEADLOCK FALSE
