SPECIFICATION Spec
CONSTANTS
    a = a
    b = b
    c = c
    x = x
    y = y
    h = h
    Node <- ThreeNodes
    Foreign <- OtherNodes
    Handle <- OneHandle
    Session = {s1, s2}
    Requests <- AllRequests
    MaxRequests = 2
    StartNodes <- TwoNodes
    StartEdges <- OneEdge
SYMMETRY Symmetry
INVARIANT TypeOK
INVARIANT CycleNeedsRace
INVARIANT VersionsUsedOnce
INVARIANT DuplicateLosesNothing
\* Clients may stop sending requests.
CHECK_DEADLOCK FALSE
