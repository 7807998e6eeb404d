SPECIFICATION Spec

CONSTANTS
    a = a
    b = b
    c = c
    d = d
    Node <- ThreeNodes
    Conditions <- NoConditions
    MaxRetries <- OneRetryForB
    EditKinds <- NoEdits
    MaxEdits = 0
    InitialNodes <- ThreeThere
    InitialEdges <- ForwardGraphs

INVARIANT DownstreamOfFailureBlocked

\* Once execute() is over and the session closed nothing need happen.
CHECK_DEADLOCK FALSE
