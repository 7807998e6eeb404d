SPECIFICATION FairSpec

CONSTANTS
    a = a
    b = b
    c = c
    d = d
    Node <- FourNodes
    Conditions <- OneCondition
    MaxRetries <- OneRetryForB
    EditKinds <- NoEdits
    MaxEdits = 0
    InitialNodes <- FourThere
    InitialEdges <- FourNodeGraphs

INVARIANT TypeOK
INVARIANT OneOutcomePerNode
INVARIANT EveryNodeReported
PROPERTY CommittedStays
PROPERTY ExecuteReturns

\* Once execute() is over and the session closed nothing need happen.
CHECK_DEADLOCK FALSE
