SPECIFICATION FairSpec

CONSTANTS
    a = a
    b = b
    c = c
    d = d
    Node <- ThreeNodes
    Conditions <- TwoConditions
    MaxRetries <- NoRetries
    EditKinds <- AllEdits
    MaxEdits = 2
    InitialNodes <- ThirdMayComeLate
    InitialEdges <- ThreeNodeGraphs

INVARIANT PredecessorsFirst
INVARIANT CancelStopsAtLevel
INVARIANT RoutedAroundNeverRuns
INVARIANT InputsComplete
INVARIANT CompletedIsTrue
PROPERTY ImplementsDataflow
PROPERTY ExecuteReturns

\* Once execute() is over and the session closed nothing need happen.
CHECK_DEADLOCK FALSE
