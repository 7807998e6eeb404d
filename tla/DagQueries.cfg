SPECIFICATION Spec

CONSTANTS
    a = a
    b = b
    c = c
    d = d
    Node <- FourNodes
    Graphs <- AllGraphs
    Probes <- OneProbe
    None = None

INVARIANT LevelsAreForced
INVARIANT CycleIsReal
INVARIANT VerdictIsRight
INVARIANT RebuildEnds
INVARIANT CriticalPathIsLongest

\* A question stops when it has its answer.
CHECK_DEADLOCK FALSE
