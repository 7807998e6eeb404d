SPECIFICATION Spec

CONSTANTS
    t = t
    x = x
    y = y
    f = f
    g = g
    v = v
    s1 = s1
    s2 = s2
    Null = Null
    Node <- ThreeNodes
    Foreign <- TwoForeign
    Handle = {}
    TypeOf <- Types
    Bound <- OnlyXBound
    Refs <- SomeRefs
    Defined <- OneDefined
    Gives <- Outputs
    Takes <- Inputs
    Session = {s1, s2}
    Requests <- RequestsOf
    Batches <- SomeBatches
    NewGraphs <- Replacements
    MaxEdits = 2
    MaxServed = 1
    Backends = {"memory", "redis"}
    StartNodes <- FirstNodes
    StartEdges <- FirstEdges

INVARIANT ReplacementSeen
INVARIANT FreshVerdictIsTrue
INVARIANT CrashNeedsRace
PROPERTY PastLookupAnswered

\* Clients may stop sending requests.
CHECK_DEADLOCK FALSE
