SPECIFICATION Spec
CONSTANTS
    Call = {c1, c2}
    Extra = {"tool"}
    RetryLimits = {0, 2}
    Timeout = 1
    InitialDelay = 1
    Multiplier = 4
    MaxDelay = 2
    Input <- MCInput
SYMMETRY Symmetry
INVARIANT MetricsTellOutcomes
INVARIANT WithinBudget
INVARIANT OutputIsRight
CHECK_DEADLOCK FALSE
