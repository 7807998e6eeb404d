SPECIFICATION FairSpec
CONSTANTS
    Session = {s1, s2}
    Execution = {w1, n1}
    NodeRows = {n1}
    MaxCalls = 2
    MaxRetry = 1
INVARIANT TypeOK
INVARIANT WorkflowTimesFit
INVARIANT RefreshIsCommitted
PROPERTY CallsEnd
PROPERTY FreshCallsAreSteps
\* Callers may stop calling.
CHECK_DEADLOCK FALSE
