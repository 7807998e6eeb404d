SPECIFICATION Spec
CONSTANTS
    Execution = {w1, w2}
    NodeRows = {}
INVARIANT NoneMissed
INVARIANT FinalOnce
INVARIANT CompletedHaveAverage
