CONSTANTS
    Workers = {w1, w2}
    Plan <- OneHorizon
    Limit = 2
    LeaseTime = 1
    Cooperative = FALSE
    MaxTime = 0
    MaxCrashes = 0
SPECIFICATION Spec
INVARIANT ResultsCountOnce
CHECK_DEADLOCK FALSE
