CONSTANTS
    Workers = {w1, w2}
    Plan <- TwoPlans
    Limit = 2
    LeaseTime = 1
    Cooperative = TRUE
    MaxTime = 2
    MaxCrashes = 1
SPECIFICATION Spec
INVARIANT ResultsCountOnce
INVARIANT LeaseIsExclusive
CHECK_DEADLOCK FALSE
