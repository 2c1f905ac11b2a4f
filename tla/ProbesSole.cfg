CONSTANTS
    Workers = {w1}
    Plan <- MixedPlans
    Limit = 2
    LeaseTime = 1
    Cooperative = FALSE
    MaxTime = 1
    MaxCrashes = 0
SPECIFICATION FairSpec
INVARIANT AttemptsAreLimited
INVARIANT EvaluatedHasResults
PROPERTY KeepsLifecycle
PROPERTY EveryBindingCloses
CHECK_DEADLOCK FALSE
