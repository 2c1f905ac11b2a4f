CONSTANTS
    Workers = {w1}
    Plan <- OneHorizon
    Limit = 2
    LeaseTime = 1
    Cooperative = FALSE
    MaxTime = 1
    MaxCrashes = 1
SPECIFICATION FairSpec
PROPERTY EveryBindingCloses
CHECK_DEADLOCK FALSE
