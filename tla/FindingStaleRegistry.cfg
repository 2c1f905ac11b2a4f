CONSTANTS
    Turns = {t1}
    Web = web
    Runs = {r1}
    Versioned = TRUE
    ContractInRow = FALSE
    Crashes = FALSE
    Failures = FALSE
    Scores <- PoorFairGood
    Clicks = {}
    Policies <- OnlyRewrites
    TypedDecisions <- OnlyScores
    MinRewrite = 2
    MinDisable = 2
    DisableBelow = 25
    RewriteBelow = 55
    MinPass = 70
    EvidenceLimit = 20
    HistoryLimit = 20
    MaxExecs = 1
    MaxEvents = 3
    MaxContents = 5
    MaxWindows = 2
SPECIFICATION Spec
INVARIANT RegistryAgrees
CHECK_DEADLOCK FALSE
