CONSTANTS
    Turns = {t1}
    Web = web
    Runs = {}
    Versioned = FALSE
    ContractInRow = TRUE
    Crashes = TRUE
    Failures = FALSE
    Scores <- PoorFairGood
    Clicks <- Clickable
    Policies <- OnlyRewrites
    TypedDecisions <- OnlyScores
    MinRewrite = 2
    MinDisable = 2
    DisableBelow = 25
    RewriteBelow = 55
    MinPass = 70
    EvidenceLimit = 20
    HistoryLimit = 20
    MaxExecs = 3
    MaxEvents = 4
    MaxContents = 8
    MaxWindows = 0
SPECIFICATION Spec
INVARIANT RegistryAgrees
CHECK_DEADLOCK FALSE
