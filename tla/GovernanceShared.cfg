CONSTANTS
    Turns = {t1}
    Web = web
    Runs = {r1}
    Versioned = TRUE
    ContractInRow = FALSE
    Crashes = TRUE
    Failures = TRUE
    Scores <- PoorFair
    Clicks = {}
    Policies <- Regressions
    TypedDecisions <- OnlyScores
    MinRewrite = 1
    MinDisable = 2
    DisableBelow = 25
    RewriteBelow = 55
    MinPass = 70
    EvidenceLimit = 20
    HistoryLimit = 20
    MaxExecs = 1
    MaxEvents = 2
    MaxContents = 4
    MaxWindows = 2
SPECIFICATION Spec
INVARIANT TypeOK
INVARIANT RollbackIsFromHistory
CHECK_DEADLOCK FALSE
