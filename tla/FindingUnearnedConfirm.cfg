CONSTANTS
    Turns = {t1}
    Web = web
    Runs = {r1}
    Versioned = TRUE
    ContractInRow = FALSE
    Crashes = FALSE
    Failures = FALSE
    Scores <- PoorFairGood
    Clicks = {}
    Policies <- Outcomes
    TypedDecisions <- OnlyScores
    MinRewrite = 1
    MinDisable = 2
    DisableBelow = 25
    RewriteBelow = 55
    MinPass = 70
    EvidenceLimit = 20
    HistoryLimit = 20
    MaxExecs = 3
    MaxEvents = 4
    MaxContents = 5
    MaxWindows = 2
SPECIFICATION Spec
INVARIANT ConfirmationIsEarned
CHECK_DEADLOCK FALSE
