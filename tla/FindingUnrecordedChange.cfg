CONSTANTS
    Turns = {t1}
    Web = web
    Runs = {}
    Versioned = TRUE
    ContractInRow = FALSE
    Crashes = TRUE
    Failures = FALSE
    Scores <- PoorFairGood
    Clicks = {}
    Policies <- Outcomes
    TypedDecisions <- OnlyScores
    MinRewrite = 2
    MinDisable = 2
    DisableBelow = 25
    RewriteBelow = 55
    MinPass = 70
    EvidenceLimit = 20
    HistoryLimit = 20
    MaxExecs = 3
    MaxEvents = 3
    MaxContents = 5
    MaxWindows = 0
SPECIFICATION Spec
INVARIANT ChangesAreRecorded
CHECK_DEADLOCK FALSE
