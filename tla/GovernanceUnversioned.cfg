CONSTANTS
    Turns = {t1}
    Web = web
    Runs = {}
    Versioned = FALSE
    ContractInRow = TRUE
    Crashes = FALSE
    Failures = FALSE
    Scores <- PoorFairGood
    Clicks = {}
    Policies <- Outcomes
    TypedDecisions <- OnlyScores
    MinRewrite = 2
    MinDisable = 2
    DisableBelow = 25
    RewriteBelow = 55
    MinPass = 70
    EvidenceLimit = 20
    HistoryLimit = 2
    MaxExecs = 5
    MaxEvents = 5
    MaxContents = 8
    MaxWindows = 0
SPECIFICATION Spec
INVARIANT WindowsAreResolved
INVARIANT RollbackRestores
INVARIANT ObservingTheRewrite
CHECK_DEADLOCK FALSE
