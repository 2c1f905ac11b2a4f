CONSTANTS
    Turns = {t1, t2}
    Web = web
    Runs = {}
    Versioned = TRUE
    ContractInRow = FALSE
    Crashes = FALSE
    Failures = FALSE
    Scores <- PoorFair
    Clicks = {}
    Policies <- Outcomes
    TypedDecisions <- OnlyScores
    MinRewrite = 1
    MinDisable = 2
    DisableBelow = 25
    RewriteBelow = 55
    MinPass = 70
    EvidenceLimit = 20
    HistoryLimit = 20
    MaxExecs = 4
    MaxEvents = 4
    MaxContents = 8
    MaxWindows = 0
SPECIFICATION Spec
INVARIANT DigestIsOfWhatRan
CHECK_DEADLOCK FALSE
