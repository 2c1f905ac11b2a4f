CONSTANTS
    Turns = {t1}
    Web = web
    Runs = {c1}
    Evals = {c1}
    Attempts = {a1}
    Apart = FALSE
    Versioned = TRUE
    ContractInRow = FALSE
    Crashes = FALSE
    Failures = FALSE
    Scores <- PoorFair
    Clicks = {}
    Policies <- Quietly
    TypedDecisions <- OnlyScores
    MinRewrite = 1
    MinDisable = 1
    DisableBelow = 25
    RewriteBelow = 55
    MinPass = 70
    EvidenceLimit = 20
    HistoryLimit = 20
    MaxExecs = 2
    MaxEvents = 3
    MaxContents = 20
    MaxWindows = 0
    MaxBodies = 3
    MaxExperiments = 1
SPECIFICATION WritersSpec
PROPERTY DisabledIsPreserved
CHECK_DEADLOCK FALSE
