CONSTANTS
    Turns = {t1}
    Web = web
    Runs = {c1}
    Evals = {c1}
    Attempts = {a1}
    Apart = TRUE
    Versioned = TRUE
    ContractInRow = FALSE
    Crashes = FALSE
    Failures = FALSE
    Scores <- Fair
    Clicks <- DownOnly
    Policies <- Regression
    TypedDecisions <- OnlyScores
    MinRewrite = 1
    MinDisable = 2
    DisableBelow = 25
    RewriteBelow = 55
    MinPass = 70
    EvidenceLimit = 20
    HistoryLimit = 20
    MaxExecs = 2
    MaxEvents = 3
    MaxContents = 40
    MaxWindows = 1
    MaxBodies = 40
    MaxExperiments = 2
SPECIFICATION WritersSpec
INVARIANT OneHistory
INVARIANT ObservedIsLive
INVARIANT LiveIsStored
INVARIANT PromotionsReplaceTheirParent
INVARIANT LiveCandidatesArePromoted
PROPERTY KeepsExperimentLifecycles
CHECK_DEADLOCK FALSE
