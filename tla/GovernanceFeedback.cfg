CONSTANTS
    Turns = {t1}
    Web = web
    Runs = {}
    Versioned = TRUE
    ContractInRow = FALSE
    Crashes = FALSE
    Failures = FALSE
    Scores <- PoorFairGood
    Clicks <- Clickable
    Policies <- Outcomes
    TypedDecisions <- OnlyScores
    MinRewrite = 2
    MinDisable = 2
    DisableBelow = 25
    RewriteBelow = 55
    MinPass = 70
    EvidenceLimit = 20
    HistoryLimit = 20
    MaxExecs = 3
    MaxEvents = 4
    MaxContents = 8
    MaxWindows = 0
SPECIFICATION FairSpec
INVARIANT RegistryAgrees
INVARIANT ChangesAreRecorded
PROPERTY NeverOnOneExecution
PROPERTY EveryoneFinishes
CHECK_DEADLOCK FALSE
