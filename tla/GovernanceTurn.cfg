CONSTANTS
    Turns = {t1}
    Web = web
    Runs = {}
    Versioned = TRUE
    ContractInRow = FALSE
    Crashes = FALSE
    Failures = FALSE
    Scores <- PoorFairGood
    Clicks = {}
    Policies <- Outcomes
    TypedDecisions <- OnlyScores
    MinRewrite = 2
    MinDisable = 2
    DisableBelow = 25
    RewriteBelow = 55
    MinPass = 70
    EvidenceLimit = 20
    HistoryLimit = 20
    MaxExecs = 5
    MaxEvents = 5
    MaxContents = 8
    MaxWindows = 0
SPECIFICATION Spec
INVARIANT ConfirmationIsEarned
INVARIANT OneRewriteAtATime
INVARIANT EvidenceFollowsRewrite
INVARIANT DigestIsOfWhatRan
CHECK_DEADLOCK FALSE
