CONSTANTS
    Runs = {r1, r2}
    Tasks <- OneTask
    Variants <- CandidateAndMutant
    Candidate = "candidate"
    Parent = "parent"
    Mutants = {"mutation"}
    None = none
    Trials = 2
    Required = 1
    FailFast = TRUE
    Evaluators = {"state"}
    MinGrade = 2
    Missing = FALSE
    Outcomes <- AnyOutcome
    MaxCrashes = 1
SPECIFICATION Spec
INVARIANT ValidatedIsEarned
INVARIANT RejectedForCause
INVARIANT StopIsFinal
INVARIANT ReplayAgrees
PROPERTY KeepsExperimentLifecycle
SYMMETRY Symmetry
CHECK_DEADLOCK FALSE
