SPECIFICATION Spec
CONSTANTS
    t1 = t1
    t2 = t2
    tool = tool
    op = op
    main = main
    Tool = tool
    Operators = {op}
    Commands <- JustLook
    MaxServices = 2
    Deliverers = {t1}
    Main = main
    MaxCommits = 2
    Task = t1
    Stored = ""
    Fitting <- TwoSquads
    MaxBranches = 2
    MaxRounds = 3
    TokenBudget = 8
    CallBudget = 2
    ManifestSize = 1
    Execute = TRUE
    Offered <- AllTools
    Tokens <- One
    MaxCalls = 2
    MaxTools = 2
INVARIANT SynthesisIsOfAccepted
CHECK_DEADLOCK FALSE
