\* Two deliverers in one working tree.  One property at a time: both are
\* violated (swap the comments).
SPECIFICATION Spec
CONSTANTS
    t1 = t1
    t2 = t2
    tool = tool
    op = op
    main = main
    Tool = tool
    Operators = {op}
    Commands <- JustLook
    MaxServices = 2
    Deliverers = {t1, t2}
    Main = main
    MaxCommits = 2
    Task = t1
    Stored = ""
    Fitting <- TwoSquads
    MaxBranches = 2
    MaxRounds = 3
    TokenBudget = 8
    CallBudget = 2
    ManifestSize = 1
    Execute = TRUE
    Offered <- OnlyDeliver
    Tokens <- One
    MaxCalls = 2
    MaxTools = 2
INVARIANT BranchIsItsOwn
\* INVARIANT DeliveredOnItsBranch
CHECK_DEADLOCK FALSE
