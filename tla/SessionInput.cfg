SPECIFICATION MCSpec
CONSTANTS
    p1 = p1
    p2 = p2
    c1 = c1
    c2 = c2
    l1 = l1
    l2 = l2
    l3 = l3
    NoLoop = NoLoop
    Prompts <- TwoPrompts
    Clients <- TwoClients
    Loops <- ThreeLoops
    Ops <- AllOps
    NModels = 3
    MaxRetries = 1
    InitialDelay = 1
    MaxDelay = 1
    SwitchDelays = {0}
    UsageBuffer = 1
    Resets = {1, 2}
    Compactable = {2}
SYMMETRY Symmetry
INVARIANTS
    TypeOK
    AtMostOneLoop
    SilentOnlyWhenSuspended
    NoPromptLeftUnanswered
    RoundRobin
    AllAskedBeforeGivingUp
    CancelEndsSoon
PROPERTIES
    ToolCallsAnsweredFirst
    ImplementsMailbox
    WaitReachesAReset
CHECK_DEADLOCK FALSE
