SPECIFICATION LiveSpec
CONSTANTS
    p1 = p1
    p2 = p2
    c1 = c1
    c2 = c2
    l1 = l1
    l2 = l2
    l3 = l3
    NoLoop = NoLoop
    Prompts <- TwoPrompts
    Clients <- OneClient
    Loops <- ThreeLoops
    Ops <- UsedOps
CHECK_DEADLOCK FALSE
PROPERTIES CancelledLoopStops QueuedPromptReachesRun
