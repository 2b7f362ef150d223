SPECIFICATION MCSpec
CONSTANTS
    Modes = {"wire"}
    Keep = 2
    MaxAppended = 7
    NumFiles = 2
    FileContents <- MCContents
    Rounds <- MCRounds
    Limit = 16
    ClipTo = 2
    MaxCalls = 4
    MaxPrompts = 2
    Names = {"t", "h", "c", "d"}
    Replies <- MCReplies
    Refusals <- MCRefusals
    Failures <- MCFailures
    StreamErrors <- MCStreamErrors
    Settings <- MCSettings
    ToolNames <- MCToolNames
    MaxRounds = 3
    Scripts <- MCScripts
    Trees <- MCPaths
    Tags = {"gpt"}
    CommandLines <- MCLines
    Commands <- MCCommands
    RunTasks <- MCRunTasks
    RoleModels <- MCRoleModels
    s1 = s1
    s2 = s2
    RebaseIn <- MCRebaseIn
    Sessions = {s1, s2}
    Merging = {s1, s2}
    Edits = {}
    MaxRuns = 1
    MaxAttempts = 1
    MaxCrashes = 1
    MaxFinalizing = 2
INVARIANT ResultsReachProvider
CHECK_DEADLOCK FALSE
