SPECIFICATION MCSpec
CONSTANTS
    Modes = {"files"}
    Main = Main
    Workers = {w1, w2}
    Batches <- MCBatches
    FilesOf <- MCFilesOf
    MaxRounds = 3
    MaxCrashes = 1
    w1 = w1
    w2 = w2
    p1 = p1
    p2 = p2
    top = top
    sub = sub
    Root = Root
    Procs = {p1, p2}
    Tasks = {top, sub}
    ParentOf <- MCParentOf
    Existing = {top}
    Branchless = {sub}
    Notes = {"a", "b"}
    Statuses = {"created", "merged"}
    MaxOps = 3
    MaxKills = 1
    Callers = {"c", "d", "e"}
    Keys = {"s", "t"}
    Threads = {w1, w2}
    Requests <- MCRequests
    Disks <- MCDisks
    Roles <- MCRoles
    HideChoices <- MCHide
    ShadowChoices <- MCShadow
    MaxWriters = 3
PROPERTY StaleEditsRejected
CHECK_DEADLOCK FALSE
