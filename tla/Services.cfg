SPECIFICATION MCSpec
CONSTANTS
    Modes = {"commands", "lsp", "tokens", "chain"}
    Main = Main
    c1 = c1
    c2 = c2
    t1 = t1
    t2 = t2
    Tools = {t1, t2}
    Docs = {"a"}
    MaxCalls = 3
    Calls = {c1, c2}
    Arguments <- MCArguments
    Privileges <- MCPrivileges
    Runners = {"host", "container"}
    HostTimeout = FALSE
    Procs = {"p", "q"}
    Threads <- MCThreads
    Clients <- MCClients
    MaxTokens = 2
    MaxKills = 1
INVARIANTS
    CommandsCleanUp
    RequestsMatched
    ServerSeesDisk
    TokensUsable
PROPERTIES
    EveryCallEnds
    ChatEnds
CHECK_DEADLOCK FALSE
