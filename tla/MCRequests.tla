----------------------------- MODULE MCRequests -----------------------------
(***************************************************************************)
(* `csw run' from end to end, but for what happens in its session: the     *)
(* configuration, the start, the two ways a conversation is compacted, the *)
(* requests and replies of the providers, whole and streamed, and what the *)
(* end of runs does to the repository they share.  These meet in values    *)
(* the bounds below stand for, so each runs alone: `mode' is chosen once   *)
(* and says which.                                                         *)
(***************************************************************************)
EXTENDS Compaction, StepCompaction, RunStart, ProviderReplies, WorktreeFinalize, TLC

CONSTANTS Modes, s1, s2
VARIABLE mode

-----------------------------------------------------------------------------
(* Compaction by steps: four rounds of tools over two files.               *)

Call(tool, file, out) == [tool |-> tool, file |-> file, out |-> out]
MCRounds == {
  <<Call("vfsRead", 1, 2)>>, <<Call("vfsWrite", 2, 0), Call("vfsRead", 1, 1)>>,
  <<Call("todoWrite", 0, 1), Call("runBash", 0, 3)>>,
  <<Call("vfsGrep", 0, 1), Call("vfsGrep", 0, 1)>> }
MCContents == {0 - 1, 3}

ASSUME MCStepAssumption == StepAssumption

-----------------------------------------------------------------------------
(* The providers: replies, refusals and failures of every kind.            *)

OnePart(k, id) == [is |-> k, id |-> <<id>>, good |-> TRUE]
MCReplies == {<<OnePart("text", "t")>>, <<OnePart("think", "h"), OnePart("call", "c")>>,
   <<OnePart("text", "t"), OnePart("call", "c"), [OnePart("call", "d") EXCEPT !.good = FALSE]>>,
   <<OnePart("think", "h")>>}
MCSettings == {[thinking |-> "", temperature |-> TRUE, topP |-> TRUE, max |-> 0],
   [thinking |-> "low", temperature |-> FALSE, topP |-> TRUE, max |-> 1000],
   [thinking |-> "xhigh", temperature |-> FALSE, topP |-> FALSE, max |-> 9000]}
MCFailures == {[kind |-> k, notFound |-> n, temporary |-> FALSE] : k \in {"dns"}, n \in BOOLEAN}
   \cup {[kind |-> k, notFound |-> FALSE, temporary |-> FALSE] : k \in {"eof", "net", "other"}}
NoHeaders == [retryAfter |-> 0, primaryUsed |-> 0, secondaryUsed |-> 0, primaryReset |-> 0, secondaryReset |-> 0, active |-> ""]
NoBody == [parses |-> TRUE, message |-> "", type |-> "", code |-> 0, resetAt |-> 0, resetsIn |-> 0]
Refusal(by, code, headers, body, ends) ==
    [by |-> by, status |-> code, headers |-> headers, body |-> body, ends |-> ends]
MCRefusals == 
   {Refusal(by, s, NoHeaders, NoBody, 0) : by \in {"openai", "anthropic"}, s \in {401, 400, 503, 418}}
   \cup {Refusal(by, 429, [NoHeaders EXCEPT !.retryAfter = 5], NoBody, 5) : by \in {"openai", "anthropic", "ollama", "responses", "codex", "jetbrains"}}
   \cup {Refusal("openai", 400, NoHeaders, [NoBody EXCEPT !.message = "available context size"], 0),
         Refusal("anthropic", 400, NoHeaders, [NoBody EXCEPT !.message = "token limit"], 0),
         Refusal("openai", 429, [NoHeaders EXCEPT !.retryAfter = 5], [NoBody EXCEPT !.message = "usage limit", !.resetAt = 90], 90),
         Refusal("openai", 429, [NoHeaders EXCEPT !.retryAfter = -1], [NoBody EXCEPT !.code = 1308, !.resetAt = 90], 90)}
   \cup {Refusal("codex", 429, [NoHeaders EXCEPT !.retryAfter = 5, !.primaryUsed = 100, !.primaryReset = 60, !.secondaryReset = 900],
             [NoBody EXCEPT !.type = "usage_limit_reached", !.resetsIn = 60], 60),
         Refusal("codex", 429, [NoHeaders EXCEPT !.primaryUsed = 100, !.primaryReset = 60, !.secondaryUsed = 100, !.secondaryReset = 900],
             [NoBody EXCEPT !.parses = FALSE], 900),
         Refusal("responses", 429, [NoHeaders EXCEPT !.retryAfter = 5], [NoBody EXCEPT !.type = "usage_limit_reached", !.resetsIn = 60], 60)}
Event(t, c) == [type |-> t, code |-> c]
MCStreamErrors == {Event("service_unavailable_error", "server_is_overloaded"), Event("server_error", "server_error"), Event("incomplete", "max_output_tokens"), Event("x", "context_length_exceeded")}
MCToolNames == {<<1, 2>>, <<2, 1>>}

ASSUME MCWireAssumption == WireAssumption

Said(k, id) == [is |-> k, id |-> id]
MCScripts == {<<Said("think","h"),Said("text","t1"),Said("text","t2")>>, <<Said("text","t"),Said("call","c"),Said("call","d")>>, <<Said("think","h"), Said("call","c")>>}

ASSUME MCStreamAssumption == StreamAssumption

-----------------------------------------------------------------------------
(* The configuration: the defaults, and what users and projects put over them. *)

PromptPart(n, t) == [order |-> n, kind |-> "system", tag |-> t]
ToolFile(t, k) == [tool |-> t, kind |-> k]
NoSource == [global |-> NoParameters, legacy |-> NoParameters, select |-> <<>>, tags |-> <<>>,
          providers |-> <<>>, aliases |-> <<>>, files |-> <<>>, roles |-> <<>>, tools |-> <<>>,
          broken |-> FALSE, missing |-> FALSE]
RoleOf(m, a, h, ps) == [model |-> m, aliases |-> a, hidden |-> h, prompts |-> ps]

Defaults ==
    [NoSource EXCEPT
        !.tools = ToolFile("read", "schema") :> "schema" @@ ToolFile("read", "text") :> "text",
        !.roles = "all" :> [NoRoleConfig EXCEPT !.prompts =
                                PromptPart(10, "all") :> "rules" @@ PromptPart(20, "all") :> "style"
                                @@ PromptPart(10, "gpt") :> "gpt rules"]
                  @@ "developer" :> RoleOf("", {"dev"}, <<>>, PromptPart(20, "all") :> "own style"
                                                            @@ PromptPart(30, "opus") :> "never")]
UserSource == [NoSource EXCEPT
            !.global = [NoParameters EXCEPT !.worktree = "user", !.merge = TRUE],
            !.roles = "developer" :> RoleOf("m", {}, <<"*.key">>, PromptPart(20, "all") :> ""
                                                               @@ PromptPart(40, "gpt") :> "more")]
ProjectSource == [NoSource EXCEPT
               !.legacy = [NoParameters EXCEPT !.worktree = "old"],
               !.global = [NoParameters EXCEPT !.model = "m"],
               !.tools = ToolFile("read", "text") :> "mine",
               !.roles = "developer" :> RoleOf("", {"dev"}, <<>>, PromptPart(20, "all") :> "project")
                         @@ "all" :> [NoRoleConfig EXCEPT !.prompts = PromptPart(10, "all") :> ""]]
OwnRole == [NoSource EXCEPT !.roles = "custom" :> RoleOf("", {"dev"}, <<>>, PromptPart(10, "all") :> "custom")]
BrokenSource == [NoSource EXCEPT !.broken = TRUE]
MissingSource == [NoSource EXCEPT !.missing = TRUE]

MCLayers == UNION {[1..n -> {Defaults, UserSource, ProjectSource, OwnRole, BrokenSource, MissingSource}] : n \in 0..3}

-----------------------------------------------------------------------------
(* `csw run': flags, slash commands, tasks and configurations.             *)

MCLines ==
    {[model |-> m[1], role |-> m[2], worktree |-> w, merge |-> g, noMerge |-> n, noCommit |-> c,
      on |-> o = "on", off |-> o = "off"] :
        m \in {<<"", "">>, <<"flag", "planner">>}, w \in {"", "flag"}, g \in {"", "on", "off"},
        n \in BOOLEAN, c \in BOOLEAN, o \in {"", "on", "off"}}
MCCommands ==
    {NoCommand,
     [NoCommand EXCEPT !.name = "test", !.shell = TRUE, !.model = "command", !.role = "planner"],
     [NoCommand EXCEPT !.name = "ship", !.params = [NoParameters EXCEPT !.merge = TRUE,
                       !.worktree = "command", !.enabled = TRUE]],
     [NoCommand EXCEPT !.name = "look", !.branchless = TRUE, !.params = [NoParameters EXCEPT !.noCommit = TRUE]]}
MCRunTasks ==
    {NoTask, [name |-> "t", role |-> "developer", branch |-> "task", noCommit |-> FALSE],
             [name |-> "t", role |-> "", branch |-> "", noCommit |-> FALSE]}
MCRoleModels == [developer |-> "", planner |-> "role"]
Src(g, l, b) == [global |-> g, legacy |-> l, select |-> <<>>, tags |-> <<>>, providers |-> <<>>,
          aliases |-> <<>>, files |-> <<>>, roles |-> <<>>, tools |-> <<>>, broken |-> b, missing |-> FALSE]
MCTrees ==
    {<<>>, <<Src(NoParameters, NoParameters, TRUE)>>,
     <<Src([NoParameters EXCEPT !.model = "config", !.image = "image"], NoParameters, FALSE),
       Src([NoParameters EXCEPT !.merge = TRUE, !.worktree = "config"], [NoParameters EXCEPT !.worktree = "old"], FALSE)>>,
     <<Src([NoParameters EXCEPT !.image = "image", !.enabled = TRUE], NoParameters, FALSE)>>}

MCPaths == MCLayers \cup MCTrees

-----------------------------------------------------------------------------
(* The end of runs: which sessions, and how the session of each merges.    *)

\* "together": two sessions that finalise together, each merging in a way of its own,
\* while a process is killed, with the bounds of the configuration.
MCRebaseIn == (s1 :> "worktree" @@ s2 :> "branches")

\* "beside": one session merges, the other, which may be run twice, does not.
Beside == INSTANCE WorktreeFinalize WITH
    Merging <- {s1}, Edits <- {}, RebaseIn <- (s1 :> "checkout" @@ s2 :> "branches"),
    MaxRuns <- 2, MaxAttempts <- 1, MaxCrashes <- 0

\* "again": the two ways `csw run' itself merges, one at a time, the first branch run
\* again, while the user edits and a process is killed.
Again == INSTANCE WorktreeFinalize WITH
    Merging <- {s1, s2}, MaxFinalizing <- 1, Edits <- {"edit"},
    RebaseIn <- (s1 :> "branches" @@ s2 :> "checkout"),
    MaxRuns <- 2, MaxAttempts <- 2, MaxCrashes <- 1

\* What two runs of `csw run' in one repository do.
MCDefault == (s1 :> "branches" @@ s2 :> "branches")

-----------------------------------------------------------------------------
(* One of them runs; the variables of the others hold nothing.             *)

NoMessages == messages = <<>> /\ stage = "open" /\ appended = 0 /\ prompts = {}
NoSteps == history = <<>> /\ disk = <<>> /\ calls = 0 /\ given = 0 /\ before = <<>>
NoWire == /\ provider = "" /\ setting = <<>> /\ chat = <<>> /\ order = <<>> /\ wire = <<>> /\ phase = "done"
          /\ error = Error("none") /\ due = 0 /\ said = {} /\ rounds = 0
NoStream == /\ client = "" /\ script = <<>> /\ at = 0 /\ garbled = {} /\ begun = <<>> /\ thinking = <<>>
            /\ usage = 0 /\ yielded = <<>> /\ open = FALSE
NoLoad == sources = <<>> /\ read = <<>> /\ config = Nothing /\ loading = "failed"
NotRun == /\ step = "load" /\ files = Nothing /\ line = 0 /\ command = NoCommand /\ task = NoTask /\ p = NoRun
          /\ status = "created" /\ container = "none" /\ cleanup = FALSE /\ session = <<>> /\ merged = FALSE
          /\ failed = FALSE

MCInit ==
    /\ mode \in Modes
    /\ IF mode = "compaction" THEN Init ELSE NoMessages
    /\ IF mode = "steps" THEN StepsInit ELSE NoSteps
    /\ IF mode = "wire" THEN WireInit ELSE NoWire
    /\ IF mode = "stream" THEN StreamInit ELSE NoStream
    /\ FinalizeInit
    /\ CASE mode = "config" -> ConfigInit /\ NotRun
         [] mode = "run" -> (\E path \in MCTrees : ConfigFrom(path)) /\ RunInit
         [] OTHER -> NoLoad /\ NotRun

MCNext ==
    /\ UNCHANGED mode
    /\ IF mode = "compaction" THEN Next ELSE UNCHANGED vars
    /\ IF mode = "steps" THEN StepsNext ELSE UNCHANGED stepsVars
    /\ IF mode = "wire" THEN WireNext ELSE UNCHANGED wireVars
    /\ IF mode = "stream" THEN StreamNext ELSE UNCHANGED streamVars
    /\ CASE mode = "config" -> ConfigNext /\ UNCHANGED rvars
         [] mode = "run" -> RunNext
         [] OTHER -> UNCHANGED <<cvars, rvars>>
    /\ CASE mode = "together" -> FinalizeNext
         [] mode = "beside" -> Beside!FinalizeNext
         [] mode = "again" -> Again!FinalizeNext /\ runs'[s2] <= 1
         [] OTHER -> UNCHANGED finalizeVars

all == <<mode, vars, stepsVars, wireVars, streamVars, cvars, rvars, finalizeVars>>
MCSpec == MCInit /\ [][MCNext]_all
=============================================================================
