------------------------------ MODULE RunStart ------------------------------
(* One `csw run' from its command line to its end: cmd/csw/run.go and         *)
(* pkg/system/run.go, bootstrap.go, runtime.go. The flags go over the         *)
(* configuration's parameters, a slash command's frontmatter and the task over*)
(* those; then the configuration is loaded again and what came of the first   *)
(* part is merged over it; a system is built, the session is run, its work is *)
(* finalised, and the task gets its final status. Any step may return early.  *)
(*                                                                            *)
(* A string parameter is named for whoever gave it, "" if nobody did.         *)
EXTENDS Config

CONSTANTS CommandLines,  \* the flags, and the task to run or none
          Commands,      \* the slash commands, with their frontmatter, or none
          RunTasks,      \* the task's fields, as in its task.yml
          RoleModels     \* the roles there are, each with its model or ""

\* What the fields hold, of the configuration's sources and of the command line.
Parameters == [provider : STRING, role : STRING, model : STRING, worktree : STRING,
               merge : BOOLEAN, noCommit : BOOLEAN, enabled : BOOLEAN, image : STRING,
               threads : Nat, allow : Seq(STRING)]

ASSUME RunAssumption ==
    /\ \A s \in Sources : s.global \in Parameters /\ s.legacy \in Parameters
    /\ \A l \in CommandLines :
           l \in [model : STRING, role : STRING, worktree : STRING, merge : {"", "on", "off"},
                  noMerge : BOOLEAN, noCommit : BOOLEAN, on : BOOLEAN, off : BOOLEAN]
    /\ \A c \in Commands : c.params \in Parameters

VARIABLES step,        \* what RunCommand does next
          files,       \* the sources on disk, merged: what each load returns
          line,        \* the command line
          command,     \* the slash command invoked, NoCommand for a plain prompt
          task,        \* the task's fields
          p,           \* params.Config.GlobalConfig.Parameters
          status,      \* the status in task.yml
          container,   \* the container: "none", "lazy", "running" or "closed"
          cleanup,     \* RunCommand has deferred Runtime.Cleanup
          session,     \* role, model, worktree and merge as the session got them
          merged,      \* the work was merged
          failed       \* RunCommand returns an error

rvars == <<step, files, line, command, task, p, status, container, cleanup, session, merged, failed>>
inputs == <<files, line, command, task>>

NoCommand == [name |-> "", model |-> "", role |-> "", params |-> NoParameters,
              branchless |-> FALSE, shell |-> FALSE]
NoTask == [name |-> "", role |-> "", branch |-> "", noCommit |-> FALSE]
InTaskMode == task # NoTask

\* The parameters of a run: a configuration's, and fields no configuration file sets.
NoRun == [provider |-> "", role |-> "", model |-> "", worktree |-> "", merge |-> FALSE,
          noCommit |-> FALSE, enabled |-> FALSE, image |-> "", threads |-> 0, allow |-> <<>>,
          chosen |-> "", chosenRole |-> FALSE, chosenModel |-> FALSE, noMerge |-> FALSE,
          on |-> FALSE, off |-> FALSE]
Fresh(c) ==
    [f \in DOMAIN NoRun |-> IF f \in DOMAIN NoParameters THEN c.parameters[f] ELSE NoRun[f]]

(***************************************************************************)
(* The command line over the configuration. The role is never one of the   *)
(* configuration: it has none here, and --role has a default.              *)
(***************************************************************************)
\* Mistake: the configuration's worktree comes before --worktree.
ApplyFlagsLast(q, f) ==
    [q EXCEPT !.model = Or(f.model, @), !.chosenModel = f.model # "",
              !.chosen = Or(f.role, "developer"), !.chosenRole = f.role # "",
              !.worktree = Or(@, f.worktree),
              !.merge = IF f.merge = "" THEN @ ELSE f.merge = "on",
              !.noCommit = @ \/ f.noCommit,
              !.on = @ \/ f.on, !.off = @ \/ f.off, !.noMerge = f.noMerge]

ApplyFlags(q, f) ==
    [q EXCEPT !.model = Or(f.model, @), !.chosenModel = f.model # "",
              !.chosen = Or(f.role, "developer"), !.chosenRole = f.role # "",
              !.worktree = Or(f.worktree, @),
              !.merge = IF f.merge = "" THEN @ ELSE f.merge = "on",
              !.noCommit = @ \/ f.noCommit,
              !.on = @ \/ f.on, !.off = @ \/ f.off, !.noMerge = f.noMerge]

Flags ==
    /\ step = "flags"
    /\ p' = ApplyFlags(Fresh(files), line)
    /\ step' = "populate"
    /\ UNCHANGED <<inputs, status, container, cleanup, session, merged, failed>>

\* The deferred cleanup closes the container.
Return ==
    /\ step' = "returned"
    /\ container' = IF cleanup /\ container # "none" THEN "closed" ELSE container

Fails(at) ==
    /\ step \in at
    /\ failed' = TRUE
    /\ Return
    /\ UNCHANGED <<inputs, p, status, cleanup, session, merged>>

(***************************************************************************)
(* populateRunExecutionParams.                                             *)
(***************************************************************************)
WithoutCommit(q) == IF q.noCommit THEN [q EXCEPT !.worktree = "", !.merge = FALSE] ELSE q
WithoutMerge(q) == IF q.noMerge THEN [q EXCEPT !.merge = FALSE] ELSE q

\* The frontmatter's csw.parameters go over the flags; a container it enables
\* takes --container-disabled back.
WithParameters(q, c) ==
    LET m == MergeFrom(q, c.params)
    IN [m EXCEPT !.off = @ /\ ~c.params.enabled]

WithRole(q, role) == IF q.chosenRole \/ role = "" THEN q ELSE [q EXCEPT !.chosen = role]
WithModel(q, c) == IF q.chosenModel \/ c.model = "" THEN q ELSE [q EXCEPT !.model = c.model]

\* shouldDisableTaskWorktreeForRun.
Branchless(c, t) == c.branchless \/ t.noCommit \/ t.branch = ""

WithTask(q, c, t) ==
    IF Branchless(c, t) \/ q.noCommit THEN [q EXCEPT !.worktree = "", !.merge = FALSE]
    ELSE [q EXCEPT !.worktree = Or(@, t.branch)]

\* What runs in a container: --container-disabled stops only what the
\* configuration enabled of its own accord, and that not here but in BuildSystem.
Requested(q, c) ==
    IF q.off THEN q.enabled
    ELSE q.enabled \/ q.on \/ c.params.enabled \/ (c.name # "" /\ c.shell)

Populated(q, c) ==
    LET enabled == [q EXCEPT !.enabled = @ \/ q.on]
        commanded == WithoutCommit(WithoutMerge(WithParameters(enabled, c)))
        chosen == WithRole(WithModel(commanded, c), c.role)
    IN [chosen EXCEPT !.enabled = Requested(chosen, c)]

\* An invocation, a file or a value that does not parse; the task is not found.
PopulateFails == Fails({"flags", "populate"})

PopulatePlain ==
    /\ step = "populate" /\ ~InTaskMode
    /\ p' = Populated(p, command)
    /\ step' = "validate"
    /\ UNCHANGED <<inputs, status, container, cleanup, session, merged, failed>>

PopulateTask ==
    /\ step = "populate" /\ InTaskMode
    /\ status' = "running"
    /\ p' = WithTask(WithRole(Populated(p, command), task.role), command, task)
    /\ step' = "validate"
    /\ UNCHANGED <<inputs, container, cleanup, session, merged, failed>>

(***************************************************************************)
(* RunCommand up to the session.                                           *)
(***************************************************************************)
\* validateMergeRunExecution.
Valid(q) == q.merge => ~q.noCommit /\ q.worktree # ""

\* mergeRunExecutionConfig: what was cleared above comes back with the file.
Reloaded(c, q) ==
    [MergeFrom(Fresh(c), q) EXCEPT !.chosen = q.chosen, !.chosenRole = q.chosenRole,
        !.chosenModel = q.chosenModel, !.noMerge = q.noMerge, !.on = q.on, !.off = q.off]

ReloadConfig ==
    /\ step = "validate"
    /\ Valid(WithoutCommit(p))
    /\ p' = Reloaded(files, WithoutCommit(p))
    /\ step' = "build"
    /\ UNCHANGED <<inputs, status, container, cleanup, session, merged, failed>>

\* The parameters are refused, or the files do not load any more.
ReloadFails == Fails({"validate"})

\* Whatever ResolveWorktreeBranchName, PrepareSessionVFS and the rest of
\* BuildSystem fail with; what has been made by then is closed or left behind.
BuildFails == Fails({"build"})

\* ResolveContainerRuntimeConfig.
ContainerEnabled(q) == (q.enabled \/ q.on) /\ ~q.off

\* The worktree's directory and the resolved model are put into a copy of the
\* parameters, so p keeps the model it had, if any.
BuildSystem ==
    /\ step = "build"
    /\ p.chosen \in DOMAIN RoleModels
    /\ ContainerEnabled(p) => p.image # ""
    /\ container' = IF ContainerEnabled(p) THEN "lazy" ELSE "none"
    /\ cleanup' = TRUE
    /\ step' = "render"
    /\ UNCHANGED <<inputs, p, status, session, merged, failed>>

\* The first command that runs in the container starts it.
Starts == container' = IF container = "lazy" THEN "running" ELSE container

\* renderCommandPrompt runs the shell expressions of the command's template.
RenderCommand ==
    /\ step = "render"
    /\ IF command.shell THEN Starts ELSE UNCHANGED container
    /\ step' = "start"
    /\ UNCHANGED <<inputs, p, status, cleanup, session, merged, failed>>

RenderFails == Fails({"render", "start"})

\* StartRunSession: the role's model comes before every other but --model's.
SessionModel(q) ==
    IF ~q.chosenModel /\ RoleModels[q.chosen] # "" THEN RoleModels[q.chosen] ELSE q.model

StartSession ==
    /\ step = "start"
    /\ SessionModel(p) # ""
    /\ session' = [role |-> p.chosen, model |-> SessionModel(p),
                   worktree |-> p.worktree, merge |-> p.merge]
    /\ step' = "session"
    /\ UNCHANGED <<inputs, p, status, container, cleanup, merged, failed>>

(***************************************************************************)
(* The session, and what comes after it.                                   *)
(***************************************************************************)
\* The agent runs a command, or sets the status of its own task.
SessionRunsCommand ==
    /\ step = "session" /\ container = "lazy"
    /\ Starts
    /\ UNCHANGED <<step, inputs, p, status, cleanup, session, merged, failed>>

SessionSetsStatus ==
    /\ step = "session" /\ InTaskMode
    /\ status' = "reported"
    /\ UNCHANGED <<step, inputs, p, container, cleanup, session, merged, failed>>

\* FinalizeWorktreeSession reports what goes wrong and returns no error.
Finalize ==
    /\ step = "session"
    /\ merged' \in IF p.worktree # "" /\ p.merge THEN BOOLEAN ELSE {FALSE}
    /\ step' = "summary"
    /\ UNCHANGED <<inputs, p, status, container, cleanup, session, failed>>

\* EmitSessionSummary returns the session's error, or that of writing the
\* summary; applyCommandTaskMetadata or UpdateTask may fail too.
SummaryFails == Fails({"summary"})

\* resolveTaskFinalStatusForRun.
FinalStatus(q, s) ==
    IF s = "reported" THEN s ELSE IF q.merge THEN "merged" ELSE "completed"

Finish ==
    /\ step = "summary"
    /\ status' = IF InTaskMode THEN FinalStatus(p, status) ELSE status
    /\ Return
    /\ UNCHANGED <<inputs, p, cleanup, session, merged, failed>>

RunInit ==
    /\ ConfigInit
    /\ step = "load"
    /\ files = Nothing
    /\ line \in CommandLines /\ command \in Commands /\ task \in RunTasks
    /\ p = NoRun
    /\ status = "created" /\ container = "none" /\ cleanup = FALSE
    /\ session = <<>> /\ merged = FALSE /\ failed = FALSE

\* CswConfigLoad, at the beginning: both loads read the same files.
Load ==
    /\ step = "load" /\ ConfigNext
    /\ step' = IF loading' = "loaded" THEN "flags" ELSE IF loading' = "failed" THEN "returned" ELSE step
    /\ files' = config'
    /\ failed' = (loading' = "failed")
    /\ UNCHANGED <<line, command, task, p, status, container, cleanup, session, merged>>

RunNext ==
    \/ Load
    \/ /\ \/ Flags \/ PopulateFails \/ PopulatePlain \/ PopulateTask \/ ReloadFails \/ ReloadConfig
          \/ BuildFails \/ BuildSystem \/ RenderCommand \/ RenderFails \/ StartSession
          \/ SessionRunsCommand \/ SessionSetsStatus \/ Finalize \/ SummaryFails \/ Finish
       /\ UNCHANGED cvars

RunSpec == RunInit /\ [][RunNext]_<<cvars, rvars>>

(***************************************************************************)
(* Properties                                                              *)
(***************************************************************************)
\* Whoever may say that nothing is committed, and that the work is merged.
NoCommit == line.noCommit \/ command.params.noCommit \/ files.parameters.noCommit
AskedToMerge == ~line.noMerge /\ ~NoCommit /\ (line.merge = "on" \/ command.params.merge)

\* What of the flags, the command and the task reaches the session, through two loads
\* of the configuration: --role is its role, or else the task's, the command's,
\* "developer"; --worktree is its branch unless the run is not to commit, its task has
\* no branch or the command names one; a run that is not to commit has no branch but
\* the configuration's; and what merges is the flags, unless --no-merge or --no-commit
\* is one of them, the command, or the configuration.  The second load puts the
\* configuration's merging over --no-merge, against what is said of that flag
\* (NoMergeHonoured), and its branch over --no-commit.
SessionAsAsked ==
    session # <<>> =>
        /\ session.role = Or(line.role, Or(task.role, Or(command.role, "developer")))
        /\ (/\ line.worktree # "" /\ command.params.worktree = "" /\ ~NoCommit
            /\ InTaskMode => ~Branchless(command, task)) => session.worktree = line.worktree
        /\ NoCommit => session.worktree = files.parameters.worktree
        /\ session.merge => AskedToMerge \/ files.parameters.merge

\* Wherever RunCommand returns, once the system is built, the container is gone:
\* it may have been started by the command's template, before any session.
ContainerGoneAtReturn == step = "returned" => container # "running"

\* A run that reports success has not left its task "running"; one that fails may
\* leave it so, before its session or after.
SuccessSettlesTask ==
    step = "returned" /\ ~failed /\ InTaskMode => status # "running"

\* The role, the branch and the merging of a run are accounted for; it does not leave
\* its container running, and if it succeeds not its task either (run.go).
RunsAsAsked == SessionAsAsked /\ ContainerGoneAtReturn /\ SuccessSettlesTask

\* "Disable merging after commit, overriding configured defaults" (--no-merge).
NoMergeHonoured == session # <<>> /\ line.noMerge => ~session.merge
=============================================================================
