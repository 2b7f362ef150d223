------------------------------- MODULE Commands -------------------------------
(***************************************************************************)
(* Shell commands of a session: the tool runBash (pkg/tool/run_bash.go)    *)
(* over a runner, which is the host's bash (pkg/runner/bash.go) or a       *)
(* container that is started by the first command that needs it and closed *)
(* at the end of the run (lazy_container.go, container.go).                *)
(*                                                                         *)
(* Tools of one answer run in parallel, and the run may end, after an      *)
(* interrupt, while some of them still wait.  A command is a process of    *)
(* the environment: it exits when it likes, or never, and may leave a      *)
(* child behind that keeps its output open.                                *)
(***************************************************************************)
EXTENDS Naturals, FiniteSets

CONSTANTS Calls,       \* identities of the calls of runBash
          Arguments,   \* what a call may ask for
          Privileges,  \* the role's patterns: what each matches, specificity, access
          Runners,     \* the runners a run may have: "host", "container"
          HostTimeout  \* whether the host's runner has a default timeout

ASSUME CommandsAssumption ==
    /\ Calls \cap {"free", "close", "none"} = {}
    /\ Runners \subseteq {"host", "container"}

VARIABLES
    runner,     \* the runner of this run
    pc,         \* where each call is
    args,       \* what it asks for
    proc,       \* the process of each call
    response,   \* what the model is told
    mu,         \* lazyContainerRunner.mu: the call that holds it, or "free", "close"
    started,    \* lazyContainerRunner.runner: the call whose command started it, or "none"
    closed,     \* lazyContainerRunner.closed
    stopped,    \* containerRunner.closed, and its context is cancelled
    containers, \* the containers that exist, each by the call whose command started it
    cleanup     \* the cleanup of the run

lazy == <<mu, started, closed, stopped, containers, cleanup>>
commandVars == <<runner, pc, args, proc, response, lazy>>

NoResponse == [is |-> "none", code |-> 0]
NoArgs == [command |-> "none"]

CommandsInit ==
    /\ runner \in Runners
    /\ pc = [i \in Calls |-> "idle"]
    /\ args = [i \in Calls |-> NoArgs]
    /\ proc = [i \in Calls |-> "none"]
    /\ response = [i \in Calls |-> NoResponse]
    /\ mu = "free" /\ started = "none" /\ closed = FALSE /\ stopped = FALSE
    /\ containers = {} /\ cleanup = "open"

GoesTo(i, step) == pc' = [pc EXCEPT ![i] = step]

Respond(i, is, code) ==
    /\ response' = [response EXCEPT ![i] = [is |-> is, code |-> code]]
    /\ GoesTo(i, "done")

-----------------------------------------------------------------------------
(* RunBashTool.Execute: arguments and permissions.                         *)

Matching(command) == {p \in Privileges : command \in p.matches}

\* checkPermission ranges over a map: of equally specific patterns any may come first.
CheckPermission(command) ==
    IF Matching(command) = {} THEN {"deny"}
    ELSE {p.access : p \in {m \in Matching(command) :
                               \A n \in Matching(command) : m.specificity >= n.specificity}}

Invalid(a) == a.timeout = "bad" \/ a.background = "bad" \/ a.maxOutput = "bad"

\* A workdir outside the session's needs an explicit access; an explicit access of
\* the call overrides the role's.
Access(a) ==
    IF a.workdir = "absolute" /\ a.access # "allow"
    THEN IF a.access = "deny" THEN {"deny"} ELSE {"ask"}
    ELSE IF a.access \notin {"", "auto"} THEN {a.access} ELSE CheckPermission(a.command)

Execute(i) ==
    /\ pc[i] = "idle"
    /\ \E a \in Arguments :
       /\ args' = [args EXCEPT ![i] = a]
       /\ \/ /\ Invalid(a)
             /\ Respond(i, "error", 1)
          \/ /\ ~Invalid(a)
             /\ \E access \in Access(a) :
                \/ /\ access = "allow"
                   /\ GoesTo(i, IF runner = "container" THEN "ensure" ELSE "exec")
                   /\ UNCHANGED response
                \/ /\ access # "allow"
                   /\ Respond(i, "denied", 1)
    /\ UNCHANGED <<runner, proc, lazy>>

-----------------------------------------------------------------------------
(* lazyContainerRunner.ensureRunner: the mutex is held while the container *)
(* starts.                                                                 *)

EnsureRunner(i) ==
    /\ pc[i] = "ensure" /\ mu = "free"
    /\ \/ /\ closed
          /\ Respond(i, "error", 1)
          /\ UNCHANGED mu
       \/ /\ ~closed /\ started # "none"
          /\ GoesTo(i, "exec")
          /\ UNCHANGED <<mu, response>>
       \/ /\ ~closed /\ started = "none"
          /\ GoesTo(i, "starting")
          /\ mu' = i
          /\ UNCHANGED response
    /\ UNCHANGED <<runner, args, proc, started, closed, stopped, containers, cleanup>>

\* NewContainerRunner fails when the container cannot be made or its user cannot be set
\* up.  In the first case what was made is not terminated, in the second the error of
\* Terminate is ignored: a container may be left that nobody knows of, and the next
\* command starts another.
StartContainer(i) ==
    /\ pc[i] = "starting"
    /\ \/ /\ started' = i
          /\ containers' = containers \cup {i}
          /\ GoesTo(i, "exec")
          /\ UNCHANGED response
       \/ /\ Respond(i, "error", 1)
          /\ containers' \in {containers, containers \cup {i}}
          /\ UNCHANGED started
    /\ mu' = "free"
    /\ UNCHANGED <<runner, args, proc, closed, stopped, cleanup>>

-----------------------------------------------------------------------------
(* RunCommandWithOptions[Background]Detailed of the two runners.           *)

Background(i) == args[i].background \in {"zero", "set"}
OnHost == runner = "host"

\* Mistake: the container's runner has no default timeout.
TimedWithoutDefault(i) == args[i].timeout = "set"

\* On the host a background command has no timeout; in the container every command
\* has one, by default 60 seconds.
Timed(i) == IF OnHost THEN ~Background(i) /\ (args[i].timeout = "set" \/ HostTimeout)
            ELSE TRUE

StartCommand(i) ==
    /\ pc[i] = "exec"
    /\ \/ /\ ~OnHost /\ stopped
          /\ Respond(i, "error", 1)
          /\ UNCHANGED proc
       \/ /\ OnHost \/ ~stopped
          /\ proc' = [proc EXCEPT ![i] = "running"]
          /\ IF OnHost /\ args[i].background = "zero"
             THEN Respond(i, "running", 0)
             ELSE GoesTo(i, "wait") /\ UNCHANGED response
    /\ UNCHANGED <<runner, args, lazy>>

\* The process exits; a "forks" command leaves a child.
Exit(i) ==
    /\ proc[i] = "running" /\ args[i].command # "hangs"
    /\ proc' = [proc EXCEPT ![i] = IF args[i].command = "forks" THEN "orphan" ELSE "exited"]
    /\ UNCHANGED <<runner, pc, args, response, lazy>>

OrphanExits(i) ==
    /\ proc[i] = "orphan"
    /\ proc' = [proc EXCEPT ![i] = "exited"]
    /\ UNCHANGED <<runner, pc, args, response, lazy>>

ExitCode(command) == IF command = "fails" THEN 1 ELSE 0

\* cmd.Run waits for the output to be closed, cmd.Wait of a background command does
\* not; an exec in the container ends with its process.
Ended(i) ==
    \/ proc[i] = "exited"
    \/ proc[i] = "orphan" /\ (~OnHost \/ Background(i))

\* executeCommand: the container's runner reports a command as running when background
\* is zero, however it ended.  Too big an output goes to a file, which may fail.
Finish(i) ==
    /\ pc[i] = "wait" /\ Ended(i)
    /\ \/ IF ~OnHost /\ args[i].background = "zero" THEN Respond(i, "running", 0)
          ELSE Respond(i, "finished", ExitCode(args[i].command))
       \/ args[i].maxOutput = "small" /\ Respond(i, "error", 1)
    /\ UNCHANGED <<runner, args, proc, lazy>>

BackgroundElapsed(i) ==
    /\ pc[i] = "wait" /\ OnHost /\ args[i].background = "set"
    /\ Respond(i, "running", 0)
    /\ UNCHANGED <<runner, args, proc, lazy>>

\* The deadline: bash is killed, not its children, and what it has written is waited
\* for; in the container the process goes on.
Timeout(i) ==
    /\ pc[i] = "wait" /\ Timed(i)
    /\ \/ /\ OnHost /\ proc[i] = "running"
          /\ proc' = [proc EXCEPT ![i] = IF args[i].command = "forks" THEN "orphan" ELSE "killed"]
          /\ GoesTo(i, "drain")
          /\ UNCHANGED response
       \/ /\ ~OnHost
          /\ Respond(i, "timeout", 124)
          /\ UNCHANGED proc
    /\ UNCHANGED <<runner, args, lazy>>

Drained(i) ==
    /\ pc[i] = "drain" /\ proc[i] # "orphan"
    /\ Respond(i, "timeout", 124)
    /\ UNCHANGED <<runner, args, proc, lazy>>

\* The container's context is cancelled while a command waits.
Interrupted(i) ==
    /\ pc[i] = "wait" /\ ~OnHost /\ stopped
    /\ \E is \in {"error", "timeout"} : Respond(i, is, 1)
    /\ UNCHANGED <<runner, args, proc, lazy>>

-----------------------------------------------------------------------------
(* lazyContainerRunner.Close at the end of the run.                        *)

\* Mistake: Close forgets that it was called when nothing has been started.
CloseUnmarked ==
    /\ runner = "container" /\ cleanup = "open" /\ mu = "free"
    /\ closed' = (started # "none")
    /\ \/ started # "none" /\ mu' = "close" /\ cleanup' = "closing" /\ stopped' = TRUE
       \/ started = "none" /\ cleanup' = "closed" /\ UNCHANGED <<mu, stopped>>
    /\ UNCHANGED <<runner, pc, args, proc, response, started, containers>>

CloseRunner ==
    /\ runner = "container" /\ cleanup = "open" /\ mu = "free"
    /\ closed' = TRUE
    /\ \/ started # "none" /\ mu' = "close" /\ cleanup' = "closing" /\ stopped' = TRUE
       \/ started = "none" /\ cleanup' = "closed" /\ UNCHANGED <<mu, stopped>>
    /\ UNCHANGED <<runner, pc, args, proc, response, started, containers>>

\* Terminate stops the container and every process in it, or fails after 30 seconds.
Terminate ==
    /\ cleanup = "closing"
    /\ mu' = "free"
    /\ \/ /\ cleanup' = "closed"
          /\ containers' = containers \ {started}
          /\ proc' = [i \in Calls |-> IF proc[i] \in {"running", "orphan"} THEN "killed" ELSE proc[i]]
       \/ /\ cleanup' = "failed"
          /\ UNCHANGED <<containers, proc>>
    /\ UNCHANGED <<runner, pc, args, response, started, closed, stopped>>

-----------------------------------------------------------------------------
\* What the program does; a process of the environment exits when it likes.
CommandStep(i) ==
    \/ EnsureRunner(i) \/ StartContainer(i) \/ StartCommand(i) \/ Finish(i) \/ BackgroundElapsed(i)
    \/ Timeout(i) \/ Drained(i) \/ Interrupted(i)

CommandsNext ==
    \/ \E i \in Calls : Execute(i) \/ CommandStep(i) \/ Exit(i) \/ OrphanExits(i)
    \/ CloseRunner \/ Terminate

\* Goroutines run, timers fire, Docker answers and the mutex is granted in turn.
CommandsFairness == WF_commandVars(Terminate) /\ \A i \in Calls : WF_commandVars(CommandStep(i))

CommandsSpec == CommandsInit /\ [][CommandsNext]_commandVars /\ CommandsFairness

-----------------------------------------------------------------------------
(* Properties.                                                             *)

CommandsTypeOK ==
    /\ \A i \in Calls :
       /\ pc[i] \in {"idle", "ensure", "starting", "exec", "wait", "drain", "done"}
       /\ args[i] \in Arguments \cup {NoArgs}
       /\ proc[i] \in {"none", "running", "orphan", "exited", "killed"}
       /\ response[i].is \in {"none", "error", "denied", "running", "finished", "timeout"}
    /\ mu \in Calls \cup {"free", "close"}
    /\ cleanup \in {"open", "closing", "closed", "failed"}

\* A run has one container at the most that its commands can use, also when the first
\* ones come together, and Close removes it: no command that was on its way starts
\* another afterwards (ensureRunner, Close).  A container that Close does not know of
\* is what a failed start left, and the command that started it was told so.
ContainerGoneAfterClose ==
    /\ \A i \in containers : i = started \/ response[i].is = "error"
    /\ cleanup = "closed" => started \notin containers

\* A response that says the command is finished has the exit code of a process that
\* has exited (executeCommand and the runners it calls).
FinishedMeansExited ==
    \A i \in Calls : response[i].is = "finished" =>
        /\ proc[i] \notin {"none", "running"}
        /\ response[i].code = ExitCode(args[i].command)

Limited(i) ==
    \/ ~OnHost
    \/ args[i].background = "set"
    \/ Timed(i) /\ args[i].command # "forks"

\* What a run leaves behind in its container and says of its commands (run_bash.go,
\* lazy_container.go).  Processes on the host that outlive their call are left alone.
CommandsCleanUp == CommandsTypeOK /\ ContainerGoneAfterClose /\ FinishedMeansExited

\* A call that has a time limit is answered, whatever its command does and while the
\* container is started or closed; on the host only when no child keeps the output open.
CallEnds(i) == (pc[i] # "idle" /\ Limited(i)) ~> (pc[i] = "done")
=============================================================================
