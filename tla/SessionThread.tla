---------------------------- MODULE SessionThread ----------------------------
(***************************************************************************)
(* The session thread of pkg/core/session_thread.go, and the part of       *)
(* SweSession.Run (pkg/core/session.go) it drives: prompts arrive from the *)
(* input goroutines, a background goroutine runs the conversation loop,    *)
(* and Interrupt, Pause and Resume race with it.                           *)
(*                                                                         *)
(* One action is one critical section of c.mu, or one stretch of code that *)
(* holds no lock and touches nothing another goroutine reads.  Goroutines  *)
(* running runSessionLoop take a slot of Loops; a slot also stands for the *)
(* context created with the goroutine, so it is reused only when no        *)
(* Interrupt still holds that context's cancelFunc.                        *)
(*                                                                         *)
(* Abstractions: a prompt is a model value submitted at most once; of the  *)
(* conversation we keep the prompts in it, in order, and the kind of its   *)
(* last message; what the language model answers, what compaction leaves,  *)
(* whether a tool fails or asks to finish are nondeterministic.            *)
(* interruptPending is left out: no statement of the program sets it.      *)
(***************************************************************************)
EXTENDS Naturals, Sequences, FiniteSets

CONSTANTS
    Prompts,   \* the prompts the user may submit
    Clients,   \* goroutines that call Interrupt: input reader, Shutdown
    Loops,     \* slots for goroutines running runSessionLoop
    NoLoop,    \* a nil cancelFunc
    Ops        \* the methods of SessionThread in use

AllOps == {"UserPrompt", "Interrupt", "AddPrompt",
           "Pause", "Resume", "ResumePending"}

ASSUME OpsAssumption == Ops \subseteq AllOps
ASSUME NoLoopAssumption == NoLoop \notin Loops

VARIABLES
    session,         \* c.session # nil
    sessionRunning, paused, suspended, resumePending,
    inputQueue,
    cancelFunc,      \* the loop whose context c.cancelFunc cancels, or NoLoop
    pc,              \* where each loop goroutine is
    frame,           \* its locals: run mode, err, autoContinueEligible
    cancelled,       \* loops whose context is cancelled
    client,          \* what each client has left to do after its unlock
    delivered,       \* prompts appended to s.messages, in order
    last,            \* kind of the last message of s.messages
    autoLast,        \* the last user message is autoContinuePrompt
    finishRequested, \* s.finishRequested
    owed,            \* prompts given to resume a suspended session, unserved
    done,            \* the buffered channel c.done
    waiting          \* RunCommand still waits for Done()

threadVars == <<sessionRunning, paused, suspended, resumePending, cancelFunc>>
chatVars   == <<delivered, last, autoLast, finishRequested>>
vars == <<session, threadVars, inputQueue, pc, frame, cancelled, client,
          chatVars, owed, done, waiting>>

RunPCs == {"top", "tools", "compact", "chat", "drain"}
PCs    == RunPCs \cup {"none", "fetch", "start", "returned", "finish", "exit"}
Outcomes == {"nil", "failed", "cancelled", "terminated"}
Frames == [resume : BOOLEAN, err : Outcomes, eligible : BOOLEAN]
\* Kinds of the last message; "answered" calls have their results before them,
\* which compaction can bring about (see Compaction).
Kinds  == {"none", "user", "text", "calls", "answered", "results"}
Pending == {"calls", "answered"}   \* what Run takes for calls to execute

NoFrame == [resume |-> FALSE, err |-> "nil", eligible |-> FALSE]
Idle == [at |-> "idle", loop |-> NoLoop]

Init ==
    /\ session = FALSE
    /\ sessionRunning = FALSE /\ paused = FALSE
    /\ suspended = FALSE /\ resumePending = FALSE
    /\ cancelFunc = NoLoop
    /\ inputQueue = <<>>
    /\ pc = [l \in Loops |-> "none"]
    /\ frame = [l \in Loops |-> NoFrame]
    /\ cancelled = {}
    /\ client = [c \in Clients |-> Idle]
    /\ delivered = <<>> /\ last = "none"
    /\ autoLast = FALSE /\ finishRequested = FALSE
    /\ owed = {}
    /\ done = <<>> /\ waiting = TRUE

-----------------------------------------------------------------------------
Elems(s) == {s[i] : i \in DOMAIN s}
Active == {l \in Loops : pc[l] # "none"}

\* Slots with no goroutine and no context that somebody may still cancel.
FreeLoops == (Loops \ Active) \ {client[c].loop : c \in Clients}
Fresh == CHOOSE l \in FreeLoops : TRUE

\* startSessionLocked with sessionRunning = FALSE.  pcs and running contexts
\* are those left by the rest of the critical section.
StartSessionLocked(pcs, ctxs) ==
    /\ FreeLoops # {}
    /\ sessionRunning' = TRUE
    /\ cancelFunc' = Fresh
    /\ cancelled' = ctxs \ {Fresh}
    /\ pc' = [pcs EXCEPT ![Fresh] = "fetch"]

\* Mistake: the check of sessionRunning is forgotten.
StartAlways == StartSessionLocked(pc, cancelled)

\* The tail of UserPrompt, Resume and ResumePending: start unless running.
StartUnlessRunning ==
    IF sessionRunning
    THEN UNCHANGED <<sessionRunning, cancelFunc, cancelled, pc>>
    ELSE StartSessionLocked(pc, cancelled)

Fits(p) == p \notin Elems(inputQueue) /\ p \notin Elems(delivered)

-----------------------------------------------------------------------------
(* The API: one action per critical section of a caller. *)

StartSession ==
    /\ ~session
    /\ session' = TRUE
    /\ UNCHANGED <<threadVars, inputQueue, pc, frame, cancelled, client,
                   chatVars, owed, done, waiting>>

UserPrompt(p) ==
    /\ "UserPrompt" \in Ops /\ session /\ Fits(p)
    /\ inputQueue' = Append(inputQueue, p)
    /\ StartUnlessRunning
    /\ IF suspended /\ ~sessionRunning
       THEN suspended' = FALSE /\ paused' = FALSE
       ELSE UNCHANGED <<suspended, paused>>
    /\ owed' = IF suspended THEN owed \cup {p} ELSE owed
    /\ UNCHANGED <<session, resumePending, frame, client, chatVars, done,
                   waiting>>

AddPrompt(p) ==
    /\ "AddPrompt" \in Ops /\ session /\ Fits(p)
    /\ inputQueue' = Append(inputQueue, p)
    /\ UNCHANGED <<session, threadVars, pc, frame, cancelled, client,
                   chatVars, owed, done, waiting>>

\* First half of Interrupt while suspended: the caller goes on, unlocked, to
\* report the termination.
InterruptSuspended(c) ==
    /\ "Interrupt" \in Ops /\ client[c].at = "idle"
    /\ suspended
    /\ suspended' = FALSE /\ paused' = FALSE
    /\ client' = [client EXCEPT ![c] = [at |-> "terminate", loop |-> NoLoop]]
    /\ owed' = {}
    /\ UNCHANGED <<session, sessionRunning, resumePending, cancelFunc,
                   inputQueue, pc, frame, cancelled, chatVars, done, waiting>>

\* First half of Interrupt while running: the caller leaves the lock with the
\* cancelFunc it read.
InterruptRunning(c) ==
    /\ "Interrupt" \in Ops /\ client[c].at = "idle"
    /\ ~suspended /\ sessionRunning
    /\ inputQueue' = <<>>
    /\ paused' = TRUE /\ suspended' = TRUE
    /\ client' = [client EXCEPT ![c] = [at |-> "cancel", loop |-> cancelFunc]]
    /\ owed' = {}
    /\ UNCHANGED <<session, sessionRunning, resumePending, cancelFunc, pc,
                   frame, cancelled, chatVars, done, waiting>>

\* cancelFunc() after the unlock.  Cancelling the context of a goroutine that
\* has ended has no effect.
Cancel(c) ==
    /\ client[c].at = "cancel"
    /\ cancelled' = IF client[c].loop \in Active
                    THEN cancelled \cup {client[c].loop} ELSE cancelled
    /\ client' = [client EXCEPT ![c] = Idle]
    /\ UNCHANGED <<session, threadVars, inputQueue, pc, frame, chatVars, owed,
                   done, waiting>>

Pause ==
    /\ "Pause" \in Ops
    /\ paused' = TRUE
    /\ cancelled' = IF sessionRunning /\ cancelFunc # NoLoop
                    THEN cancelled \cup {cancelFunc} ELSE cancelled
    /\ UNCHANGED <<session, sessionRunning, suspended, resumePending,
                   cancelFunc, inputQueue, pc, frame, client, chatVars, owed,
                   done, waiting>>

Resume ==
    /\ "Resume" \in Ops /\ session
    /\ paused' = FALSE
    /\ IF inputQueue # <<>>
       THEN StartUnlessRunning
       ELSE UNCHANGED <<sessionRunning, cancelFunc, cancelled, pc>>
    /\ UNCHANGED <<session, suspended, resumePending, inputQueue, frame,
                   client, chatVars, owed, done, waiting>>

ResumePending ==
    /\ "ResumePending" \in Ops /\ session
    /\ paused' = FALSE /\ resumePending' = TRUE
    /\ StartUnlessRunning
    /\ UNCHANGED <<session, suspended, inputQueue, frame, client, chatVars,
                   owed, done, waiting>>

-----------------------------------------------------------------------------
(* finishRun: RunFinished(err), then a send that never blocks. *)

\* Mistake: every report is kept for a receiver.
FinishRunKeepsAll(err) ==
    /\ done' = Append(done, err)
    /\ owed' = IF err = "nil" THEN owed ELSE {}

FinishRun(err) ==
    /\ done' = IF done = <<>> THEN <<err>> ELSE done
    /\ owed' = IF err = "nil" THEN owed ELSE {}

Terminate(c) ==
    /\ client[c].at = "terminate"
    /\ FinishRun("terminated")
    /\ client' = [client EXCEPT ![c] = Idle]
    /\ UNCHANGED <<session, threadVars, inputQueue, pc, frame, cancelled,
                   chatVars, waiting>>

Finish(l) ==
    /\ pc[l] = "finish"
    /\ FinishRun(frame[l].err)
    /\ pc' = [pc EXCEPT ![l] = "exit"]
    /\ UNCHANGED <<session, threadVars, inputQueue, frame, cancelled, client,
                   chatVars, waiting>>

\* RunCommand receives from Done() once and goes on to finalise the session.
ReceiveDone ==
    /\ waiting /\ done # <<>>
    /\ done' = <<>> /\ waiting' = FALSE
    /\ UNCHANGED <<session, threadVars, inputQueue, pc, frame, cancelled,
                   client, chatVars, owed>>

-----------------------------------------------------------------------------
(* runSessionLoop *)

Goto(l, at) == pc' = [pc EXCEPT ![l] = at]

\* finishRun(err) followed by return.
GotoFinish(l, err) ==
    /\ Goto(l, "finish")
    /\ frame' = [frame EXCEPT ![l] = [NoFrame EXCEPT !.err = err]]

\* Enter SweSession.Run with the given mode.
EnterRun(l, mode) ==
    /\ Goto(l, "start")
    /\ frame' = [frame EXCEPT ![l] = [NoFrame EXCEPT !.resume = mode]]

Fetch(l) ==
    /\ pc[l] = "fetch"
    /\ \/ /\ inputQueue = <<>> /\ resumePending
          /\ resumePending' = FALSE
          /\ EnterRun(l, TRUE)
       \/ /\ \/ inputQueue = <<>> /\ ~resumePending
             \/ inputQueue # <<>> /\ paused
          /\ GotoFinish(l, "nil")
          /\ UNCHANGED resumePending
       \/ /\ inputQueue # <<>> /\ ~paused
          /\ EnterRun(l, FALSE)
          /\ UNCHANGED resumePending
    /\ UNCHANGED <<session, sessionRunning, paused, suspended, cancelFunc,
                   inputQueue, cancelled, client, chatVars, owed, done,
                   waiting>>

\* What follows the return of Run: one critical section that reads the flags.
Returned(l) ==
    /\ pc[l] = "returned"
    /\ LET err == frame[l].err IN
       \/ /\ frame[l].resume /\ err # "nil"
          /\ GotoFinish(l, err)
       \/ /\ ~(frame[l].resume /\ err # "nil")
          /\ \/ paused /\ ~suspended /\ GotoFinish(l, "nil")
             \/ /\ paused /\ suspended
                /\ Goto(l, "exit")
                /\ frame' = [frame EXCEPT ![l] = NoFrame]
             \/ ~paused /\ err # "nil" /\ GotoFinish(l, err)
             \/ /\ ~paused /\ err = "nil"
                /\ Goto(l, "fetch")
                /\ frame' = [frame EXCEPT ![l] = NoFrame]
    /\ UNCHANGED <<session, threadVars, inputQueue, cancelled, client,
                   chatVars, owed, done, waiting>>

\* Mistake: the suspension is cleared although nothing is restarted.
ExitForgetsSuspension(l) ==
    /\ pc[l] = "exit"
    /\ suspended' = FALSE /\ paused' = FALSE
    /\ IF suspended /\ inputQueue # <<>>
       THEN StartSessionLocked([pc EXCEPT ![l] = "none"], cancelled \ {l})
       ELSE /\ sessionRunning' = FALSE /\ cancelFunc' = NoLoop
            /\ cancelled' = cancelled \ {l}
            /\ pc' = [pc EXCEPT ![l] = "none"]
    /\ frame' = [frame EXCEPT ![l] = NoFrame]
    /\ UNCHANGED <<session, resumePending, inputQueue, client, chatVars, owed,
                   done, waiting>>

\* The deferred critical section of runSessionLoop.
Exit(l) ==
    /\ pc[l] = "exit"
    /\ IF suspended /\ inputQueue # <<>>
       THEN /\ suspended' = FALSE /\ paused' = FALSE
            /\ StartSessionLocked([pc EXCEPT ![l] = "none"], cancelled \ {l})
       ELSE /\ sessionRunning' = FALSE /\ cancelFunc' = NoLoop
            /\ cancelled' = cancelled \ {l}
            /\ pc' = [pc EXCEPT ![l] = "none"]
            /\ UNCHANGED <<suspended, paused>>
    /\ frame' = [frame EXCEPT ![l] = NoFrame]
    /\ UNCHANGED <<session, resumePending, inputQueue, client, chatVars, owed,
                   done, waiting>>

-----------------------------------------------------------------------------
(* SweSession.Run *)

Return(l, err) ==
    /\ Goto(l, "returned")
    /\ frame' = [frame EXCEPT ![l] =
                   [resume |-> @.resume, err |-> err, eligible |-> FALSE]]

\* Mistake: the drainer copies the queue and does not empty it.
FlushKeepsQueue ==
    /\ delivered' = delivered \o inputQueue
    /\ IF inputQueue = <<>>
       THEN UNCHANGED <<last, autoLast>>
       ELSE last' = "user" /\ autoLast' = FALSE
    /\ UNCHANGED inputQueue

\* flushQueuedUserPrompts through the drainer: the whole queue moves to the
\* conversation.
FlushQueuedUserPrompts ==
    /\ delivered' = delivered \o inputQueue
    /\ inputQueue' = <<>>
    /\ IF inputQueue = <<>>
       THEN UNCHANGED <<last, autoLast>>
       ELSE last' = "user" /\ autoLast' = FALSE

\* Run first builds its chat model chain, which may fail.
Start(l) ==
    /\ pc[l] = "start"
    /\ Return(l, "failed") \/ (Goto(l, "top") /\ UNCHANGED frame)
    /\ UNCHANGED <<session, threadVars, inputQueue, cancelled, client,
                   chatVars, owed, done, waiting>>

\* Mistake: tool calls left without results are not looked for.
TopSkipsPendingCalls(l) ==
    /\ pc[l] = "top"
    /\ \/ /\ finishRequested
          /\ finishRequested' = FALSE
          /\ Return(l, "nil")
          /\ UNCHANGED <<inputQueue, delivered, last, autoLast>>
       \/ /\ ~finishRequested
          /\ FlushQueuedUserPrompts
          /\ Goto(l, "compact")
          /\ UNCHANGED <<frame, finishRequested>>
    /\ UNCHANGED <<session, threadVars, cancelled, client, owed, done,
                   waiting>>

\* Mistake: prompts are drained after a text answer only.
TopDoesNotDrain(l) ==
    /\ pc[l] = "top"
    /\ \/ /\ finishRequested
          /\ finishRequested' = FALSE
          /\ Return(l, "nil")
       \/ /\ ~finishRequested
          /\ Goto(l, IF last \in Pending THEN "tools" ELSE "compact")
          /\ UNCHANGED <<frame, finishRequested>>
    /\ UNCHANGED <<session, threadVars, inputQueue, cancelled, client,
                   delivered, last, autoLast, owed, done, waiting>>

\* Top of the loop.  Tool calls left without results by an earlier Run are
\* executed before anything is added.  The drain that follows tool execution
\* at the bottom of the loop is this one: nothing separates the two.
Top(l) ==
    /\ pc[l] = "top"
    /\ \/ /\ finishRequested
          /\ finishRequested' = FALSE
          /\ Return(l, "nil")
          /\ UNCHANGED <<inputQueue, delivered, last, autoLast>>
       \/ /\ ~finishRequested /\ last \in Pending
          /\ Goto(l, "tools")
          /\ UNCHANGED <<frame, inputQueue, chatVars>>
       \/ /\ ~finishRequested /\ last \notin Pending
          /\ FlushQueuedUserPrompts
          /\ Goto(l, "compact")
          /\ UNCHANGED <<frame, finishRequested>>
    /\ UNCHANGED <<session, threadVars, cancelled, client, owed, done,
                   waiting>>

\* executeToolCalls and consumeFinishRequest.  Tools do not see the context.
\* A failure after the tools ran leaves the calls without results, and leaves
\* a finish request standing.
Tools(l) ==
    /\ pc[l] = "tools"
    /\ \E finish \in BOOLEAN :
       \/ /\ last' = "results" /\ autoLast' = FALSE
          /\ finishRequested' = FALSE
          /\ IF finish
             THEN Return(l, "nil")
             ELSE Goto(l, "top")
                  /\ frame' = [frame EXCEPT ![l].eligible = TRUE]
       \/ /\ finishRequested' = finish
          /\ Return(l, "failed")
          /\ UNCHANGED <<last, autoLast>>
    /\ UNCHANGED <<session, threadVars, inputQueue, cancelled, client,
                   delivered, owed, done, waiting>>

\* compactContext: the compactor may return any messages, but the verifier
\* leaves no calls without results.
CompactContext ==
    /\ last # "none"
    /\ last' \in Kinds \ {"none", "calls"}
    /\ autoLast' \in BOOLEAN

\* Mistake: the request is sent with a context of its own.
CompactIgnoresContext(l) ==
    /\ pc[l] = "compact"
    /\ \/ Return(l, "failed") /\ UNCHANGED <<last, autoLast>>
       \/ /\ CompactContext \/ UNCHANGED <<last, autoLast>>
          /\ Goto(l, "chat") /\ UNCHANGED frame
    /\ UNCHANGED <<session, threadVars, inputQueue, cancelled, client,
                   delivered, finishRequested, owed, done, waiting>>

\* maybeCompactContext may fail; otherwise the chat request starts, and fails
\* at once on a cancelled context.
Compact(l) ==
    /\ pc[l] = "compact"
    /\ \/ Return(l, "failed") /\ UNCHANGED <<last, autoLast>>
       \/ /\ CompactContext \/ UNCHANGED <<last, autoLast>>
          /\ \/ l \in cancelled /\ Return(l, "cancelled")
             \/ l \notin cancelled /\ Goto(l, "chat") /\ UNCHANGED frame
    /\ UNCHANGED <<session, threadVars, inputQueue, cancelled, client,
                   delivered, finishRequested, owed, done, waiting>>

\* runNonStreamingChat ends, having compacted the messages when the model
\* refused them as too long.  A cancellation during the request may come too
\* late to stop the answer.
ChatFails(l) ==
    /\ pc[l] = "chat"
    /\ CompactContext \/ UNCHANGED <<last, autoLast>>
    /\ \/ Return(l, "failed")
       \/ l \in cancelled /\ Return(l, "cancelled")
    /\ UNCHANGED <<session, threadVars, inputQueue, cancelled, client,
                   delivered, finishRequested, owed, done, waiting>>

ChatReplies(l) ==
    /\ pc[l] = "chat"
    /\ \/ last' = "text" /\ Goto(l, "drain")
       \/ last' = "calls" /\ Goto(l, "tools")
    /\ UNCHANGED autoLast \/ (last # "none" /\ autoLast' \in BOOLEAN)
    /\ owed' = owed \ Elems(delivered)
    /\ UNCHANGED <<session, threadVars, inputQueue, frame, cancelled, client,
                   delivered, finishRequested, done, waiting>>

\* Mistake: prompts that arrived during the request are added, not answered.
DrainThenReturn(l) ==
    /\ pc[l] = "drain"
    /\ FlushQueuedUserPrompts
    /\ Return(l, "nil")
    /\ UNCHANGED <<session, threadVars, cancelled, client, finishRequested,
                   owed, done, waiting>>

\* An answer without tool calls: go on when prompts arrived meanwhile, or when
\* tools ran and the last user message is not the automatic one.
Drain(l) ==
    /\ pc[l] = "drain"
    /\ \/ /\ inputQueue # <<>>
          /\ FlushQueuedUserPrompts
          /\ Goto(l, "top")
          /\ UNCHANGED frame
       \/ /\ inputQueue = <<>> /\ frame[l].eligible /\ ~autoLast
          /\ last' = "user" /\ autoLast' = TRUE
          /\ Goto(l, "top")
          /\ UNCHANGED <<frame, inputQueue, delivered>>
       \/ /\ inputQueue = <<>> /\ ~(frame[l].eligible /\ ~autoLast)
          /\ Return(l, "nil")
          /\ UNCHANGED <<inputQueue, delivered, last, autoLast>>
    /\ UNCHANGED <<session, threadVars, cancelled, client, finishRequested,
                   owed, done, waiting>>

-----------------------------------------------------------------------------
LoopStep(l) ==
    \/ Fetch(l) \/ Returned(l) \/ Finish(l) \/ Exit(l)
    \/ Start(l) \/ Top(l) \/ Tools(l) \/ Compact(l) \/ ChatFails(l) \/ ChatReplies(l)
    \/ Drain(l)

ClientStep(c) == Cancel(c) \/ Terminate(c)

Call ==
    \/ StartSession \/ Pause \/ Resume \/ ResumePending
    \/ \E p \in Prompts : UserPrompt(p) \/ AddPrompt(p)
    \/ \E c \in Clients : InterruptSuspended(c) \/ InterruptRunning(c)

Next ==
    \/ Call
    \/ \E c \in Clients : ClientStep(c)
    \/ \E l \in Loops : LoopStep(l)
    \/ ReceiveDone

\* Goroutines and callers that have entered a method make progress; tools and
\* chat requests return.  Nobody is obliged to call anything.
Fairness ==
    /\ \A l \in Loops : WF_vars(LoopStep(l))
    /\ \A c \in Clients : WF_vars(ClientStep(c))
    /\ WF_vars(ReceiveDone)

Spec == Init /\ [][Next]_vars /\ Fairness

-----------------------------------------------------------------------------
TypeOK ==
    /\ session \in BOOLEAN
    /\ sessionRunning \in BOOLEAN /\ paused \in BOOLEAN
    /\ suspended \in BOOLEAN /\ resumePending \in BOOLEAN
    /\ cancelFunc \in Loops \cup {NoLoop}
    /\ inputQueue \in Seq(Prompts)
    /\ pc \in [Loops -> PCs]
    /\ frame \in [Loops -> Frames]
    /\ cancelled \subseteq Loops
    /\ client \in [Clients -> [at : {"idle", "cancel", "terminate"},
                               loop : Loops \cup {NoLoop}]]
    /\ delivered \in Seq(Prompts)
    /\ last \in Kinds /\ autoLast \in BOOLEAN /\ finishRequested \in BOOLEAN
    /\ owed \subseteq Prompts
    /\ done \in Seq(Outcomes) /\ Len(done) <= 1
    /\ waiting \in BOOLEAN
-----------------------------------------------------------------------------
InRun(l) == pc[l] \in RunPCs \cup {"start"}
Quiet == Active = {} /\ \A c \in Clients : client[c].at = "idle"
Queued(p) == p \in Elems(inputQueue)

\* "At most one session loop is running at a time" (comment on the type):
\* however prompts, interrupts, resumes and the restart in the deferred section
\* interleave, two goroutines never run the loop, sessionRunning says exactly
\* whether one does, and c.cancelFunc belongs to the one that does.
AtMostOneLoop ==
    /\ \A l, m \in Active : l = m
    /\ sessionRunning <=> Active # {}
    /\ IF sessionRunning THEN cancelFunc \in Active ELSE cancelFunc = NoLoop

\* A prompt never comes between an assistant message with tool calls and the
\* results of those calls, not even when an earlier Run failed in its tools and
\* prompts were queued since: providers reject such a conversation.
ToolCallsAnsweredFirst ==
    [][last = "calls" => last' \in {"calls", "results"} /\ delivered' = delivered]_vars

\* RunCommand never waits for a report that nobody will send: when a
\* conversation was begun and no goroutine is left to report, the report is in
\* the channel or was received, or the session is suspended for the user.
SilentOnlyWhenSuspended ==
    Quiet /\ last # "none" /\ waiting /\ done = <<>> => suspended

\* A Run that returns without error has answered every prompt it took from the
\* queue: its conversation does not end in a message of the user, also when a
\* prompt arrived just as the last answer came in, or when an earlier Run left
\* a finish request standing.
NoPromptLeftUnanswered ==
    \A l \in Loops :
        pc[l] = "returned" /\ frame[l].err = "nil" => last # "user"

\* The strengthening under which NoPromptLeftUnanswered and
\* ToolCallsAnsweredFirst are inductive: what the position of the loop says of
\* the end of the conversation.
ConversationInv ==
    /\ \A l \in Loops :
          /\ pc[l] = "tools" => last \in Pending
          /\ pc[l] = "compact" => last \notin Pending
          /\ pc[l] = "chat" => last # "calls"
          /\ pc[l] = "drain" => last = "text"
    /\ NoPromptLeftUnanswered
    /\ finishRequested =>
          /\ last \in Pending
          /\ \A l \in Loops : pc[l] \notin {"compact", "chat", "drain"}

\* A goroutine whose context is cancelled ends: neither tools that ignore the
\* context nor prompts queued meanwhile keep it going.
CancelledLoopStops ==
    \A l \in Loops : l \in cancelled ~> pc[l] = "none"

\* A prompt queued while a Run is in progress reaches the conversation, however
\* many tool rounds the Run makes, unless the Run fails or the user interrupts
\* or pauses.
QueuedPromptReachesRun ==
    \A p \in Prompts :
        Queued(p) /\ (\E l \in Loops : InRun(l)) ~>
            \/ ~Queued(p) \/ paused
            \/ \E l \in Loops : pc[l] \in {"returned", "finish"} /\ frame[l].err # "nil"

\* The thread implements the mailbox: prompts reach the conversation in the
\* order in which they were accepted, none twice, none out of thin air, only
\* while a loop runs, and only an interrupt of a running loop drops them.
Mailbox == INSTANCE PromptMailbox WITH
    box <- inputQueue, log <- delivered, busy <- sessionRunning
ImplementsMailbox == Mailbox!Spec

-----------------------------------------------------------------------------
(* What comments of the source promise and the code does not do. *)

\* "UserPrompt adds a user prompt to the session and starts processing if not
\* already running": when the session has ended, reporting success, no prompt
\* is left in the queue with nobody to process it.
PromptStartsProcessing ==
    Quiet /\ done = <<"nil">> => inputQueue = <<>>

\* "... user prompt is added to the conversation, then processing is resumed":
\* a prompt given to a suspended session is answered, or its failure reported.
PromptResumesSuspended == Quiet => owed = {}
=============================================================================
