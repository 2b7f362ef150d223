------------------------- MODULE SessionThreadProofs -------------------------
(***************************************************************************)
(* Theorems about SessionThread, for every set of prompts, clients and     *)
(* loop slots and every set of methods in use.                             *)
(***************************************************************************)
EXTENDS SessionThread, TLAPS

-----------------------------------------------------------------------------
(* Types *)

\* A critical section that starts a loop leaves the fields it writes typed.
LEMMA StartTyped ==
    ASSUME NEW pcs \in [Loops -> PCs], NEW ctxs \in SUBSET Loops,
           StartSessionLocked(pcs, ctxs)
    PROVE  /\ Fresh \in FreeLoops
           /\ sessionRunning' \in BOOLEAN
           /\ cancelFunc' \in Loops \cup {NoLoop}
           /\ cancelled' \subseteq Loops
           /\ pc' \in [Loops -> PCs]
<1>1. Fresh \in FreeLoops
  BY DEF StartSessionLocked, Fresh
<1>2. QED
  BY <1>1 DEF StartSessionLocked, FreeLoops, PCs

LEMMA StartUnlessRunningTyped ==
    ASSUME TypeOK, StartUnlessRunning
    PROVE  /\ sessionRunning' \in BOOLEAN
           /\ cancelFunc' \in Loops \cup {NoLoop}
           /\ cancelled' \subseteq Loops
           /\ pc' \in [Loops -> PCs]
<1>1. CASE sessionRunning
  BY <1>1 DEF StartUnlessRunning, TypeOK
<1>2. CASE ~sessionRunning
  <2>1. StartSessionLocked(pc, cancelled)
    BY <1>2 DEF StartUnlessRunning
  <2>2. pc \in [Loops -> PCs] /\ cancelled \in SUBSET Loops
    BY DEF TypeOK
  <2>3. QED
    BY <2>1, <2>2, StartTyped
<1>3. QED
  BY <1>1, <1>2 DEF TypeOK

\* finishRun puts at most one outcome into the channel.
LEMMA FinishRunTyped ==
    ASSUME TypeOK, NEW err \in Outcomes, FinishRun(err)
    PROVE  /\ done' \in Seq(Outcomes) /\ Len(done') <= 1
           /\ owed' \subseteq Prompts
<1>1. <<err>> \in Seq(Outcomes) /\ Len(<<err>>) = 1
  OBVIOUS
<1>2. QED
  BY <1>1 DEF FinishRun, TypeOK

LEMMA TypeInit == Init => TypeOK
<1> SUFFICES ASSUME Init PROVE TypeOK
  OBVIOUS
<1>1. frame \in [Loops -> Frames]
  BY DEF Init, NoFrame, Frames, Outcomes
<1>2. client \in [Clients -> [at : {"idle", "cancel", "terminate"},
                              loop : Loops \cup {NoLoop}]]
  BY DEF Init, Idle
<1>3. done \in Seq(Outcomes) /\ Len(done) <= 1
  BY DEF Init
<1>4. pc \in [Loops -> PCs]
  BY DEF Init, PCs
<1>5. /\ session \in BOOLEAN /\ sessionRunning \in BOOLEAN
      /\ paused \in BOOLEAN /\ suspended \in BOOLEAN
      /\ resumePending \in BOOLEAN /\ autoLast \in BOOLEAN
      /\ finishRequested \in BOOLEAN /\ waiting \in BOOLEAN
  BY Zenon DEF Init
<1>6. /\ cancelFunc \in Loops \cup {NoLoop} /\ cancelled \subseteq Loops
      /\ inputQueue \in Seq(Prompts) /\ delivered \in Seq(Prompts)
      /\ last \in Kinds /\ owed \subseteq Prompts
  BY DEF Init, Kinds
<1>7. QED
  BY <1>1, <1>2, <1>3, <1>4, <1>5, <1>6 DEF TypeOK

\* The calls of the API.
LEMMA TypeCall == TypeOK /\ Call => TypeOK'
<1> SUFFICES ASSUME TypeOK, Call PROVE TypeOK'
  OBVIOUS
<1>1. CASE StartSession
  BY <1>1 DEF StartSession, TypeOK, threadVars, chatVars
<1>2. CASE Pause
  BY <1>2 DEF Pause, TypeOK, chatVars
<1>3. CASE Resume
  <2>1. /\ sessionRunning' \in BOOLEAN
        /\ cancelFunc' \in Loops \cup {NoLoop}
        /\ cancelled' \subseteq Loops
        /\ pc' \in [Loops -> PCs]
    BY <1>3, StartUnlessRunningTyped DEF Resume, TypeOK
  <2>2. QED
    BY <1>3, <2>1 DEF Resume, TypeOK, chatVars
<1>4. CASE ResumePending
  BY <1>4, StartUnlessRunningTyped DEF ResumePending, TypeOK, chatVars
<1>5. ASSUME NEW p \in Prompts, UserPrompt(p) PROVE TypeOK'
  <2>1. inputQueue' \in Seq(Prompts)
    BY <1>5 DEF UserPrompt, TypeOK
  <2>2. suspended' \in BOOLEAN /\ paused' \in BOOLEAN
    BY <1>5 DEF UserPrompt, TypeOK
  <2>3. owed' \subseteq Prompts
    BY <1>5 DEF UserPrompt, TypeOK
  <2>4. QED
    BY <1>5, <2>1, <2>2, <2>3, StartUnlessRunningTyped
    DEF UserPrompt, TypeOK, chatVars
<1>6. ASSUME NEW p \in Prompts, AddPrompt(p) PROVE TypeOK'
  BY <1>6 DEF AddPrompt, TypeOK, threadVars, chatVars
<1>7. ASSUME NEW c \in Clients, InterruptSuspended(c) PROVE TypeOK'
  BY <1>7 DEF InterruptSuspended, TypeOK, chatVars
<1>8. ASSUME NEW c \in Clients, InterruptRunning(c) PROVE TypeOK'
  BY <1>8 DEF InterruptRunning, TypeOK, chatVars
<1>9. QED
  BY <1>1, <1>2, <1>3, <1>4, <1>5, <1>6, <1>7, <1>8 DEF Call

\* What runs after an unlock: the callers of Interrupt and of Done().
LEMMA TypeClient ==
    ASSUME TypeOK,
           ReceiveDone \/ \E c \in Clients : ClientStep(c)
    PROVE  TypeOK'
<1>1. CASE ReceiveDone
  <2>1. done' \in Seq(Outcomes) /\ Len(done') <= 1
    BY <1>1 DEF ReceiveDone
  <2>2. waiting' \in BOOLEAN
    BY <1>1 DEF ReceiveDone
  <2>3. QED
    BY <1>1, <2>1, <2>2 DEF ReceiveDone, TypeOK, threadVars, chatVars
<1>2. ASSUME NEW c \in Clients, Cancel(c) PROVE TypeOK'
  <2>1. cancelled' \subseteq Loops
    BY <1>2 DEF Cancel, TypeOK, Active
  <2>2. client' \in [Clients -> [at : {"idle", "cancel", "terminate"},
                                loop : Loops \cup {NoLoop}]]
    BY <1>2 DEF Cancel, TypeOK, Idle
  <2>3. QED
    BY <1>2, <2>1, <2>2 DEF Cancel, TypeOK, threadVars, chatVars
<1>3. ASSUME NEW c \in Clients, Terminate(c) PROVE TypeOK'
  <2>1. "terminated" \in Outcomes
    BY DEF Outcomes
  <2>2. done' \in Seq(Outcomes) /\ Len(done') <= 1 /\ owed' \subseteq Prompts
    BY <1>3, <2>1, FinishRunTyped DEF Terminate
  <2>3. client' \in [Clients -> [at : {"idle", "cancel", "terminate"},
                                loop : Loops \cup {NoLoop}]]
    BY <1>3 DEF Terminate, TypeOK, Idle
  <2>4. QED
    BY <1>3, <2>2, <2>3 DEF Terminate, TypeOK, threadVars, chatVars
<1>4. QED
  BY <1>1, <1>2, <1>3 DEF ClientStep

\* A step of a loop moves its goroutine and writes its frame.
LEMMA GotoTyped ==
    ASSUME TypeOK, NEW l \in Loops, NEW err \in Outcomes
    PROVE  /\ GotoFinish(l, err) =>
                pc' \in [Loops -> PCs] /\ frame' \in [Loops -> Frames]
           /\ Return(l, err) =>
                pc' \in [Loops -> PCs] /\ frame' \in [Loops -> Frames]
           /\ \A mode \in BOOLEAN : EnterRun(l, mode) =>
                pc' \in [Loops -> PCs] /\ frame' \in [Loops -> Frames]
           /\ \A at \in PCs : Goto(l, at) => pc' \in [Loops -> PCs]
<1>1. "finish" \in PCs /\ "returned" \in PCs /\ "start" \in PCs
  BY DEF PCs
<1>2. GotoFinish(l, err) =>
        pc' \in [Loops -> PCs] /\ frame' \in [Loops -> Frames]
  BY <1>1 DEF GotoFinish, Goto, TypeOK, Frames, NoFrame
<1>3. Return(l, err) =>
        pc' \in [Loops -> PCs] /\ frame' \in [Loops -> Frames]
  BY <1>1 DEF Return, Goto, TypeOK, Frames
<1>4. ASSUME NEW mode \in BOOLEAN, EnterRun(l, mode)
      PROVE  pc' \in [Loops -> PCs] /\ frame' \in [Loops -> Frames]
  BY <1>1, <1>4 DEF EnterRun, Goto, TypeOK, Frames, NoFrame, Outcomes
<1>5. ASSUME NEW at \in PCs, Goto(l, at) PROVE pc' \in [Loops -> PCs]
  BY <1>5 DEF Goto, TypeOK
<1>6. QED
  BY <1>2, <1>3, <1>4, <1>5

LEMMA FlushTyped ==
    ASSUME TypeOK, FlushQueuedUserPrompts
    PROVE  /\ inputQueue' \in Seq(Prompts) /\ delivered' \in Seq(Prompts)
           /\ last' \in Kinds /\ autoLast' \in BOOLEAN
<1>1. inputQueue' \in Seq(Prompts) /\ delivered' \in Seq(Prompts)
  BY DEF FlushQueuedUserPrompts, TypeOK
<1>2. last' \in Kinds /\ autoLast' \in BOOLEAN
  BY DEF FlushQueuedUserPrompts, TypeOK, Kinds
<1>3. QED
  BY <1>1, <1>2

LEMMA CompactTyped ==
    CompactContext => last' \in Kinds \ {"calls"} /\ autoLast' \in BOOLEAN
BY DEF CompactContext

LEMMA TypeLoop ==
    ASSUME TypeOK, NEW l \in Loops, LoopStep(l)
    PROVE  TypeOK'
<1> USE DEF threadVars, chatVars
<1>0. "nil" \in Outcomes /\ "failed" \in Outcomes /\ "cancelled" \in Outcomes
  BY DEF Outcomes
<1>1. {"tools", "top", "compact", "chat", "drain", "exit", "fetch", "none"}
        \subseteq PCs
  BY DEF PCs, RunPCs
<1>2. frame[l].err \in Outcomes
  BY DEF TypeOK, Frames
<1>3. CASE Fetch(l)
  <2>1. pc' \in [Loops -> PCs] /\ frame' \in [Loops -> Frames]
    BY <1>0, <1>3, GotoTyped DEF Fetch
  <2>2. resumePending' \in BOOLEAN
    BY <1>3 DEF Fetch, TypeOK
  <2>3. QED
    BY <1>3, <2>1, <2>2 DEF Fetch, TypeOK
<1>4. CASE Returned(l)
  <2>1. pc' \in [Loops -> PCs] /\ frame' \in [Loops -> Frames]
    <3>1. [frame EXCEPT ![l] = NoFrame] \in [Loops -> Frames]
      BY DEF TypeOK, Frames, NoFrame, Outcomes
    <3>2. QED
      BY <1>0, <1>1, <1>2, <1>4, <3>1, GotoTyped DEF Returned
  <2>2. QED
    BY <1>4, <2>1 DEF Returned, TypeOK
<1>5. CASE Finish(l)
  <2>1. pc' \in [Loops -> PCs]
    BY <1>1, <1>5 DEF Finish, TypeOK
  <2>2. done' \in Seq(Outcomes) /\ Len(done') <= 1 /\ owed' \subseteq Prompts
    BY <1>2, <1>5, FinishRunTyped DEF Finish
  <2>3. QED
    BY <1>5, <2>1, <2>2 DEF Finish, TypeOK
<1>6. CASE Exit(l)
  <2>1. frame' \in [Loops -> Frames]
    BY <1>6 DEF Exit, TypeOK, Frames, NoFrame, Outcomes
  <2>2. [pc EXCEPT ![l] = "none"] \in [Loops -> PCs]
    BY <1>1 DEF TypeOK
  <2>3. cancelled \ {l} \in SUBSET Loops
    BY DEF TypeOK
  <2>4. /\ sessionRunning' \in BOOLEAN
        /\ cancelFunc' \in Loops \cup {NoLoop}
        /\ cancelled' \subseteq Loops
        /\ pc' \in [Loops -> PCs]
    BY <1>6, <2>2, <2>3, StartTyped DEF Exit
  <2>5. suspended' \in BOOLEAN /\ paused' \in BOOLEAN
    BY <1>6 DEF Exit, TypeOK
  <2>6. QED
    BY <1>6, <2>1, <2>4, <2>5 DEF Exit, TypeOK
<1>7. CASE Start(l)
  BY <1>0, <1>1, <1>7, GotoTyped DEF Start, TypeOK
<1>8. CASE Top(l)
  <2>1. pc' \in [Loops -> PCs] /\ frame' \in [Loops -> Frames]
    BY <1>0, <1>1, <1>8, GotoTyped DEF Top, TypeOK
  <2>2. /\ inputQueue' \in Seq(Prompts) /\ delivered' \in Seq(Prompts)
        /\ last' \in Kinds /\ autoLast' \in BOOLEAN
        /\ finishRequested' \in BOOLEAN
    BY <1>8, FlushTyped DEF Top, TypeOK
  <2>3. QED
    BY <1>8, <2>1, <2>2 DEF Top, TypeOK
<1>9. CASE Tools(l)
  <2>1. [frame EXCEPT ![l].eligible = TRUE] \in [Loops -> Frames]
    BY DEF TypeOK, Frames
  <2>2. pc' \in [Loops -> PCs] /\ frame' \in [Loops -> Frames]
    BY <1>0, <1>1, <1>9, <2>1, GotoTyped DEF Tools
  <2>3. /\ last' \in Kinds /\ autoLast' \in BOOLEAN
        /\ finishRequested' \in BOOLEAN
    BY <1>9 DEF Tools, TypeOK, Kinds
  <2>4. QED
    BY <1>9, <2>2, <2>3 DEF Tools, TypeOK
<1>10. CASE Compact(l)
  <2>1. pc' \in [Loops -> PCs] /\ frame' \in [Loops -> Frames]
    BY <1>0, <1>1, <1>10, GotoTyped DEF Compact, TypeOK
  <2>2. last' \in Kinds /\ autoLast' \in BOOLEAN
    BY <1>10, CompactTyped DEF Compact, TypeOK
  <2>3. QED
    BY <1>10, <2>1, <2>2 DEF Compact, TypeOK
<1>11. CASE ChatFails(l)
  <2>1. pc' \in [Loops -> PCs] /\ frame' \in [Loops -> Frames]
    BY <1>0, <1>11, GotoTyped DEF ChatFails
  <2>2. last' \in Kinds /\ autoLast' \in BOOLEAN
    BY <1>11, CompactTyped DEF ChatFails, TypeOK
  <2>3. QED
    BY <1>11, <2>1, <2>2 DEF ChatFails, TypeOK
<1>12. CASE ChatReplies(l)
  <2>1. pc' \in [Loops -> PCs]
    BY <1>1, <1>12, GotoTyped, <1>0 DEF ChatReplies
  <2>2. last' \in Kinds /\ owed' \subseteq Prompts /\ autoLast' \in BOOLEAN
    BY <1>12 DEF ChatReplies, TypeOK, Kinds
  <2>3. QED
    BY <1>12, <2>1, <2>2 DEF ChatReplies, TypeOK
<1>13. CASE Drain(l)
  <2>1. pc' \in [Loops -> PCs] /\ frame' \in [Loops -> Frames]
    BY <1>0, <1>1, <1>13, GotoTyped DEF Drain, TypeOK
  <2>2. /\ inputQueue' \in Seq(Prompts) /\ delivered' \in Seq(Prompts)
        /\ last' \in Kinds /\ autoLast' \in BOOLEAN
    BY <1>13, FlushTyped DEF Drain, TypeOK, Kinds
  <2>3. QED
    BY <1>13, <2>1, <2>2 DEF Drain, TypeOK
<1>14. QED
  BY <1>3, <1>4, <1>5, <1>6, <1>7, <1>8, <1>9, <1>10, <1>11, <1>12, <1>13
  DEF LoopStep

LEMMA TypeNext == TypeOK /\ [Next]_vars => TypeOK'
<1> SUFFICES ASSUME TypeOK, [Next]_vars PROVE TypeOK'
  OBVIOUS
<1>1. CASE Next
  BY <1>1, TypeCall, TypeClient, TypeLoop DEF Next
<1>2. CASE UNCHANGED vars
  BY <1>2 DEF vars, threadVars, chatVars, TypeOK
<1>3. QED
  BY <1>1, <1>2

\* Every field of the thread keeps its type; in particular the channel holds at
\* most one report.
THEOREM TypeCorrect == Spec => []TypeOK
<1>1. QED
  BY TypeInit, TypeNext, PTL DEF Spec

-----------------------------------------------------------------------------
(* One loop at a time *)

LEMMA OneLoopInit == Init => AtMostOneLoop
  BY DEF Init, AtMostOneLoop, Active

\* Starting a loop where the critical section leaves no goroutine behind.
LEMMA StartOneLoop ==
    ASSUME NEW pcs \in [Loops -> PCs], NEW ctxs \in SUBSET Loops,
           \A l \in Loops : pcs[l] = "none",
           StartSessionLocked(pcs, ctxs)
    PROVE  AtMostOneLoop'
<1>1. Fresh \in Loops
  BY StartTyped DEF FreeLoops
<1>2. Active' = {Fresh}
  BY <1>1 DEF StartSessionLocked, Active
<1>3. QED
  BY <1>2 DEF AtMostOneLoop, StartSessionLocked

LEMMA StartUnlessRunningOneLoop ==
    ASSUME TypeOK, AtMostOneLoop, StartUnlessRunning
    PROVE  AtMostOneLoop'
<1>1. CASE sessionRunning
  BY <1>1 DEF StartUnlessRunning, AtMostOneLoop, Active
<1>2. CASE ~sessionRunning
  <2>1. \A l \in Loops : pc[l] = "none"
    BY <1>2 DEF AtMostOneLoop, Active
  <2>2. StartSessionLocked(pc, cancelled)
    BY <1>2 DEF StartUnlessRunning
  <2>3. pc \in [Loops -> PCs] /\ cancelled \in SUBSET Loops
    BY DEF TypeOK
  <2>4. QED
    BY <2>1, <2>2, <2>3, StartOneLoop
<1>3. QED
  BY <1>1, <1>2 DEF TypeOK

\* A step that moves an active goroutine to another place in the loop.
LEMMA MoveOneLoop ==
    ASSUME TypeOK, AtMostOneLoop, NEW l \in Active, NEW at,
           at # "none", Goto(l, at), UNCHANGED <<sessionRunning, cancelFunc>>
    PROVE  AtMostOneLoop'
<1>1. Active' = Active
  BY DEF Active, Goto, TypeOK
<1>2. QED
  BY <1>1 DEF AtMostOneLoop

LEMMA OneLoopLoop ==
    ASSUME TypeOK, AtMostOneLoop, NEW l \in Loops, LoopStep(l)
    PROVE  AtMostOneLoop'
<1>1. l \in Active /\ (pc[l] = "exit" => Exit(l))
  BY DEF LoopStep, Active, Fetch, Returned, Finish, Exit, Start, Top, Tools,
         Compact, ChatFails, ChatReplies, Drain
<1>2. CASE Exit(l)
  <2>1. sessionRunning /\ \A m \in Loops \ {l} : pc[m] = "none"
    BY <1>1 DEF AtMostOneLoop, Active
  <2>2. CASE suspended /\ inputQueue # <<>>
    <3>1. StartSessionLocked([pc EXCEPT ![l] = "none"], cancelled \ {l})
      BY <1>2, <2>2 DEF Exit
    <3>2. /\ [pc EXCEPT ![l] = "none"] \in [Loops -> PCs]
          /\ cancelled \ {l} \in SUBSET Loops
          /\ \A m \in Loops : [pc EXCEPT ![l] = "none"][m] = "none"
      BY <2>1 DEF TypeOK, PCs
    <3>3. QED
      BY <3>1, <3>2, StartOneLoop
  <2>3. CASE ~(suspended /\ inputQueue # <<>>)
    <3>1. Active' = {}
      BY <1>2, <2>1, <2>3 DEF Exit, Active, TypeOK
    <3>2. QED
      BY <1>2, <2>3, <3>1 DEF Exit, AtMostOneLoop
  <2>4. QED
    BY <2>2, <2>3
<1>3. CASE ~Exit(l)
  <2>1. UNCHANGED <<sessionRunning, cancelFunc>>
    BY <1>3 DEF LoopStep, threadVars, Fetch, Returned, Finish, Start, Top,
                Tools, Compact, ChatFails, ChatReplies, Drain
  <2>2. \E at \in PCs \ {"none"} : Goto(l, at)
    BY <1>3 DEF LoopStep, Goto, PCs, RunPCs, Fetch, Returned, Finish, Start,
                Top, Tools, Compact, ChatFails, ChatReplies, Drain, Return,
                GotoFinish, EnterRun
  <2>3. QED
    BY <1>1, <2>1, <2>2, MoveOneLoop
<1>4. QED
  BY <1>2, <1>3

LEMMA OneLoopNext ==
    TypeOK /\ AtMostOneLoop /\ [Next]_vars => AtMostOneLoop'
<1> SUFFICES ASSUME TypeOK, AtMostOneLoop, [Next]_vars PROVE AtMostOneLoop'
  OBVIOUS
<1>1. ASSUME UNCHANGED <<sessionRunning, cancelFunc, pc>> PROVE AtMostOneLoop'
  BY <1>1 DEF AtMostOneLoop, Active
<1>2. CASE Call
  <2>1. UNCHANGED <<sessionRunning, cancelFunc, pc>> \/ StartUnlessRunning
    BY <1>2 DEF Call, StartSession, Pause, Resume, ResumePending, UserPrompt,
                AddPrompt, InterruptSuspended, InterruptRunning, threadVars
  <2>2. QED
    BY <1>1, <2>1, StartUnlessRunningOneLoop
<1>3. CASE ReceiveDone \/ \E c \in Clients : ClientStep(c)
  BY <1>1, <1>3 DEF ReceiveDone, ClientStep, Cancel, Terminate, threadVars
<1>4. CASE \E l \in Loops : LoopStep(l)
  BY <1>4, OneLoopLoop
<1>5. CASE UNCHANGED vars
  BY <1>1, <1>5 DEF vars, threadVars
<1>6. QED
  BY <1>2, <1>3, <1>4, <1>5 DEF Next

\* At most one goroutine runs the session loop, sessionRunning says whether one
\* does, and c.cancelFunc cancels that one.
THEOREM OneLoop == Spec => []AtMostOneLoop
<1>1. Init => TypeOK /\ AtMostOneLoop
  BY TypeInit, OneLoopInit
<1>2. TypeOK /\ AtMostOneLoop /\ [Next]_vars => (TypeOK /\ AtMostOneLoop)'
  BY TypeNext, OneLoopNext
<1>3. QED
  BY <1>1, <1>2, PTL DEF Spec

-----------------------------------------------------------------------------
(* The conversation *)

LEMMA ConversationInit == Init => ConversationInv
  BY DEF Init, ConversationInv, NoPromptLeftUnanswered

\* Steps that leave the conversation alone, and move no goroutine to a place
\* ConversationInv speaks of.
LEMMA ConversationKept ==
    ASSUME TypeOK, ConversationInv, UNCHANGED <<last, finishRequested>>,
           \A m \in Loops :
              \/ pc'[m] = pc[m] /\ frame'[m] = frame[m]
              \/ pc'[m] \in {"none", "fetch", "start", "top", "finish", "exit"}
              \/ pc'[m] = "returned" /\ frame'[m].err # "nil"
    PROVE  ConversationInv'
  BY DEF ConversationInv, NoPromptLeftUnanswered

\* A step of the only active loop: the others have ended, so ConversationInv
\* is a statement about this one.
LEMMA ConversationOfOne ==
    ASSUME TypeOK, AtMostOneLoop, NEW l \in Active,
           NEW at, Goto(l, at),
           at = "tools" => last' \in Pending,
           at = "compact" => last' \notin Pending,
           at = "chat" => last' # "calls",
           at = "drain" => last' = "text",
           at = "returned" /\ frame'[l].err = "nil" => last' # "user",
           finishRequested' => last' \in Pending
                               /\ at \notin {"compact", "chat", "drain"}
    PROVE  ConversationInv'
<1>1. \A m \in Loops : m # l => pc'[m] = "none"
  BY DEF AtMostOneLoop, Active, Goto, TypeOK
<1>2. l \in Loops /\ pc'[l] = at
  BY DEF Active, Goto, TypeOK
<1>3. QED
  BY <1>1, <1>2 DEF ConversationInv, NoPromptLeftUnanswered

LEMMA ConversationLoop ==
    ASSUME TypeOK, AtMostOneLoop, ConversationInv,
           NEW l \in Loops, LoopStep(l)
    PROVE  ConversationInv'
<1> USE DEF threadVars, chatVars
<1>0. l \in Active
  BY DEF LoopStep, Active, Fetch, Returned, Finish, Exit, Start, Top, Tools,
         Compact, ChatFails, ChatReplies, Drain
<1>1. ASSUME NEW err \in Outcomes, Return(l, err)
      PROVE  Goto(l, "returned") /\ frame'[l].err = err
  BY <1>1 DEF Return, TypeOK
<1>2. /\ \A mode \in BOOLEAN : EnterRun(l, mode) => Goto(l, "start")
      /\ \A err \in Outcomes : GotoFinish(l, err) => Goto(l, "finish")
  BY DEF EnterRun, GotoFinish
<1>3. "nil" \in Outcomes /\ "failed" \in Outcomes /\ "cancelled" \in Outcomes
      /\ frame[l].err \in Outcomes
  BY DEF Outcomes, TypeOK, Frames
<1>4. /\ finishRequested \in BOOLEAN
      /\ finishRequested => /\ last \in Pending
                            /\ pc[l] \notin {"compact", "chat", "drain"}
  BY DEF ConversationInv, TypeOK
<1>5. CASE Fetch(l)
  <2>1. Goto(l, "start") \/ Goto(l, "finish")
    BY <1>2, <1>3, <1>5 DEF Fetch
  <2>2. UNCHANGED <<last, finishRequested>>
    BY <1>5 DEF Fetch
  <2>3. QED
    BY <1>0, <1>4, <2>1, <2>2, ConversationOfOne
<1>6. CASE Returned(l)
  <2>1. Goto(l, "finish") \/ Goto(l, "exit") \/ Goto(l, "fetch")
    BY <1>2, <1>3, <1>6 DEF Returned
  <2>2. UNCHANGED <<last, finishRequested>>
    BY <1>6 DEF Returned
  <2>3. QED
    BY <1>0, <1>4, <2>1, <2>2, ConversationOfOne
<1>7. CASE Finish(l)
  <2>1. Goto(l, "exit") /\ UNCHANGED <<last, finishRequested>>
    BY <1>7 DEF Finish, Goto
  <2>2. QED
    BY <1>0, <1>4, <2>1, ConversationOfOne
<1>8. CASE Exit(l)
  <2>1. \A m \in Loops : pc'[m] = pc[m] \/ pc'[m] \in {"none", "fetch"}
    BY <1>8 DEF Exit, StartSessionLocked, TypeOK
  <2>2. \A m \in Loops : m # l => frame'[m] = frame[m]
    BY <1>8 DEF Exit, TypeOK
  <2>3. pc'[l] \in {"none", "fetch"}
    BY <1>8 DEF Exit, StartSessionLocked, TypeOK
  <2>4. QED
    BY <1>8, <2>1, <2>2, <2>3, ConversationKept DEF Exit
<1>9. CASE Start(l)
  <2>1. \/ Goto(l, "returned") /\ frame'[l].err = "failed"
        \/ Goto(l, "top")
    BY <1>1, <1>3, <1>9 DEF Start
  <2>2. UNCHANGED <<last, finishRequested>>
    BY <1>9 DEF Start
  <2>3. QED
    BY <1>0, <1>4, <2>1, <2>2, ConversationOfOne
<1>10. CASE Top(l)
  <2>1. CASE finishRequested
    <3>1. /\ last' \in Pending /\ finishRequested' = FALSE
          /\ Goto(l, "returned")
      BY <1>1, <1>3, <1>4, <1>10, <2>1 DEF Top
    <3>2. QED
      BY <1>0, <3>1, ConversationOfOne DEF Pending
  <2>2. CASE ~finishRequested /\ last \in Pending
    <3>1. last' \in Pending /\ ~finishRequested' /\ Goto(l, "tools")
      BY <1>10, <2>2 DEF Top
    <3>2. QED
      BY <1>0, <3>1, ConversationOfOne
  <2>3. CASE ~finishRequested /\ last \notin Pending
    <3>1. last' \notin Pending /\ ~finishRequested' /\ Goto(l, "compact")
      BY <1>10, <2>3 DEF Top, FlushQueuedUserPrompts, Pending
    <3>2. QED
      BY <1>0, <3>1, ConversationOfOne
  <2>4. QED
    BY <2>1, <2>2, <2>3
<1>11. CASE Tools(l)
  <2>1. last \in Pending
    BY <1>11 DEF Tools, ConversationInv
  <2>2. \/ last' = "results" /\ ~finishRequested'
           /\ (Goto(l, "returned") \/ Goto(l, "top"))
        \/ /\ last' \in Pending
           /\ Goto(l, "returned") /\ frame'[l].err = "failed"
    BY <1>1, <1>3, <1>11, <2>1 DEF Tools
  <2>3. QED
    BY <1>0, <2>2, ConversationOfOne
<1>12. CASE Compact(l) \/ ChatFails(l)
  <2>1. last # "calls" /\ ~finishRequested
    BY <1>4, <1>12 DEF Compact, ChatFails, ConversationInv, Pending
  <2>2. \/ Goto(l, "returned") /\ frame'[l].err # "nil"
        \/ Goto(l, "chat")
    BY <1>1, <1>3, <1>12 DEF Compact, ChatFails
  <2>3. last' # "calls" /\ ~finishRequested'
    BY <1>12, <2>1, CompactTyped DEF Compact, ChatFails
  <2>4. QED
    BY <1>0, <2>2, <2>3, ConversationOfOne
<1>13. CASE ChatReplies(l)
  <2>1. ~finishRequested /\ ~finishRequested'
    BY <1>4, <1>13 DEF ChatReplies, ConversationInv
  <2>2. \/ last' = "text" /\ Goto(l, "drain")
        \/ last' = "calls" /\ Goto(l, "tools")
    BY <1>13 DEF ChatReplies
  <2>3. QED
    BY <1>0, <2>1, <2>2, ConversationOfOne DEF Pending
<1>14. CASE Drain(l)
  <2>1. last = "text" /\ ~finishRequested /\ ~finishRequested'
    BY <1>4, <1>14 DEF Drain, ConversationInv
  <2>2. \/ Goto(l, "top")
        \/ Goto(l, "returned") /\ last' = "text"
    BY <1>1, <1>3, <1>14, <2>1 DEF Drain
  <2>3. QED
    BY <1>0, <2>1, <2>2, ConversationOfOne
<1>15. QED
  BY <1>5, <1>6, <1>7, <1>8, <1>9, <1>10, <1>11, <1>12, <1>13, <1>14
  DEF LoopStep

\* Calls start a goroutine at most; they do not touch the conversation.
LEMMA ConversationCall ==
    ASSUME TypeOK, ConversationInv, Call
    PROVE  ConversationInv'
<1>1. UNCHANGED <<last, finishRequested, frame>>
  BY DEF Call, StartSession, Pause, Resume, ResumePending, UserPrompt,
         AddPrompt, InterruptSuspended, InterruptRunning, chatVars
<1>2. pc' = pc \/ StartUnlessRunning
  BY DEF Call, StartSession, Pause, Resume, ResumePending, UserPrompt,
         AddPrompt, InterruptSuspended, InterruptRunning
<1>3. \A m \in Loops : pc'[m] = pc[m] \/ pc'[m] = "fetch"
  BY <1>2 DEF StartUnlessRunning, StartSessionLocked, TypeOK
<1>4. QED
  BY <1>1, <1>3, ConversationKept

LEMMA ConversationNext ==
    TypeOK /\ AtMostOneLoop /\ ConversationInv /\ [Next]_vars
        => ConversationInv'
<1> SUFFICES ASSUME TypeOK, AtMostOneLoop, ConversationInv, [Next]_vars
             PROVE  ConversationInv'
  OBVIOUS
<1>1. ASSUME UNCHANGED <<last, finishRequested, frame, pc>>
      PROVE  ConversationInv'
  BY <1>1, ConversationKept
<1>2. CASE ReceiveDone \/ \E c \in Clients : ClientStep(c)
  BY <1>1, <1>2 DEF ReceiveDone, ClientStep, Cancel, Terminate, chatVars
<1>3. CASE UNCHANGED vars
  BY <1>1, <1>3 DEF vars, chatVars
<1>4. QED
  BY <1>2, <1>3, ConversationCall, ConversationLoop DEF Next

\* What holds of every reachable state.
IInv == TypeOK /\ AtMostOneLoop /\ ConversationInv

LEMMA Inductive == Spec => []IInv
<1>1. Init => IInv
  BY TypeInit, OneLoopInit, ConversationInit DEF IInv
<1>2. IInv /\ [Next]_vars => IInv'
  BY TypeNext, OneLoopNext, ConversationNext DEF IInv
<1>3. QED
  BY <1>1, <1>2, PTL DEF Spec

\* A Run that returns without error has answered the prompts it took.
THEOREM PromptsAnswered == Spec => []NoPromptLeftUnanswered
<1>1. IInv => NoPromptLeftUnanswered
  BY DEF IInv, ConversationInv
<1>2. QED
  BY <1>1, Inductive, PTL

LEMMA CallsAnsweredStep ==
    IInv /\ [Next]_vars =>
        [last = "calls" => last' \in {"calls", "results"}
                           /\ delivered' = delivered]_vars
<1> SUFFICES ASSUME IInv, Next, last = "calls"
             PROVE  last' \in {"calls", "results"} /\ delivered' = delivered
  OBVIOUS
<1> USE DEF chatVars
<1>1. CASE Call
  BY <1>1 DEF Call, StartSession, Pause, Resume, ResumePending, UserPrompt,
         AddPrompt, InterruptSuspended, InterruptRunning
<1>2. CASE ReceiveDone \/ \E c \in Clients : ClientStep(c)
  BY <1>2 DEF ReceiveDone, ClientStep, Cancel, Terminate
<1>3. ASSUME NEW l \in Loops, LoopStep(l)
      PROVE  last' \in {"calls", "results"} /\ delivered' = delivered
  <2>1. pc[l] \notin {"compact", "chat", "drain"}
    BY DEF IInv, ConversationInv, Pending
  <2>2. QED
    BY <1>3, <2>1 DEF Pending, LoopStep, Fetch, Returned, Finish, Exit, Start, Top,
                      Tools, Compact, ChatFails, ChatReplies, Drain
<1>4. QED
  BY <1>1, <1>2, <1>3 DEF Next

\* Nothing is appended between tool calls and their results.
THEOREM CallsAnswered == Spec => ToolCallsAnsweredFirst
<1>1. QED
  BY Inductive, CallsAnsweredStep, PTL DEF ToolCallsAnsweredFirst, Spec

-----------------------------------------------------------------------------
(* Reports *)

\* Who will report, or why nobody has to: the strengthening under which
\* SilentOnlyWhenSuspended is inductive.  A goroutine on its way out has reported, unless
\* the session was suspended when its Run returned; then whoever ends the suspension
\* starts another goroutine or reports himself.
ReportOnItsWay ==
    waiting /\ done = <<>> /\ last # "none" =>
        \/ suspended
        \/ \E c \in Clients : client[c].at = "terminate"
        \/ \E l \in Loops : pc[l] \notin {"none", "exit"}

LEMMA StartRuns ==
    ASSUME TypeOK, NEW pcs \in [Loops -> PCs], NEW ctxs \in SUBSET Loops,
           StartSessionLocked(pcs, ctxs)
    PROVE  \E l \in Loops : pc'[l] \notin {"none", "exit"}
<1>1. Fresh \in Loops
  BY StartTyped DEF FreeLoops
<1>2. pc'[Fresh] = "fetch"
  BY <1>1 DEF StartSessionLocked
<1>3. QED
  BY <1>1, <1>2

LEMMA StartUnlessRunningRuns ==
    ASSUME TypeOK, StartUnlessRunning
    PROVE  IF sessionRunning THEN pc' = pc
           ELSE \E l \in Loops : pc'[l] \notin {"none", "exit"}
<1>1. pc \in [Loops -> PCs] /\ cancelled \in SUBSET Loops
  BY DEF TypeOK
<1>2. QED
  BY <1>1, StartRuns DEF StartUnlessRunning

LEMMA ReportCall ==
    ASSUME TypeOK, ReportOnItsWay, Call
    PROVE  ReportOnItsWay'
<1> USE DEF chatVars, threadVars
<1>1. CASE StartSession \/ Pause \/ \E p \in Prompts : AddPrompt(p)
  BY <1>1 DEF StartSession, Pause, AddPrompt, ReportOnItsWay
<1>2. CASE Resume \/ ResumePending
  <2>1. /\ UNCHANGED <<waiting, done, last, suspended, client>>
        /\ pc' = pc \/ StartUnlessRunning
    BY <1>2 DEF Resume, ResumePending
  <2>2. QED
    BY <2>1, StartUnlessRunningRuns DEF ReportOnItsWay
<1>3. ASSUME NEW p \in Prompts, UserPrompt(p) PROVE ReportOnItsWay'
  <2>1. /\ UNCHANGED <<waiting, done, last, client>> /\ StartUnlessRunning
        /\ sessionRunning => suspended' = suspended
    BY <1>3 DEF UserPrompt
  <2>2. QED
    BY <2>1, StartUnlessRunningRuns DEF ReportOnItsWay
<1>4. ASSUME NEW c \in Clients, InterruptSuspended(c) PROVE ReportOnItsWay'
  <2>1. client'[c].at = "terminate"
    BY <1>4 DEF InterruptSuspended, TypeOK
  <2>2. QED
    BY <2>1 DEF ReportOnItsWay
<1>5. ASSUME NEW c \in Clients, InterruptRunning(c) PROVE ReportOnItsWay'
  BY <1>5 DEF InterruptRunning, ReportOnItsWay
<1>6. QED
  BY <1>1, <1>2, <1>3, <1>4, <1>5 DEF Call

LEMMA ReportLoop ==
    ASSUME TypeOK, ReportOnItsWay, NEW l \in Loops, LoopStep(l)
    PROVE  ReportOnItsWay'
<1> USE DEF chatVars, threadVars
<1>1. CASE Exit(l)
  <2>1. UNCHANGED <<waiting, done, last, client>> /\ pc[l] = "exit"
    BY <1>1 DEF Exit
  <2>2. CASE suspended /\ inputQueue # <<>>
    <3>1. StartSessionLocked([pc EXCEPT ![l] = "none"], cancelled \ {l})
      BY <1>1, <2>2 DEF Exit
    <3>2. [pc EXCEPT ![l] = "none"] \in [Loops -> PCs] /\ cancelled \ {l} \in SUBSET Loops
      BY DEF TypeOK, PCs
    <3>3. QED
      BY <3>1, <3>2, StartRuns DEF ReportOnItsWay
  <2>3. CASE ~(suspended /\ inputQueue # <<>>)
    <3>1. suspended' = suspended /\ pc' = [pc EXCEPT ![l] = "none"]
      BY <1>1, <2>3 DEF Exit
    <3>2. \A m \in Loops : pc[m] \notin {"none", "exit"} => pc'[m] = pc[m]
      BY <2>1, <3>1 DEF TypeOK
    <3>3. QED
      BY <2>1, <3>1, <3>2 DEF ReportOnItsWay
  <2>4. QED
    BY <2>2, <2>3
<1>2. CASE Finish(l)
  <2>1. done' # <<>>
    BY <1>2 DEF Finish, FinishRun
  <2>2. QED
    BY <2>1 DEF ReportOnItsWay
<1>3. CASE Returned(l)
  <2>1. suspended' = suspended /\ pc' \in [Loops -> PCs]
    BY <1>3 DEF Returned, Goto, GotoFinish, TypeOK, PCs
  <2>2. suspended \/ pc'[l] \in {"finish", "fetch"}
    BY <1>3 DEF Returned, Goto, GotoFinish, TypeOK
  <2>3. QED
    BY <2>1, <2>2 DEF ReportOnItsWay
<1>4. CASE Fetch(l) \/ Start(l) \/ Top(l) \/ Tools(l) \/ Compact(l) \/ ChatFails(l)
           \/ ChatReplies(l) \/ Drain(l)
  <2>1. \E at \in PCs \ {"none", "exit"} : Goto(l, at)
    BY <1>4 DEF Goto, PCs, RunPCs, Fetch, Start, Top, Tools, Compact, ChatFails,
                ChatReplies, Drain, Return, GotoFinish, EnterRun
  <2>2. pc'[l] \notin {"none", "exit"}
    BY <2>1 DEF Goto, TypeOK
  <2>3. QED
    BY <2>2 DEF ReportOnItsWay
<1>5. QED
  BY <1>1, <1>2, <1>3, <1>4 DEF LoopStep

LEMMA ReportNext == TypeOK /\ ReportOnItsWay /\ [Next]_vars => ReportOnItsWay'
<1> SUFFICES ASSUME TypeOK, ReportOnItsWay, [Next]_vars PROVE ReportOnItsWay'
  OBVIOUS
<1> USE DEF chatVars, threadVars
<1>1. CASE ReceiveDone
  BY <1>1 DEF ReceiveDone, ReportOnItsWay
<1>2. ASSUME NEW c \in Clients, Cancel(c) PROVE ReportOnItsWay'
  <2>1. \A d \in Clients : client[d].at = "terminate" => client'[d] = client[d]
    BY <1>2 DEF Cancel, TypeOK
  <2>2. QED
    BY <1>2, <2>1 DEF Cancel, ReportOnItsWay
<1>3. ASSUME NEW c \in Clients, Terminate(c) PROVE ReportOnItsWay'
  <2>1. done' # <<>>
    BY <1>3 DEF Terminate, FinishRun
  <2>2. QED
    BY <2>1 DEF ReportOnItsWay
<1>4. CASE UNCHANGED vars
  BY <1>4 DEF vars, ReportOnItsWay
<1>5. QED
  BY <1>1, <1>2, <1>3, <1>4, ReportCall, ReportLoop DEF Next, ClientStep

\* RunCommand never waits for a report that nobody will send: once a conversation was
\* begun and no goroutine is left, the report is there or was received, or the session
\* is suspended for the user.
THEOREM NeverSilent == Spec => []SilentOnlyWhenSuspended
<1>1. Init => TypeOK /\ ReportOnItsWay
  BY TypeInit DEF Init, ReportOnItsWay
<1>2. TypeOK /\ ReportOnItsWay /\ [Next]_vars => (TypeOK /\ ReportOnItsWay)'
  BY TypeNext, ReportNext
<1>3. TypeOK /\ ReportOnItsWay => SilentOnlyWhenSuspended
  BY DEF ReportOnItsWay, SilentOnlyWhenSuspended, Quiet, Active
<1>4. QED
  BY <1>1, <1>2, <1>3, PTL DEF Spec

-----------------------------------------------------------------------------
(* The thread implements the mailbox *)

LEMMA MailboxStep == IInv /\ [Next]_vars => [Mailbox!Next]_Mailbox!mailbox
<1> SUFFICES ASSUME IInv, [Next]_vars
             PROVE  [Mailbox!Next]_Mailbox!mailbox
  OBVIOUS
<1> USE DEF Mailbox!Next, Mailbox!mailbox
<1>0. sessionRunning \in BOOLEAN
  BY DEF IInv, TypeOK
<1>1. CASE UNCHANGED <<inputQueue, delivered, sessionRunning>>
  BY <1>1
<1>2. ASSUME UNCHANGED <<inputQueue, delivered>>, sessionRunning' = TRUE
      PROVE  Mailbox!Next
  BY <1>2 DEF Mailbox!BeginWork
<1>3. ASSUME StartUnlessRunning
      PROVE  sessionRunning' \in {sessionRunning, TRUE}
  BY <1>3 DEF StartUnlessRunning, StartSessionLocked
<1>4. CASE StartSession \/ Pause
  BY <1>1, <1>4 DEF StartSession, Pause, threadVars, chatVars
<1>5. CASE Resume \/ ResumePending
  BY <1>1, <1>2, <1>3, <1>5 DEF Resume, ResumePending, chatVars
<1>6. ASSUME NEW p \in Prompts, UserPrompt(p) \/ AddPrompt(p)
      PROVE  Mailbox!Next
  <2>1. p \notin Mailbox!Range(inputQueue) \cup Mailbox!Range(delivered)
    BY <1>6 DEF UserPrompt, AddPrompt, Fits, Elems, Mailbox!Range
  <2>2. sessionRunning' \in {sessionRunning, TRUE}
    BY <1>3, <1>6 DEF UserPrompt, AddPrompt, threadVars
  <2>3. inputQueue' = Append(inputQueue, p) /\ UNCHANGED delivered
    BY <1>6 DEF UserPrompt, AddPrompt, chatVars
  <2>4. QED
    BY <2>1, <2>2, <2>3 DEF Mailbox!Submit
<1>7. ASSUME NEW c \in Clients, InterruptSuspended(c) \/ InterruptRunning(c)
      PROVE  [Mailbox!Next]_Mailbox!mailbox
  BY <1>7 DEF InterruptSuspended, InterruptRunning, Mailbox!Discard, chatVars
<1>8. CASE ReceiveDone \/ \E c \in Clients : ClientStep(c)
  BY <1>1, <1>8 DEF ReceiveDone, ClientStep, Cancel, Terminate, threadVars,
                    chatVars
<1>9. ASSUME NEW l \in Loops, LoopStep(l)
      PROVE  [Mailbox!Next]_Mailbox!mailbox
  <2>1. sessionRunning
    BY <1>9 DEF IInv, AtMostOneLoop, Active, LoopStep, Fetch, Returned,
                Finish, Exit, Start, Top, Tools, Compact, ChatFails,
                ChatReplies, Drain
  <2>2. CASE Exit(l)
    BY <2>2 DEF Exit, StartSessionLocked, Mailbox!BeginWork, Mailbox!EndWork,
                chatVars
  <2>3. CASE Top(l) \/ Drain(l)
    BY <1>1, <2>1, <2>3 DEF Top, Drain, FlushQueuedUserPrompts, Mailbox!Take,
                            threadVars, chatVars
  <2>4. CASE \/ Fetch(l) \/ Returned(l) \/ Finish(l) \/ Start(l) \/ Tools(l)
             \/ Compact(l) \/ ChatFails(l) \/ ChatReplies(l)
    BY <1>1, <2>4 DEF Fetch, Returned, Finish, Start, Tools, Compact,
                      ChatFails, ChatReplies, threadVars, chatVars
  <2>5. QED
    BY <1>9, <2>2, <2>3, <2>4 DEF LoopStep
<1>10. CASE UNCHANGED vars
  BY <1>1, <1>10 DEF vars, threadVars, chatVars
<1>11. QED
  BY <1>4, <1>5, <1>6, <1>7, <1>8, <1>9, <1>10 DEF Next, Call

\* Prompts reach the conversation in order, once, only while a loop runs, and
\* only an interrupt of a running loop drops them.
THEOREM MailboxImplemented == Spec => ImplementsMailbox
<1>1. Init => Mailbox!Init
  BY DEF Init, Mailbox!Init
<1>2. QED
  BY <1>1, Inductive, MailboxStep, PTL
  DEF Spec, ImplementsMailbox, Mailbox!Spec
=============================================================================
