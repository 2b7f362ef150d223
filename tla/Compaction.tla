----------------------------- MODULE Compaction -----------------------------
(***************************************************************************)
(* The conversation of a session under context compaction: compactContext  *)
(* (pkg/core/session_runtime.go) with the compactor every session has,     *)
(* KimiCompactor (compact_kimi.go), wrapped in ChatCompactorVerifier       *)
(* (compact_verifier.go), at the places of SweSession.Run that append to   *)
(* the messages and compact them.                                          *)
(*                                                                         *)
(* A message is what compaction tells apart: its kind, the identifier of   *)
(* its tool call, whether it has text besides the call, and "covers", the  *)
(* numbers of the appended messages it stands for: its own, or for a       *)
(* summary those of all the messages summarised.  A message has one call;  *)
(* the identifiers of calls are fresh.                                     *)
(***************************************************************************)
EXTENDS Integers, SequencesExt, Sublists

CONSTANTS
    Keep,        \* nmessages of the compactor
    MaxAppended  \* bound: messages appended to the conversation

ASSUME CompactionAssumption == Keep \in Nat \ {0} /\ MaxAppended \in Nat \ {0, 1}

VARIABLES
    messages, \* SweSession.messages
    stage,    \* "open": before a request; "asking": in runNonStreamingChat
    appended, \* history: messages appended so far
    prompts   \* history: the numbers of the prompts among them

vars == <<messages, stage, appended, prompts>>

UserKinds == {"prompt", "results", "agents", "summary"}
AssistantKinds == {"reply", "calls"}
Kinds == UserKinds \cup AssistantKinds \cup {"system"}

NoCall == 0
Message(kind, n, call, text) ==
    [kind |-> kind, covers |-> {n}, call |-> call, text |-> text]

\* Run is entered with a prompt in the conversation.
Init ==
    /\ messages = <<Message("system", 1, NoCall, TRUE),
                    Message("prompt", 2, NoCall, TRUE)>>
    /\ stage = "open" /\ appended = 2 /\ prompts = {2}

-----------------------------------------------------------------------------
(* KimiCompactor *)

Stretches == {r \in (1 .. MaxAppended) \X (1 .. MaxAppended) : r[1] <= r[2]}

\* The ways compactChunks may cut the messages r[1] .. r[2] in chunks, sets of their
\* places: one chunk, or the cuts of both halves when the model rejects the request
\* as too long.
Chunks[r \in Stretches] ==
    LET mid == r[1] + (r[2] - r[1] + 1) \div 2
    IN  {<<r[1] .. r[2]>>} \cup
        (IF r[1] = r[2] THEN {}
         ELSE {h[1] \o h[2] : h \in Chunks[<<r[1], mid - 1>>] \X Chunks[<<mid, r[2]>>]})

\* The summaries of a history cut in chunks.
Summaries(history, chunks) ==
    [c \in DOMAIN chunks |->
        [kind |-> "summary", covers |-> UNION {history[i].covers : i \in chunks[c]},
         call |-> NoCall, text |-> TRUE]]

Counted(history) ==
    {i \in DOMAIN history : history[i].kind \in UserKinds \cup AssistantKinds}

\* prepareMessages: the last Keep messages of user and assistant are preserved,
\* and the tool calls right before them; 1 when there are not so many.
PreserveStart(history) ==
    LET tails == {i \in Counted(history) :
                    Cardinality({j \in Counted(history) : j >= i}) = Keep}
        start == CHOOSE i \in tails : TRUE
    IN  IF tails = {} THEN 1
        ELSE IF start > 1 /\ history[start - 1].kind = "calls" THEN start - 1
        ELSE start

FirstUser(preserved) ==
    SelectInSeq(preserved, LAMBDA m : m.kind \in UserKinds)

\* Mistake: the message moved to the front stays in its place too.
MergeKeepsFirstUser(compacted, preserved) ==
    LET f == FirstUser(preserved)
    IN  IF f = 0 THEN compacted \o preserved
        ELSE <<preserved[f]>> \o compacted \o preserved

MergeCompactedWithPreserved(compacted, preserved) ==
    LET f == FirstUser(preserved)
    IN  IF f = 0 THEN compacted \o preserved
        ELSE <<preserved[f]>> \o compacted \o RemoveAt(preserved, f)

\* What CompactMessages may return: the history itself when nothing is to be
\* compacted or the model fails, the merged one otherwise.
KimiCompactions(history) ==
    LET start == PreserveStart(history)
        toCompact == SubSeq(history, 1, start - 1)
        preserved == SubSeq(history, start, Len(history))
    IN  {history} \cup
        (IF start = 1 THEN {}
         ELSE {MergeCompactedWithPreserved(Summaries(toCompact, chunks), preserved) :
                  chunks \in Chunks[<<1, start - 1>>]})

-----------------------------------------------------------------------------
(* ChatCompactorVerifier *)

CallIDs(s) == {m.call : m \in {x \in ToSet(s) : x.kind = "calls"}} \ {NoCall}
ResponseIDs(s) == {m.call : m \in {x \in ToSet(s) : x.kind = "results"}}

\* Mistake: only results without their call are looked for.
OrphanResult(m, s) == m.kind = "results" /\ m.call \notin CallIDs(s)

Unmatched(m, s) ==
    \/ m.kind = "calls" /\ m.call \notin ResponseIDs(s)
    \/ m.kind = "results" /\ m.call \notin CallIDs(s)

\* An unmatched call or result goes; a message with text left stays.
ValidateCompactedMessages(s) ==
    LET kept == KeptIf(s, LAMBDA m : ~Unmatched(m, s) \/ m.text)
    IN  [i \in DOMAIN kept |->
            IF Unmatched(kept[i], s)
            THEN [kept[i] EXCEPT !.kind = "reply", !.call = NoCall]
            ELSE kept[i]]

\* compactContext; a snapshot that cannot be written ends Run before this.
CompactContext ==
    \E compacted \in KimiCompactions(messages) :
        messages' = ValidateCompactedMessages(compacted)

-----------------------------------------------------------------------------
(* SweSession.Run *)

PendingCalls == Last(messages).kind = "calls"

AppendMessage(kind, call, text) ==
    /\ appended < MaxAppended
    /\ messages' = Append(messages, Message(kind, appended + 1, call, text))
    /\ appended' = appended + 1

\* A prompt from the queue, or the one that continues the work.
Prompt ==
    /\ stage = "open" /\ ~PendingCalls
    /\ AppendMessage("prompt", NoCall, TRUE)
    /\ prompts' = prompts \cup {appended'}
    /\ UNCHANGED stage

\* executeToolCalls; the instructions of an AGENTS.md file may follow.
Tools ==
    /\ stage = "open" /\ PendingCalls
    /\ \/ AppendMessage("results", Last(messages).call, FALSE)
       \/ /\ appended + 2 <= MaxAppended
          /\ messages' = messages \o
                <<Message("results", appended + 1, Last(messages).call, FALSE),
                  Message("agents", appended + 2, NoCall, TRUE)>>
          /\ appended' = appended + 2
    /\ UNCHANGED <<stage, prompts>>

\* maybeCompactContext, then the request is made.
Ask ==
    /\ stage = "open" /\ ~PendingCalls
    /\ stage' = "asking"
    /\ CompactContext \/ UNCHANGED messages
    /\ UNCHANGED <<appended, prompts>>

TooManyInputTokens ==
    /\ stage = "asking"
    /\ CompactContext
    /\ UNCHANGED <<stage, appended, prompts>>

ChatFails ==
    /\ stage = "asking"
    /\ stage' = "open"
    /\ UNCHANGED <<messages, appended, prompts>>

ChatReplies ==
    /\ stage = "asking"
    /\ stage' = "open"
    /\ \/ AppendMessage("reply", NoCall, TRUE)
       \/ \E text \in BOOLEAN : AppendMessage("calls", appended + 1, text)
    /\ UNCHANGED prompts

Next ==
    \/ Prompt \/ Tools \/ Ask \/ TooManyInputTokens \/ ChatFails \/ ChatReplies

Spec == Init /\ [][Next]_vars

-----------------------------------------------------------------------------
\* What a request sends has every tool call with a result and every result
\* with a call, after any number of compactions and failed requests.
CallsAndResultsPaired == stage = "asking" => CallIDs(messages) = ResponseIDs(messages)

\* No message is sent twice, neither verbatim nor in two summaries nor both.
NothingTwice ==
    \A i, j \in DOMAIN messages :
        i # j => messages[i].covers \cap messages[j].covers = {}

\* A prompt is never lost: it is in the conversation or in a summary of it.
NoPromptLost == prompts \subseteq UNION {messages[i].covers : i \in DOMAIN messages}

\* The prompts not summarised yet stay in the order in which they were given.
PromptsInOrder ==
    \A i, j \in DOMAIN messages :
        /\ i < j /\ messages[i].kind = "prompt" /\ messages[j].kind = "prompt"
        => \A a \in messages[i].covers, b \in messages[j].covers : a < b

\* What a request sends has every call with its result, nothing twice, and every
\* prompt in order, after any number of compactions (compact_kimi.go,
\* compact_verifier.go).
CompactionKeeps ==
    CallsAndResultsPaired /\ NothingTwice /\ NoPromptLost /\ PromptsInOrder

\* Compaction never makes the conversation longer, however often the history
\* has to be cut: the loop that compacts until the request fits is sound.
CompactionNeverGrows ==
    [][appended' = appended => Len(messages') <= Len(messages)]_vars

=============================================================================
