--------------------------- MODULE StepCompaction ---------------------------
(***************************************************************************)
(* CompactMessages (pkg/core/compact.go, compact_helpers.go), the          *)
(* compactor a session uses when none is configured: eight steps that      *)
(* replace what was said about a file by the file, keep the last to-do     *)
(* list, clip and prune the results of tools, drop reasoning and old       *)
(* messages while the conversation is too long, and last remove calls      *)
(* without a result and results without a call.                            *)
(*                                                                         *)
(* A part of a message has what the steps look at: the lengths of its text *)
(* and of its reasoning, its call, the call its result answers, and the    *)
(* length of the output in that result.  Lengths are in units; a call and  *)
(* the frame of a result or of a message have length 1.                    *)
(***************************************************************************)
EXTENDS Integers, FiniteSets, SequencesExt, Sublists

CONSTANTS
    NumFiles,   \* files, numbered in the order of their paths
    FileContents, \* the lengths a file may have; UnreadableFile among them
    Rounds,     \* the answers of the model: sequences of [tool, file, out]
    Limit,      \* contextLimit, in units
    ClipTo,     \* what a clipped output is at most, in units
    MaxCalls,   \* bound: tool calls made
    MaxPrompts  \* bound: prompts given

\* What the theorems assume of the constants.
StepAssumption ==
    /\ NumFiles \in Nat /\ FileContents \subseteq Nat \cup {-1}
    /\ Rounds \subseteq Seq([tool : STRING, file : Nat, out : Nat])
    /\ \A round \in Rounds : \A k \in DOMAIN round : round[k].tool # "none"
    /\ Limit \in Nat /\ ClipTo \in Nat

VARIABLES
    history,  \* the messages
    disk,     \* file -> length of its content
    calls,    \* history: tool calls made, the last identifier
    given,    \* history: prompts given
    before    \* history: the messages the last compaction was given, or none

stepsVars == <<history, disk, calls, given, before>>

Files == 1 .. NumFiles
UnreadableFile == -1
NoTool == [id |-> 0, tool |-> "none", file |-> 0]
Empty == [text |-> 0, reason |-> 0, call |-> NoTool, result |-> NoTool, out |-> 0]

StepMessage(role, parts) == [role |-> role, parts |-> parts, prompt |-> 0, file |-> 0]
PromptMessage(n) ==
    [StepMessage("user", <<[Empty EXCEPT !.text = 1]>>) EXCEPT !.prompt = n]
CompactedFile(f, length) ==
    [StepMessage("user", <<[Empty EXCEPT !.text = length + 1]>>) EXCEPT !.file = f]

IsCompactedFile(m) == m.file # 0

FileTools == {"vfsRead", "vfsWrite", "vfsEdit"}
TodoTools == {"todoRead", "todoWrite"}

ResultLength(p) == IF p.result = NoTool THEN 0 ELSE 1 + p.out
PartLength(p) ==
    p.text + p.reason + (IF p.call = NoTool THEN 0 ELSE 1) + ResultLength(p)
MessageSize(m) == 1 + Total([j \in DOMAIN m.parts |-> PartLength(m.parts[j])])
EstimateSize(h) == Total([i \in DOMAIN h |-> MessageSize(h[i])])

IsAboveThreshold(h) == 10 * EstimateSize(h) > 8 * Limit

IsEmptyPart(p) ==
    p.text = 0 /\ p.reason = 0 /\ p.call = NoTool /\ p.result = NoTool

\* The parts of the messages, changed.
EachPart(h, changed(_)) ==
    [i \in DOMAIN h |-> [j \in DOMAIN h[i].parts |-> changed(h[i].parts[j])]]

\* The messages with new parts; parts left empty go, and messages left without parts.
WithParts(m, new) == [m EXCEPT !.parts = KeptIf(new, LAMBDA p : ~IsEmptyPart(p))]
Rewrite(h, new) ==
    KeptIf([i \in DOMAIN h |-> WithParts(h[i], new[i])], LAMBDA m : m.parts # <<>>)

\* The part without its call and result when they are not to stay.
Stripped(p, keepCall, keepResult) ==
    [p EXCEPT !.call = IF keepCall THEN @ ELSE NoTool,
              !.result = IF keepResult THEN @ ELSE NoTool,
              !.out = IF keepResult THEN @ ELSE 0]

-----------------------------------------------------------------------------
(* Step 1: what was said about a file is replaced by the file *)

FilePathsForPart(p) == {c.file : c \in {d \in {p.call, p.result} : d.tool \in FileTools}}
MessageFilePaths(m) == UNION {FilePathsForPart(m.parts[j]) : j \in DOMAIN m.parts}

\* The text and the reasoning beside the calls are about all their files.
PathsOf(m, j) ==
    IF FilePathsForPart(m.parts[j]) = {} /\ m.role = "assistant"
           /\ m.parts[j].text + m.parts[j].reason > 0
    THEN MessageFilePaths(m)
    ELSE FilePathsForPart(m.parts[j])

References(h, f) ==
    {r \in UNION {{i} \X DOMAIN h[i].parts : i \in DOMAIN h} : f \in PathsOf(h[r[1]], r[2])}

\* Of a result with content only the content counts.
SummaryLengthForFile(p) ==
    p.text + p.reason + (IF p.result.tool = "vfsRead" THEN p.out ELSE ResultLength(p))

ReferencesLength(h, f) ==
    MapThenSumSet(LAMBDA r : SummaryLengthForFile(h[r[1]].parts[r[2]]), References(h, f))

Replaced(h, content) ==
    {f \in Files : /\ References(h, f) # {} /\ content[f] # UnreadableFile
                   /\ ReferencesLength(h, f) > content[f]}

ReplaceFileParts(h, content) ==
    LET replaced == Replaced(h, content)
        gone == UNION {References(h, f) : f \in replaced}
        lastMention(f) == CHOOSE i \in DOMAIN h :
            /\ \E r \in References(h, f) : r[1] = i
            /\ \A r \in References(h, f) : r[1] <= i
        rest(i) == Kept(h[i].parts, {j \in DOMAIN h[i].parts : <<i, j>> \notin gone})
        inserted(i) == Kept([f \in Files |-> CompactedFile(f, content[f])],
                            {f \in replaced : lastMention(f) = i})
        message(i) == IF rest(i) = <<>> THEN <<>> ELSE <<[h[i] EXCEPT !.parts = rest(i)]>>
    IN  IF replaced = {} THEN h
        ELSE Flat([i \in DOMAIN h |-> message(i) \o inserted(i)])

-----------------------------------------------------------------------------
(* Steps 2 to 4: results of tools *)

\* The calls, and the calls answered, in the order in which they are found.
Interactions(h, tools) ==
    LET parts == Flat([i \in DOMAIN h |-> h[i].parts])
        found == KeptIf(Flat([k \in DOMAIN parts |-> <<parts[k].call, parts[k].result>>]),
                        LAMBDA c : c.tool \in tools)
    IN  [k \in DOMAIN found |-> found[k].id]

\* Calls and results of these tools go unless the identifier is kept.
KeepOnly(h, tools, ids) ==
    LET kept(c) == c.tool \notin tools \/ c.id \in ids
    IN  Rewrite(h, EachPart(h, LAMBDA p : Stripped(p, kept(p.call), kept(p.result))))

KeepLastTodo(h) ==
    LET todos == Interactions(h, TodoTools)
    IN  IF todos = <<>> THEN h ELSE KeepOnly(h, TodoTools, {Last(todos)})

ClipRunBashResponses(h) ==
    LET clipped(p) ==
            [p EXCEPT !.out = IF p.result.tool = "runBash" /\ @ > ClipTo THEN ClipTo ELSE @]
    IN  Rewrite(h, EachPart(h, clipped))

\* The last three interactions with each of the two search tools stay.
PruneGrepFind(h) ==
    LET distinct(tool) == FoldLeft(LAMBDA s, id : IF Contains(s, id) THEN s ELSE Append(s, id),
                                   <<>>, Interactions(h, {tool}))
        lastThree(tool) ==
            LET s == distinct(tool) IN {s[i] : i \in {k \in DOMAIN s : k > Len(s) - 3}}
    IN  IF ~IsAboveThreshold(h) THEN h
        ELSE KeepOnly(h, {"vfsGrep", "vfsFind"}, lastThree("vfsGrep") \cup lastThree("vfsFind"))

-----------------------------------------------------------------------------
(* Steps 5 to 7: the oldest goes until the conversation is short enough *)

\* The indexes dropped, from the oldest, while the size is above the target.
DroppedUntil(h, target, may(_), size(_)) ==
    {i \in DOMAIN h : may(i) /\
        EstimateSize(h) - MapThenSumSet(size, {j \in 1 .. i - 1 : may(j)}) > target}

Without(h, gone) == Kept(h, DOMAIN h \ gone)

\* The reasoning of an assistant message is one part.
TrimAssistantThinking(h) ==
    LET reasoning(i) == Total([j \in DOMAIN h[i].parts |-> h[i].parts[j].reason])
        gone == DroppedUntil(h, Limit \div 2,
                             LAMBDA i : h[i].role = "assistant" /\ reasoning(i) > 0,
                             reasoning)
    IN  IF ~IsAboveThreshold(h) THEN h
        ELSE Flat([i \in DOMAIN h |->
                 IF i \notin gone THEN <<h[i]>>
                 ELSE LET m == <<h[i]>> IN Rewrite(m, EachPart(m, LAMBDA p : [p EXCEPT !.reason = 0]))])

IsExplicitUserText(m) ==
    /\ m.role = "user" /\ ~IsCompactedFile(m)
    /\ \A j \in DOMAIN m.parts : m.parts[j].call = NoTool /\ m.parts[j].result = NoTool
    /\ \E j \in DOMAIN m.parts : m.parts[j].text > 0

MayDrop(h, i) ==
    /\ i > 1 /\ h[i].role # "system"
    /\ ~IsCompactedFile(h[i]) /\ ~IsExplicitUserText(h[i])

DropOldMessages(h) ==
    IF ~IsAboveThreshold(h) THEN h
    ELSE Without(h, DroppedUntil(h, Limit \div 2, LAMBDA i : MayDrop(h, i),
                                 LAMBDA i : MessageSize(h[i])))

DropOldCompactedMessages(h) ==
    LET latest == SelectLastInSeq(h, IsCompactedFile)
    IN  IF ~IsAboveThreshold(h) THEN h
        ELSE Without(h, DroppedUntil(h, (65 * Limit) \div 100,
                                     LAMBDA i : IsCompactedFile(h[i]) /\ i # latest,
                                     LAMBDA i : MessageSize(h[i])))

-----------------------------------------------------------------------------
(* Step 8 and the whole *)

PartsOf(h) == UNION {ToSet(h[i].parts) : i \in DOMAIN h}
CalledIDs(h) == {p.call.id : p \in PartsOf(h)} \ {0}
AnsweredIDs(h) == {p.result.id : p \in PartsOf(h)} \ {0}

\* Mistake: only calls without a result go.
EnsureCallsAnswered(h) ==
    LET answered == AnsweredIDs(h)
    IN  Rewrite(h, EachPart(h, LAMBDA p : Stripped(p, p.call.id \in answered, TRUE)))

EnsureToolCallResponsePairs(h) ==
    LET called == CalledIDs(h)
        answered == AnsweredIDs(h)
    IN  Rewrite(h, EachPart(h, LAMBDA p : Stripped(p, p.call.id \in answered, p.result.id \in called)))

CompactedMessages(h, content) ==
    LET files == ReplaceFileParts(h, content)
        results == PruneGrepFind(ClipRunBashResponses(KeepLastTodo(files)))
        short == DropOldCompactedMessages(DropOldMessages(TrimAssistantThinking(results)))
    IN  EnsureToolCallResponsePairs(short)

-----------------------------------------------------------------------------
(* The conversation *)

StepsInit ==
    /\ history = <<StepMessage("system", <<[Empty EXCEPT !.text = 1]>>), PromptMessage(1)>>
    /\ disk \in [Files -> FileContents]
    /\ calls = 0 /\ given = 1 /\ before = <<>>

\* A prompt: the user's, or the one that continues the work.
NewPrompt ==
    /\ given < MaxPrompts
    /\ history' = Append(history, PromptMessage(given + 1))
    /\ given' = given + 1 /\ before' = <<>>
    /\ UNCHANGED <<disk, calls>>

\* The model answers with text, reasoning and calls, the tools run, and their
\* results go into one message; writing a file leaves it with some content.
Round(round, reason) ==
    /\ calls + Len(round) <= MaxCalls
    /\ LET call(k) == [id |-> calls + k, tool |-> round[k].tool, file |-> round[k].file]
           asked == [k \in DOMAIN round |-> [Empty EXCEPT !.call = call(k)]]
           answered == [k \in DOMAIN round |->
                            [Empty EXCEPT !.result = call(k), !.out = round[k].out]]
       IN  history' = history \o
              <<StepMessage("assistant",
                        <<[Empty EXCEPT !.text = 1, !.reason = reason]>> \o asked),
                StepMessage("user", answered)>>
    /\ LET written == {round[k].file : k \in {i \in DOMAIN round : round[i].tool = "vfsWrite"}}
       IN  \E length \in FileContents \ {UnreadableFile} :
               disk' = [f \in Files |-> IF f \in written THEN length ELSE disk[f]]
    /\ calls' = calls + Len(round) /\ before' = <<>>
    /\ UNCHANGED given

\* compactContext, when the window is full or the model says so.
CompactMessages ==
    /\ Last(history).role = "user" /\ before = <<>>
    /\ history' = CompactedMessages(history, disk)
    /\ before' = history
    /\ UNCHANGED <<disk, calls, given>>

StepsNext ==
    \/ NewPrompt \/ CompactMessages
    \/ \E round \in Rounds, reason \in {0, 2} : Round(round, reason)

StepsSpec == StepsInit /\ [][StepsNext]_stepsVars

-----------------------------------------------------------------------------
(* Properties *)

\* What CompactMessages leaves has a result for every call and a call for every
\* result, however often it cut between them before.
StepsKeepPairs == before # <<>> => CalledIDs(history) = AnsweredIDs(history)

PromptOf(m) == IF m.prompt = 0 THEN <<>> ELSE <<m.prompt>>
PromptsOf(h) == Flat([i \in DOMAIN h |-> PromptOf(h[i])])

\* Every prompt is still there, in the order in which it was given.
StepsKeepPrompts ==
    PromptsOf(history) = [i \in 1 .. given |-> i]

\* While nothing had to be dropped for length, the model still sees every file
\* it has read or written: its calls, or the content the file has now.
StepsKeepFiles ==
    before # <<>> /\ ~IsAboveThreshold(ReplaceFileParts(before, disk)) =>
        \A f \in Files : References(before, f) # {} =>
            \/ References(history, f) # {}
            \/ \E i \in DOMAIN history :
                   history[i] = CompactedFile(f, disk[f]) /\ disk[f] # UnreadableFile

\* Compaction by steps keeps calls with their results, the prompts, and the last
\* text of every file (compact_helpers.go).
StepsKeep == StepsKeepPairs /\ StepsKeepPrompts /\ StepsKeepFiles
=============================================================================
