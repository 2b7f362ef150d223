---------------------------- MODULE ProviderWire ----------------------------
(***************************************************************************)
(* A session's requests on the wire of each provider (pkg/models): how the *)
(* messages become a request of the OpenAI, Anthropic, Ollama, Responses   *)
(* and JetBrains APIs, what the clients take from a reply that may be cut, *)
(* what UnstreamingChatModel makes of it, and what the server sees when    *)
(* the session sends the conversation again with the results of the calls. *)
(* Part and text contents are names; a part is a call, a result, a text or *)
(* a thinking block.                                                       *)
(***************************************************************************)
EXTENDS ProviderErrors, SequencesExt, Sublists

CONSTANTS Names,        \* what a part may be called by a model
          Replies,      \* what a model may say: sequences of parts
          Refusals,     \* replies with an error status, and when the limit behind it ends
          Failures,     \* errors of the round trip
          StreamErrors, \* error events inside a reply
          Settings,     \* options of a run: thinking, temperature, top_p, max tokens
          ToolNames,    \* sequences of tool names, in the orders a registry lists them
          MaxRounds     \* bound: replies and prompts of a conversation

\* A part is named by what is in it, one after another; the calls and results of a
\* round have its number in front.
Contents == {"rules", "prompt", "next", "default"} \cup Names \cup Nat
Part(kinds) == [is : kinds, id : Seq(Contents), good : BOOLEAN]

\* What the theorems assume of the constants: a model has no results to say, a
\* registry lists the same tools in any order, and an output limit is a number.
WireAssumption ==
    /\ Replies \subseteq Seq(Part({"text", "think", "call"}))
    /\ \A names, others \in ToolNames : ToSet(names) = ToSet(others)
    /\ \A set \in Settings : set.max \in Int
    /\ MaxRounds \in Nat

VARIABLES provider, setting,
          chat,      \* the session's messages
          order,     \* the tools as the registry listed them for this run
          wire,      \* the last request, <<>> before the first
          phase,     \* "send", "asked", "tools" or "done"
          error,     \* the error of the last attempt
          due,       \* when the limit that refused the last attempt ends
          said,      \* calls the server has sent to their last argument
          rounds
wireVars == <<provider, setting, chat, order, wire, phase, error, due, said, rounds>>

Text(id) == [is |-> "text", id |-> id, good |-> TRUE]
Of(parts, kinds) == KeptIf(parts, LAMBDA p : p.is \in kinds)
Has(parts, kinds) == \E i \in DOMAIN parts : parts[i].is \in kinds
LastOf(parts, kinds) == LET s == Of(parts, kinds) IN IF s = <<>> THEN <<>> ELSE <<s[Len(s)]>>
\* Several parts of one kind written one after another: their names in a row.
Joined(parts, kinds) ==
    LET s == Of(parts, kinds)
    IN IF s = <<>> THEN <<>>
       ELSE <<[s[1] EXCEPT !.id = Flat([i \in DOMAIN s |-> s[i].id]), !.good = TRUE]>>
Unsigned(parts) == [i \in DOMAIN parts |-> [parts[i] EXCEPT !.good = FALSE]]
EachMessage(Convert(_), ms) == Flat([i \in DOMAIN ms |-> Convert(ms[i])])
One(role, blocks) == <<[role |-> role, blocks |-> blocks]>>

----------------------------------------------------------------------------
\* convertToOpenAIMessage: one message each; of several results, and of several
\* texts beside a call, the last one is sent.
ToOpenAI(m) ==
    One(IF Has(m.parts, {"result"}) THEN "tool" ELSE m.role,
        Unsigned(Joined(m.parts, {"think"}))
        \o (IF Has(m.parts, {"call", "result"}) THEN LastOf(m.parts, {"text", "result"})
            ELSE Joined(m.parts, {"text"}))
        \o Of(m.parts, {"call"}))

\* convertToAnthropicMessage: a block for every part.
ToAnthropic(m) ==
    IF m.role = "system" THEN <<>>
    ELSE One(m.role, IF Has(m.parts, {"think", "call", "result"}) THEN m.parts
                     ELSE Joined(m.parts, {"text"}))

\* convertToOllamaMessage: calls with the text, or the first result, or text.
ToOllama(m) ==
    IF Has(m.parts, {"call"}) THEN One(m.role, Joined(m.parts, {"text"}) \o Of(m.parts, {"call"}))
    ELSE IF Has(m.parts, {"result"}) THEN One("tool", <<Of(m.parts, {"result"})[1]>>)
    ELSE One(m.role, Joined(m.parts, {"text"}))

\* convertToResponsesItems: the texts of a message, then each call, then each
\* result as an item of its own; system messages and thinking are left out.
ToResponses(m) ==
    LET texts == Of(m.parts, {"text"})
        items == Of(m.parts, {"call"}) \o Of(m.parts, {"result"})
    IN IF m.role = "system" THEN <<>>
       ELSE (IF texts = <<>> THEN <<>> ELSE One(m.role, texts))
            \o [i \in DOMAIN items |-> [role |-> "item", blocks |-> <<items[i]>>]]

\* The system prompt beside the messages: Anthropic's system field, the
\* instructions of the Responses API (developer messages are in both places).
Instructions(roles) ==
    Flat([i \in DOMAIN chat |->
        IF chat[i].role \in roles THEN Of(chat[i].parts, {"text"}) ELSE <<>>])
SystemPrompt == Joined(Instructions({"system"}), {"text"})
ResponsesInstructions ==
    LET texts == Instructions({"system", "developer"})
    IN IF texts = <<>> THEN <<Text(<<"default">>)>> ELSE texts

\* Mistake: the tools go out in the order of the registry.
AsListed(names) == names

\* convertToolsToOpenAI and convertToolsToAnthropic sort by name.
OpenAITools(names) == SetToSortSeq(ToSet(names), <)
AnthropicTools(names) == SetToSortSeq(ToSet(names), <)

\* convertToolsToResponses and convertToolsToOllama keep the order of the
\* registry, which is that of a Go map.
ResponsesTools(names) == names
OllamaTools(names) == names

----------------------------------------------------------------------------
DefaultMaxTokens == 32000
MinBudget == 1024

\* mapThinkingToReasoningEffort and buildResponsesReasoning.
OpenAIEffort(thinking) ==
    CASE thinking \in {"", "false"} -> "" [] thinking = "true" -> "medium"
      [] thinking = "xhigh" -> "high" [] OTHER -> thinking
ResponsesEffort(thinking) ==
    CASE thinking \in {"", "false"} -> "" [] thinking = "true" -> "medium" [] OTHER -> thinking

\* Mistake: the minimum is applied last.
BudgetAtLeast(thinking, max) ==
    IF thinking \in {"", "false"} THEN 0
    ELSE LET tenths == CASE thinking = "low" -> 1 [] thinking = "high" -> 3
                         [] thinking = "xhigh" -> 4 [] OTHER -> 2
             share == (max * tenths) \div 10
         IN Max2(MinBudget, IF share >= max THEN max - 1 ELSE share)

\* buildAnthropicThinking: a share of the output tokens, at least MinBudget and
\* below the maximum.
AnthropicBudget(thinking, max) ==
    IF thinking \in {"", "false"} THEN 0
    ELSE LET tenths == CASE thinking = "low" -> 1 [] thinking = "high" -> 3
                         [] thinking = "xhigh" -> 4 [] OTHER -> 2
             share == Max2(MinBudget, (max * tenths) \div 10)
         IN IF share >= max THEN max - 1 ELSE share

MaxTokens(configured) == IF configured > 0 THEN configured ELSE DefaultMaxTokens

\* The request options of each client: the output limit (0: none sent), what
\* asks for thinking, which of temperature and top_p are set.
Sampling(set) == {f \in {"temperature", "topP"} : set[f]}
OpenAIOptions(set) ==
    [max |-> MaxTokens(set.max), thinking |-> OpenAIEffort(set.thinking),
     budget |-> 0, sampling |-> Sampling(set)]
AnthropicOptions(set) ==
    [max |-> MaxTokens(set.max), thinking |-> "",
     budget |-> AnthropicBudget(set.thinking, MaxTokens(set.max)),
     sampling |-> IF set.temperature THEN {"temperature"} ELSE Sampling(set)]
OllamaOptions(set) ==
    [max |-> MaxTokens(set.max), thinking |-> "", budget |-> 0, sampling |-> Sampling(set)]
ResponsesOptions(set) ==
    [max |-> IF provider = "codex" THEN 0 ELSE MaxTokens(set.max),
     thinking |-> ResponsesEffort(set.thinking), budget |-> 0, sampling |-> Sampling(set)]
JetBrainsOptions(set) ==
    [max |-> set.max, thinking |-> "", budget |-> 0, sampling |-> {}]

\* Chat up to the round trip, by client.
OpenAIRequest ==
    [system |-> <<>>, messages |-> EachMessage(ToOpenAI, chat),
     tools |-> OpenAITools(order), options |-> OpenAIOptions(setting)]
AnthropicRequest ==
    [system |-> SystemPrompt, messages |-> EachMessage(ToAnthropic, chat),
     tools |-> AnthropicTools(order), options |-> AnthropicOptions(setting)]
OllamaRequest ==
    [system |-> <<>>, messages |-> EachMessage(ToOllama, chat),
     tools |-> OllamaTools(order), options |-> OllamaOptions(setting)]
ResponsesRequest ==
    [system |-> ResponsesInstructions, messages |-> EachMessage(ToResponses, chat),
     tools |-> ResponsesTools(order), options |-> ResponsesOptions(setting)]
JetBrainsRequest ==
    [system |-> ResponsesInstructions, messages |-> EachMessage(ToResponses, chat),
     tools |-> ResponsesTools(order), options |-> JetBrainsOptions(setting)]

Request == CASE provider = "openai" -> OpenAIRequest
             [] provider = "anthropic" -> AnthropicRequest
             [] provider = "ollama" -> OllamaRequest
             [] provider \in {"responses", "codex"} -> ResponsesRequest
             [] provider = "jetbrains" -> JetBrainsRequest

\* The prompt cache key sits beside these, anthropic's mark on the last tool or,
\* without tools, on the system prompt.
CacheMark(request) == CASE request.tools # <<>> -> "last tool"
                        [] request.tools = <<>> /\ request.system # <<>> -> "system"
                        [] OTHER -> "none"

----------------------------------------------------------------------------
\* convertFromOpenAIMessage, convertFromAnthropicResponse, convertFromOllamaMessage
\* and convertFromResponsesOutput: the parts of a whole reply.
FromOpenAI(parts) ==
    Unsigned(Joined(parts, {"think"})) \o Joined(parts, {"text"}) \o Of(parts, {"call"})
FromAnthropic(parts) == parts
FromOllama(parts) == Joined(parts, {"text"}) \o Of(parts, {"call"})
FromResponses(parts) == Of(parts, {"text", "call"})

\* A reply as the events of a stream: a text is one event, a call is announced,
\* then its arguments come and it ends.
Events(parts) ==
    Flat([i \in DOMAIN parts |->
        CASE parts[i].is = "text" -> <<[event |-> "text", part |-> parts[i]]>>
          [] parts[i].is = "call" -> [j \in 1..3 |-> [event |-> <<"added", "arguments", "ended">>[j],
                                                     part |-> parts[i]]]
          [] OTHER -> <<>>])

\* Mistake: a call counts when it is announced.
FromEventsEarly(events) ==
    LET kept == KeptIf(events, LAMBDA e : e.event \in {"text", "added"})
    IN [i \in DOMAIN kept |-> kept[i].part]

\* convertFromResponsesStreamBody: a call counts when its arguments have ended.
FromEvents(events) ==
    LET kept == KeptIf(events, LAMBDA e : e.event \in {"text", "ended"})
    IN [i \in DOMAIN kept |-> kept[i].part]

\* aggregateAssistantMessage: one text, then the calls, then the thinking, which
\* loses its signature.
Aggregate(parts) ==
    Joined(parts, {"text"}) \o Of(parts, {"call", "result"})
    \o Unsigned(Joined(parts, {"think"}))

----------------------------------------------------------------------------
Providers == {"openai", "anthropic", "ollama", "responses", "codex", "jetbrains"}
Streams == {"codex", "jetbrains"}

WireInit ==
    /\ provider \in Providers /\ setting \in Settings /\ order \in ToolNames
    /\ chat = <<[role |-> "system", parts |-> <<Text(<<"rules">>)>>],
                    [role |-> "user", parts |-> <<Text(<<"prompt">>)>>]>>
    /\ wire = <<>> /\ phase = "send"
    /\ error = Error("none") /\ due = 0
    /\ said = {} /\ rounds = 0

Send ==
    /\ phase = "send"
    /\ wire' = Request /\ phase' = "asked"
    /\ UNCHANGED <<provider, setting, chat, order, error, due, said, rounds>>

\* The calls of this round's reply are its own: they are named by the round.
ThisRound(parts) ==
    [i \in DOMAIN parts |-> [parts[i] EXCEPT !.id = <<rounds>> \o @]]

\* A reply becomes a message of the session.
Takes(parts) ==
    /\ chat' = Append(chat, [role |-> "assistant", parts |-> Aggregate(parts)])
    /\ phase' = IF Has(parts, {"call"}) THEN "tools" ELSE "done"
    /\ error' = Error("none") /\ due' = 0

\* Chat fails with an error; RetryChatModel asks again, or the run ends.
AttemptFails(e, resets) ==
    /\ error' = e /\ due' = resets
    /\ phase' = IF Retried(e) /\ rounds < MaxRounds THEN "send" ELSE "done"
    /\ UNCHANGED chat

\* A reply arrives as a whole.  It may have reached the output limit among the
\* arguments of its last call: no client looks at the reason a whole reply ends,
\* and what there is of the arguments is the call.
Answered(reply, cut) ==
    /\ phase = "asked" /\ rounds < MaxRounds /\ provider \notin Streams
    /\ cut => Has(reply, {"call"}) /\ Last(reply).is = "call"
    /\ LET parts == ThisRound(reply)
           taken == CASE provider = "openai" -> FromOpenAI(parts)
                      [] provider = "anthropic" -> FromAnthropic(parts)
                      [] provider = "ollama" -> FromOllama(parts)
                      [] provider = "responses" -> FromResponses(parts)
       IN /\ IF provider \in {"responses", "anthropic"} /\ taken = <<>> THEN AttemptFails(Error("unusable"), 0)
             ELSE Takes(taken)
          /\ said' = said \cup {p \in ToSet(Of(parts, {"call"})) : cut => p # Last(parts)}
    /\ rounds' = rounds + 1
    /\ UNCHANGED <<provider, setting, order, wire>>

\* A streamed reply ends after some of its events, without an error: what has
\* ended by then is the reply.
Streamed(reply, n) ==
    /\ phase = "asked" /\ rounds < MaxRounds /\ provider \in Streams
    /\ LET events == SubSeq(Events(ThisRound(reply)), 1, n)
           taken == FromEvents(events)
       IN /\ IF taken = <<>> THEN AttemptFails(Network, 0) ELSE Takes(taken)
          /\ said' = said \cup {events[i].part : i \in {j \in DOMAIN events : events[j].event = "ended"}}
    /\ rounds' = rounds + 1
    /\ UNCHANGED <<provider, setting, order, wire>>

\* A streamed reply ends with an error event, or with its output limit reached.
StreamFails(event) ==
    /\ phase = "asked" /\ rounds < MaxRounds /\ provider \in Streams
    /\ LET e == IF event.type = "incomplete" THEN ResponsesIncomplete(event.code)
                ELSE ResponsesStreamError(event)
       IN e.is # "none" /\ AttemptFails(e, 0)
    /\ rounds' = rounds + 1
    /\ UNCHANGED <<provider, setting, order, wire, said>>

\* The body cannot be read to its end, or is no reply.
BodyFails(how) ==
    /\ phase = "asked" /\ rounds < MaxRounds
    /\ AttemptFails(CASE provider = "openai" -> OpenAIBodyError(how)
                      [] provider = "anthropic" -> AnthropicBodyError(how)
                      [] provider = "ollama" -> OllamaBodyError(how)
                      [] provider = "responses" -> ResponsesBodyError(how)
                      [] provider = "codex" -> CodexBodyError(how)
                      [] provider = "jetbrains" -> JetBrainsBodyError(how), 0)
    /\ rounds' = rounds + 1
    /\ UNCHANGED <<provider, setting, order, wire, said>>

\* The server refuses.
Refused(refusal) ==
    /\ phase = "asked" /\ rounds < MaxRounds
    /\ refusal.by = provider
    /\ AttemptFails(CASE provider \in {"openai", "jetbrains"} -> OpenAIStatusError(refusal)
                      [] provider = "anthropic" -> AnthropicStatusError(refusal)
                      [] provider = "ollama" -> OllamaStatusError(refusal)
                      [] provider \in {"responses", "codex"} -> ResponsesStatusError(refusal), refusal.ends)
    /\ rounds' = rounds + 1
    /\ UNCHANGED <<provider, setting, order, wire, said>>

\* The request does not get through.
Broken(e) ==
    /\ phase = "asked" /\ rounds < MaxRounds
    /\ AttemptFails(CASE provider \in {"openai", "jetbrains"} -> HTTPError(e)
                      [] provider = "anthropic" -> AnthropicHTTPError(e)
                      [] provider = "ollama" -> OllamaHTTPError(e)
                      [] provider \in {"responses", "codex"} -> ResponsesHTTPError(e), 0)
    /\ rounds' = rounds + 1
    /\ UNCHANGED <<provider, setting, order, wire, said>>

\* The session answers every call of the last message in one message.
RunTools(failing) ==
    /\ phase = "tools"
    /\ LET calls == Of(chat[Len(chat)].parts, {"call"})
       IN chat' = Append(chat,
              [role |-> "user",
               parts |-> [i \in DOMAIN calls |-> [is |-> "result", id |-> calls[i].id,
                                                  good |-> ~failing]]])
    /\ phase' = "send"
    /\ UNCHANGED <<provider, setting, order, wire, error, due, said, rounds>>

\* A new prompt begins another run, which lists the tools anew.
NextPrompt(names) ==
    /\ phase = "done" /\ rounds < MaxRounds
    /\ chat' = Append(chat, [role |-> "user", parts |-> <<Text(<<"next">>)>>])
    /\ order' = names
    /\ phase' = "send"
    /\ rounds' = rounds + 1
    /\ UNCHANGED <<provider, setting, wire, error, due, said>>

WireNext ==
        \/ Send
        \/ \E reply \in Replies : \E cut \in BOOLEAN : Answered(reply, cut)
        \/ \E reply \in Replies : \E n \in 0..Len(Events(ThisRound(reply))) : Streamed(reply, n)
        \/ \E event \in StreamErrors : StreamFails(event)
        \/ \E how \in {"early end", "reset", "no reply"} : BodyFails(how)
        \/ \E refusal \in Refusals : Refused(refusal)
        \/ \E e \in Failures : Broken(e)
        \/ \E failing \in BOOLEAN : RunTools(failing)
        \/ \E names \in ToolNames : NextPrompt(names)
WireSpec == WireInit /\ [][WireNext]_wireVars
----------------------------------------------------------------------------
Blocks(request, kind) ==
    {p.id : p \in {b \in UNION {ToSet(m.blocks) : m \in ToSet(request.messages)} : b.is = kind}}
Batches == {Cardinality(ToSet(Of(chat[i].parts, {"call"}))) : i \in DOMAIN chat}

\* The form of a request: every call it shows has a result with its id in the
\* same request and every result its call, thinking gets its minimum and stays
\* below the output limit where the limit has room for both, and Anthropic gets
\* one of temperature and top_p (the *_conversion.go files, buildAnthropicThinking).
\* The OpenAI and Ollama conversions send one result of a message, so the calls
\* of a reply are paired there only when it holds one (ResultsReachProvider), and
\* thinking goes back unsigned (ThinkingStaysSigned).  A budget that cannot have both
\* its minimum and room below the limit is sent below its minimum.
RequestsWellFormed ==
    phase = "asked" =>
        /\ (provider \notin {"openai", "ollama"} \/ Batches \subseteq {0, 1})
              => Blocks(wire, "call") = Blocks(wire, "result")
        /\ wire.options.budget < wire.options.max \/ wire.options.budget = 0
        /\ wire.options.max > MinBudget
              => wire.options.budget >= MinBudget \/ wire.options.budget = 0
        /\ provider = "anthropic" => Cardinality(wire.options.sampling) <= 1

\* A call of a streamed reply that the session runs was sent by the server to its
\* last argument, wherever the stream broke off (convertFromResponsesStreamBody).  Not
\* so of a reply that comes as a whole: its last call may be cut (Answered).
RepliesWhole ==
    provider \in Streams =>
        \A i \in DOMAIN chat : ToSet(Of(chat[i].parts, {"call"})) \subseteq said

\* After a 429 the wait the client reports reaches the end of the limit that the
\* reply tells of (the rate limit code of the clients).
WaitsForReset == error.is = "rate limit" => error.after >= due

\* A request repeats the one before it and goes on, the same system prompt and
\* tools in front, across runs too: the cached prefix of a conversation stays
\* valid (the sorting in convertToolsToOpenAI and convertToolsToAnthropic).
PrefixKept ==
    (provider \in {"openai", "anthropic"} /\ wire # <<>> /\ wire' # wire) =>
        /\ IsPrefix(wire.messages, wire'.messages)
        /\ wire.tools = wire'.tools /\ wire.system = wire'.system
        /\ CacheMark(wire) = CacheMark(wire')
PromptPrefixStable == [][PrefixKept]_wire

\* The results of a reply's calls all reach the provider: a ChatMessage "can contain
\* multiple parts of different types", tool responses among them (api.go), and
\* "convertToOpenAIMessage converts a models.ChatMessage to OpenAI
\* OpenaiChatCompletionMessage format".
ResultsReachProvider ==
    phase = "asked" => Blocks(wire, "call") \subseteq Blocks(wire, "result")

\* A thinking block is sent back with its signature: ChatMessagePart carries "an
\* opaque reasoning signature required by some providers when reasoning blocks are
\* echoed back in subsequent tool-call turns" (api.go).
ThinkingStaysSigned ==
    phase = "asked" /\ provider = "anthropic" =>
        \A m \in ToSet(wire.messages) : \A b \in ToSet(m.blocks) : b.is = "think" => b.good
=============================================================================
