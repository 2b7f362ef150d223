--------------------------- MODULE ProviderStream ---------------------------
(***************************************************************************)
(* ChatStream of the provider clients (pkg/models): the loop that reads a  *)
(* reply piece by piece and yields messages to the caller, who may stop at *)
(* any message, while the connection may break after any piece, a piece    *)
(* may be unreadable or longer than a line of the scanner, and the context *)
(* may be cancelled; and UnstreamingChatModel.Chat, which collects what is *)
(* yielded.                                                                *)
(***************************************************************************)
EXTENDS Naturals, SequencesExt, Sublists

CONSTANTS Scripts    \* replies of the server: sequences of texts, thinking and calls

\* What the theorems assume of the constants: a server gives each call of a reply
\* an identifier of its own.
StreamAssumption ==
    /\ Scripts \subseteq Seq([is : {"text", "think", "call"}, id : STRING])
    /\ \A parts \in Scripts : \A i, j \in DOMAIN parts :
          (parts[i].is = "call" /\ parts[j].is = "call" /\ parts[i].id = parts[j].id) => i = j

VARIABLES client, script,
          at,        \* pieces read
          garbled,   \* the numbers of those that were unreadable
          begun,     \* calls in progress: the pieces read of each
          thinking,  \* thinking not yet yielded (OpenAI)
          usage,     \* counted: 0 or more times the usage of the reply
          yielded,   \* parts and usage the caller has received
          open       \* whether the loop goes on
streamVars == <<client, script, at, garbled, begun, thinking, usage, yielded, open>>

Clients == {"openai", "anthropic", "ollama", "responses", "jetbrains"}
ArgumentPieces == 2

Piece(event, id) == [event |-> event, id |-> id]
\* The pieces of a part, by protocol.
PiecesOf(c, part) ==
    CASE part.is # "call" -> <<Piece(part.is, part.id)>>
      [] part.is = "call" /\ c = "ollama" -> <<Piece("whole", part.id)>>
      [] part.is = "call" /\ c \in {"openai", "anthropic"} ->
            <<Piece("call", part.id)>> \o [i \in 1..ArgumentPieces |-> Piece("arguments", part.id)]
      [] OTHER -> <<Piece("call", part.id)>> \o [i \in 1..ArgumentPieces |-> Piece("arguments", part.id)]
                  \o <<Piece("called", part.id)>>

\* What closes a reply: OpenAI sends the usage with the finish reason or in a
\* later chunk.
Closing(c) ==
    CASE c = "openai" -> {<<Piece("finish", "usage"), Piece("done", "")>>,
                          <<Piece("finish", ""), Piece("usage", "usage"), Piece("done", "")>>}
      [] c = "anthropic" -> {<<Piece("finish", "usage"), Piece("stop", "")>>}
      [] c = "ollama" -> {<<Piece("finish", "usage")>>}
      [] OTHER -> {<<Piece("completed", "usage"), Piece("done", "")>>}

Reply(c, parts) == Flat([i \in DOMAIN parts |-> PiecesOf(c, parts[i])])

StreamInit == /\ client \in Clients
        /\ \E parts \in Scripts : \E closing \in Closing(client) :
               script = Reply(client, parts) \o closing
        /\ at = 0 /\ garbled = {} /\ begun = <<>> /\ thinking = <<>> /\ usage = 0
        /\ yielded = <<>> /\ open = TRUE

----------------------------------------------------------------------------
Index(id) == {i \in DOMAIN begun : begun[i].index = id}
Yield(parts) == yielded' = yielded \o parts
TextPart(id) == [is |-> "text", id |-> id, read |-> 0]
CallPart(call) == [is |-> "call", id |-> call.id, read |-> call.read]
UsagePart(n) == [is |-> "usage", id |-> "", read |-> n]
Finished(n) == IF n > 0 THEN <<UsagePart(n)>> ELSE <<>>
KeepRest == UNCHANGED <<begun, thinking, usage>>
GoesOn == open' = TRUE
Ends == open' = FALSE

\* The orders in which a Go map may list n entries.
Orders(n) == {f \in [1..n -> 1..n] : \A i, j \in 1..n : f[i] = f[j] => i = j}

OpenAIFinish(p) ==
    /\ usage' = IF p.id = "usage" THEN usage + 1 ELSE usage
    /\ thinking' = <<>> /\ Ends /\ UNCHANGED begun
    /\ \E order \in Orders(Len(begun)) :
          Yield([i \in DOMAIN begun |-> CallPart(begun[order[i]])] \o Finished(usage'))

\* OpenAIChatModel: text at once with the thinking before it, the calls when the
\* reply is finished, with the usage counted so far; what comes later is not read.
OpenAIStep(p) ==
    CASE p.event = "text" -> /\ Yield(<<TextPart(p.id)>>) /\ thinking' = <<>>
                             /\ GoesOn /\ UNCHANGED <<begun, usage>>
      [] p.event = "think" -> /\ thinking' = Append(thinking, p.id)
                              /\ GoesOn /\ UNCHANGED <<begun, usage, yielded>>
      [] p.event = "call" -> /\ begun' = Append(begun, [index |-> p.id, id |-> p.id, read |-> 0])
                             /\ GoesOn /\ UNCHANGED <<thinking, usage, yielded>>
      [] p.event = "arguments" ->
            /\ begun' = IF Index(p.id) = {} THEN Append(begun, [index |-> p.id, id |-> "", read |-> 1])
                        ELSE [i \in DOMAIN begun |-> IF i \in Index(p.id)
                              THEN [begun[i] EXCEPT !.read = @ + 1] ELSE begun[i]]
            /\ GoesOn /\ UNCHANGED <<thinking, usage, yielded>>
      [] p.event = "finish" -> OpenAIFinish(p)
      [] p.event = "usage" -> /\ usage' = usage + 1 /\ GoesOn /\ UNCHANGED <<begun, thinking, yielded>>
      [] p.event = "done" -> Ends /\ UNCHANGED yielded /\ KeepRest

\* AnthropicChatModel: a call is yielded when its block starts, without the
\* arguments that follow.
AnthropicStep(p) ==
    CASE p.event = "text" -> Yield(<<TextPart(p.id)>>) /\ GoesOn /\ KeepRest
      [] p.event = "call" -> Yield(<<CallPart([index |-> p.id, id |-> p.id, read |-> 0])>>) /\ GoesOn /\ KeepRest
      [] p.event \in {"think", "arguments"} -> UNCHANGED yielded /\ GoesOn /\ KeepRest
      [] p.event = "finish" -> /\ usage' = usage + 1 /\ Yield(Finished(usage')) /\ Ends
                               /\ UNCHANGED <<begun, thinking>>
      [] p.event = "stop" -> Yield(Finished(usage)) /\ Ends /\ KeepRest

\* OllamaChatModel: calls come whole; the usage before what the last piece holds.
OllamaStep(p) ==
    CASE p.event = "text" -> Yield(<<TextPart(p.id)>>) /\ GoesOn /\ KeepRest
      [] p.event = "whole" -> /\ Yield(<<CallPart([id |-> p.id, read |-> ArgumentPieces])>>)
                                   /\ GoesOn /\ KeepRest
      [] p.event = "think" -> UNCHANGED yielded /\ GoesOn /\ KeepRest
      [] p.event = "finish" -> /\ usage' = usage + 1 /\ Yield(Finished(usage')) /\ Ends
                               /\ UNCHANGED <<begun, thinking>>

\* ResponsesChatModel and JetBrainsChatModel: a call is yielded when its
\* arguments are done, and the event repeats them all.  A call whose start was
\* not read is unknown.
Announced(p) == Index(p.id) # {}
ResponsesStep(p) ==
    CASE p.event = "text" -> Yield(<<TextPart(p.id)>>) /\ GoesOn /\ KeepRest
      [] p.event = "call" -> /\ begun' = Append(begun, [index |-> p.id, id |-> p.id, read |-> 0])
                             /\ GoesOn /\ UNCHANGED <<thinking, usage, yielded>>
      [] p.event = "arguments" ->
            /\ begun' = [i \in DOMAIN begun |-> IF i \in Index(p.id)
                         THEN [begun[i] EXCEPT !.read = @ + 1] ELSE begun[i]]
            /\ GoesOn /\ UNCHANGED <<thinking, usage, yielded>>
      [] p.event = "called" /\ Announced(p) ->
            /\ Yield(<<CallPart([id |-> p.id, read |-> ArgumentPieces])>>)
            /\ begun' = KeptIf(begun, LAMBDA call : call.index # p.id)
            /\ GoesOn /\ UNCHANGED <<thinking, usage>>
      [] (p.event = "called" /\ ~Announced(p)) \/ p.event = "think" ->
            UNCHANGED yielded /\ GoesOn /\ KeepRest
      [] p.event = "completed" -> /\ usage' = usage + 1 /\ GoesOn
                                  /\ Yield(IF client = "responses" THEN Finished(usage') ELSE <<>>)
                                  /\ UNCHANGED <<begun, thinking>>
      [] p.event = "done" -> Ends /\ UNCHANGED yielded /\ KeepRest

JetBrainsStep(p) == ResponsesStep(p)

\* One line of the body.
Reads ==
    /\ open /\ at < Len(script)
    /\ at' = at + 1
    /\ LET p == script[at + 1]
       IN CASE client = "openai" -> OpenAIStep(p)
            [] client = "anthropic" -> AnthropicStep(p)
            [] client = "ollama" -> OllamaStep(p)
            [] client = "responses" -> ResponsesStep(p)
            [] client = "jetbrains" -> JetBrainsStep(p)
    /\ UNCHANGED <<client, script, garbled>>

\* A line that is no JSON is skipped; Ollama's decoder ends there.
Garbled ==
    /\ open /\ at < Len(script)
    /\ at' = at + 1 /\ garbled' = garbled \cup {at + 1}
    /\ open' = (client # "ollama")
    /\ UNCHANGED <<client, script, begun, thinking, usage, yielded>>

\* JetBrains: the body ends where [DONE] is still to come, and the usage of a
\* completed reply is yielded last.
BodyEnds ==
    /\ open /\ client = "jetbrains" /\ Yield(Finished(usage)) /\ Ends
    /\ UNCHANGED <<client, script, at, garbled, begun, thinking, usage>>

\* The connection breaks, a line is too long, the context is cancelled or the
\* caller stops, or the body of another client ends: the loop ends without a word.
Stops ==
    /\ open /\ Ends
    /\ UNCHANGED <<client, script, at, garbled, begun, thinking, usage, yielded>>

StreamNext == Reads \/ Garbled \/ BodyEnds \/ Stops
StreamSpec == StreamInit /\ [][StreamNext]_streamVars
----------------------------------------------------------------------------
Yields(kind) == KeptIf(yielded, LAMBDA part : part.is = kind)
Sent(kind) == Kept(script, {i \in DOMAIN script : script[i].event = kind /\ i \notin garbled})
IDsOf(s) == [i \in DOMAIN s |-> s[i].id]

\* UnstreamingChatModel.Chat on what was yielded: the usages add up.
CollectedUsage == Total([i \in DOMAIN Yields("usage") |-> Yields("usage")[i].read])

\* However the reply is cut, its text comes in order and without a gap, a call
\* that is yielded comes once and with every argument (but from Anthropic,
\* whose calls come without), and the usage is counted at most once (the
\* ChatStream loops).
StreamFaithful ==
    /\ IsPrefix(IDsOf(Yields("text")), IDsOf(Sent("text")))
    /\ \A i, j \in DOMAIN Yields("call") :
          (Yields("call")[i].id = Yields("call")[j].id /\ Yields("call")[i].id # "") => i = j
    /\ client # "anthropic" =>
          \A i \in DOMAIN Yields("call") :
              \/ Yields("call")[i].read = ArgumentPieces
              \/ garbled # {}
    /\ CollectedUsage <= 1
=============================================================================
