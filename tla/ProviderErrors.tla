--------------------------- MODULE ProviderErrors ---------------------------
(***************************************************************************)
(* How the provider clients turn what went wrong with a request into the   *)
(* errors the retry and fallback models work on (pkg/models:               *)
(* *_client_errors.go, the stream errors of the Responses API).  The four  *)
(* clients hold copies of one algorithm that differ in a few places; the   *)
(* JetBrains client uses the OpenAI one.                                   *)
(***************************************************************************)
EXTENDS Naturals, Sequences

Error(is) == [is |-> is, after |-> 0]
RateLimit(after) == [is |-> "rate limit", after |-> after]
Network == Error("network")

\* What isRetryableError retries of them.
Retried(error) == error.is \in {"rate limit", "network", "unavailable"}

----------------------------------------------------------------------------
\* handleHTTPError: the error of a round trip is a record with its kind, "eof",
\* "dns", "net", "op" or "other", and for a DNS error whether the host does not
\* exist and whether that may be temporary.
HTTPError(e) ==
    CASE e.kind = "dns" /\ e.notFound /\ ~e.temporary -> Error("not found")
      [] e.kind \in {"dns", "net", "op"} /\ ~(e.kind = "dns" /\ e.notFound /\ ~e.temporary) -> Network
      [] OTHER -> Error("unavailable")

AnthropicHTTPError(e) == HTTPError(e)
OllamaHTTPError(e) == HTTPError(e)

\* The Responses client looks for a stream that ended early first.
ResponsesHTTPError(e) == IF e.kind = "eof" THEN Network ELSE HTTPError(e)

----------------------------------------------------------------------------
\* The words of a message that says the context is too long, by client.  A body
\* is a record: whether it parses, its message, type and code, its reset times.
OpenAIOverflow(body) ==
    \/ body.message \in {"context length", "too many tokens", "available context size"}
    \/ body.parses /\ body.type = "exceed_context_size_error"

ResponsesOverflow(body) == body.message \in {"context length", "too many tokens"}
OllamaOverflow(body) == body.message \in {"context length", "too many tokens"}
AnthropicOverflow(body) == body.message \in {"context length", "too many tokens", "token limit"}

\* A header that is no number (a date, written -1 here) counts as absent.
HeaderSeconds(header) == IF header < 0 THEN 0 ELSE header
Max2(a, b) == IF a > b THEN a ELSE b

\* mergeOpenAIRetryAfterForUsageLimit: the reset time that a usage limit message
\* names counts when it is later than the header says.
OpenAIRetryAfter(headers, body) ==
    LET after == HeaderSeconds(headers.retryAfter)
    IN IF body.message = "usage limit" \/ (body.parses /\ body.code = 1308)
       THEN Max2(body.resetAt, after) ELSE after

\* codexLimitRetryAfterSeconds.
CodexRetryAfter(headers) ==
    LET primary == headers.primaryUsed >= 100
        secondary == headers.secondaryUsed >= 100
    IN CASE headers.active = "primary" /\ headers.primaryReset > 0 -> headers.primaryReset
         [] headers.active = "secondary" /\ headers.secondaryReset > 0 -> headers.secondaryReset
         [] OTHER -> CASE primary /\ ~secondary -> headers.primaryReset
                       [] secondary /\ ~primary -> headers.secondaryReset
                       [] primary /\ secondary -> Max2(headers.primaryReset, headers.secondaryReset)
                       [] OTHER -> 0

FirstSet(s) == IF \E i \in DOMAIN s : s[i] > 0
               THEN s[CHOOSE i \in DOMAIN s : s[i] > 0 /\ \A j \in 1..(i - 1) : s[j] = 0]
               ELSE 0

\* Mistake: the header is believed for a usage limit too.
MergedHeaderFirst(after, codex, body, type) == FirstSet(<<after, body, codex>>)

\* mergeRateLimitRetryAfter: for a usage limit the windows of the account come
\* first, for another limit the header does.
MergeRateLimitRetryAfter(after, codex, body, type) ==
    IF type = "usage_limit_reached" THEN FirstSet(<<codex, body, after>>)
    ELSE FirstSet(<<after, body, codex>>)

ResponsesRetryAfter(headers, body) ==
    MergeRateLimitRetryAfter(HeaderSeconds(headers.retryAfter), CodexRetryAfter(headers),
                             IF body.parses THEN body.resetsIn ELSE 0,
                             IF body.parses THEN body.type ELSE "")

AnthropicRetryAfter(headers) == HeaderSeconds(headers.retryAfter)
OllamaRetryAfter(headers) == HeaderSeconds(headers.retryAfter)

----------------------------------------------------------------------------
\* checkStatusCodeWithBody, with what differs between the clients.
StatusError(status, overflow, after) ==
    CASE status = 404 -> Error("not found")
      [] status \in {401, 403} -> Error("denied")
      [] status = 429 -> RateLimit(after)
      [] status = 400 /\ overflow -> Error("overflow")
      [] status = 400 /\ ~overflow -> Error("bad request")
      [] status \in {500, 502, 503, 504} -> Error("unavailable")
      [] OTHER -> Error("unexpected")

OpenAIStatusError(r) ==
    StatusError(r.status, OpenAIOverflow(r.body), OpenAIRetryAfter(r.headers, r.body))
ResponsesStatusError(r) ==
    StatusError(r.status, ResponsesOverflow(r.body), ResponsesRetryAfter(r.headers, r.body))
AnthropicStatusError(r) ==
    StatusError(r.status, AnthropicOverflow(r.body), AnthropicRetryAfter(r.headers))
OllamaStatusError(r) ==
    StatusError(r.status, OllamaOverflow(r.body), OllamaRetryAfter(r.headers))

\* What Chat makes of a body that ends early, of a connection reset while it is
\* read, and of a body that is no reply.  The early end is retried because
\* isRetryableError looks for it in every error, the reset only where the client
\* takes a read error for one of the connection.
PlainBodyError(how) == IF how = "early end" THEN Network ELSE Error("unreadable")
OpenAIBodyError(how) == PlainBodyError(how)
AnthropicBodyError(how) == PlainBodyError(how)
OllamaBodyError(how) == PlainBodyError(how)

ResponsesBodyError(how) ==
    IF how = "no reply" THEN Error("unreadable")
    ELSE ResponsesHTTPError([kind |-> IF how = "early end" THEN "eof" ELSE "op",
                             notFound |-> FALSE, temporary |-> FALSE])

\* A streamed body without an event in it counts as one that was cut.
CodexBodyError(how) == IF how = "no reply" THEN Network ELSE ResponsesBodyError(how)
JetBrainsBodyError(how) == IF how = "no reply" THEN Network ELSE PlainBodyError(how)

\* mapResponsesStreamError: an error event inside the stream of a reply.
OverloadedRetryAfter == 60
ResponsesStreamError(event) ==
    CASE event.code = "context_length_exceeded" -> Error("overflow")
      [] event.type = "service_unavailable_error" /\ event.code = "server_is_overloaded"
            -> RateLimit(OverloadedRetryAfter)
      [] event.type = "server_error" /\ event.code = "server_error" -> Network
      [] OTHER -> Error("api error")

\* mapResponsesIncompleteEventError: a reply cut at the output limit is retried,
\* one cut for another reason is taken as it is.
ResponsesIncomplete(reason) ==
    IF reason = "max_output_tokens" THEN Network ELSE Error("none")
=============================================================================
