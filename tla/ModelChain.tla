----------------------------- MODULE ModelChain -----------------------------
(***************************************************************************)
(* One chat request of a session and the chain of wrappers it goes         *)
(* through: the compaction loop of SweSession.runNonStreamingChat          *)
(* (pkg/core/session.go) around RetryChatModel (pkg/models/retry.go)       *)
(* around FallbackChatModel (pkg/models/fallback.go).                      *)
(*                                                                         *)
(* A pass is one FallbackChatModel.Chat: every model is asked once, from   *)
(* the selected one on, until one answers.  Retry makes passes with waits  *)
(* between them; when a pass ends in "too many input tokens" the session   *)
(* compacts its messages and calls Retry again.  Compacting asks for       *)
(* summaries through Retry too, halving what is too long, and with a       *)
(* context of its own, which nothing cancels (KimiCompactor.compactChunks, *)
(* pkg/core/compact_kimi.go).  A chain of one model has no fallback        *)
(* wrapper and behaves as a pass of length one.                            *)
(*                                                                         *)
(* Providers are the environment: they answer, announce a rate limit with  *)
(* or without its reset time, or fail.  Time is the number of seconds left *)
(* until each model's limit resets; requests take none.                    *)
(***************************************************************************)
EXTENDS Naturals, Sequences

CONSTANTS
    NModels,      \* models in the chain
    MaxRetries,   \* policy.MaxRetries
    InitialDelay, \* policy.InitialDelay, in seconds
    MaxDelay,     \* policy.MaxDelay, in seconds
    SwitchDelays, \* the delays a chain may be built with: 0 in the factory
    UsageBuffer,  \* usageLimitRetryBufferSeconds
    Resets,       \* seconds until a new rate limit resets
    Compactable   \* how many messages a compaction may have to summarise

ASSUME ChainAssumption ==
    /\ NModels \in Nat \ {0} /\ MaxRetries \in Nat
    /\ InitialDelay \in Nat \ {0} /\ MaxDelay \in Nat \ {0}
    /\ SwitchDelays \subseteq Nat /\ UsageBuffer \in Nat
    /\ Resets \subseteq Nat \ {0} /\ Compactable \subseteq Nat

VARIABLES
    switchDelay,   \* FallbackChatModel.switchDelay, in seconds
    phase,         \* where the request is
    selectedIndex, \* FallbackChatModel.selectedIndex
    call,          \* locals of the three loops
    reset,         \* seconds until each model's rate limit resets, 0: none
    interrupted,   \* the context of the request is done
    remaining,     \* sizes of the chunks left to summarise; << >>: no summary
    outcome,       \* how the last request ended
    \* history
    asked,         \* models asked in this RetryChatModel.Chat, in order
    known,         \* models that announced a reset time in this pass
    lastPass,      \* models asked in the last whole pass of this request
    good,          \* the model that answered last, or NoModel
    late           \* models asked with a context that is done

chainVars == <<switchDelay, phase, selectedIndex, call, reset, interrupted, remaining,
               outcome, asked, known, lastPass, good, late>>

Models == 0 .. NModels - 1
NoModel == NModels

\* A rate limit as the caller sees it: secs = 0 when no time was announced.
NoLimit == [secs |-> 0, usage |-> FALSE, set |-> FALSE]
Limit(s, u) == [secs |-> s, usage |-> u, set |-> TRUE]

Errors == {"none", "limit", "network", "fatal", "tooLong"}
Retryable(err) == err \in {"limit", "network"}

NewCall == [round |-> 1, attempt |-> 1, i |-> 0, index |-> 0,
            best |-> NoLimit, lastErr |-> "none"]

ChainInit ==
    /\ switchDelay \in SwitchDelays
    /\ phase = "idle" /\ selectedIndex = 0 /\ call = NewCall
    /\ reset = [m \in Models |-> 0]
    /\ interrupted = FALSE /\ remaining = <<>> /\ outcome = "none"
    /\ asked = <<>> /\ known = {} /\ lastPass = {} /\ good = NoModel /\ late = 0

-----------------------------------------------------------------------------
Passed(d) == [m \in Models |-> IF reset[m] > d THEN reset[m] - d ELSE 0]

\* FallbackChatModel.Chat begins: a pass from the selected model.
BeginPass(round, attempt, index) ==
    /\ phase' = "ask"
    /\ call' = [NewCall EXCEPT !.round = round, !.attempt = attempt,
                               !.index = index]
    /\ known' = {}

RequestReturns(result) ==
    /\ phase' = "idle" /\ call' = NewCall
    /\ outcome' = result
    /\ interrupted' = FALSE /\ remaining' = <<>> /\ late' = 0

\* A summary is asked for with context.Background(), not that of the request.
Summarising == remaining # <<>>
ContextDone == interrupted /\ ~Summarising

\* A summary, or the failure to get one, returns to compactChunks.
SummaryReturns(rest) ==
    /\ phase' = "summarise"
    /\ remaining' = rest
    /\ UNCHANGED <<call, outcome, interrupted, late>>

\* A request of the session; d seconds passed since the previous one.  When the
\* context is near its maximum length it begins with a compaction, as round 0.
Request ==
    /\ phase = "idle"
    /\ \E d \in Resets \cup {0} : reset' = Passed(d)
    /\ \/ BeginPass(1, 1, selectedIndex)
       \/ /\ phase' = "compact" /\ call' = [NewCall EXCEPT !.round = 0]
          /\ UNCHANGED known
    /\ asked' = <<>> /\ lastPass' = {}
    /\ UNCHANGED <<selectedIndex, interrupted, remaining, outcome, good, late>>

CancelRequest ==
    /\ phase # "idle" /\ ~interrupted
    /\ interrupted' = TRUE
    /\ UNCHANGED <<phase, selectedIndex, call, reset, remaining, outcome, asked, known,
                   lastPass, good, late>>

-----------------------------------------------------------------------------
(* One iteration of the loop of FallbackChatModel.Chat. *)

\* Mistake: one model fewer is asked.
PassIsOverEarly == call.i + 1 >= NModels /\ call.i > 0
PassIsOver == call.i = NModels

Asking == phase = "ask" /\ ~PassIsOver

Asked ==
    /\ asked' = Append(asked, call.index)
    /\ late' = IF ContextDone THEN late + 1 ELSE late

SwitchToNextModel == (call.index + 1) % NModels

\* selectShortestRateLimit over normalizeRetryAfterSeconds: an unknown reset
\* time counts as the longest.
Shorter(a, b) == a.secs > 0 /\ (b.secs = 0 \/ a.secs < b.secs)

\* Mistake: an unknown reset time counts as zero seconds.
SelectFewestSeconds(current, candidate) ==
    IF ~current.set \/ candidate.secs < current.secs
    THEN candidate ELSE current

SelectShortestRateLimit(current, candidate) ==
    IF ~current.set \/ Shorter(candidate, current)
    THEN candidate ELSE current

\* Mistake: the last failure of a pass selects no other model.
FailsAndStays(err, best) ==
    /\ Asked
    /\ selectedIndex' = IF call.i + 1 < NModels THEN SwitchToNextModel
                                               ELSE selectedIndex
    /\ call' = [call EXCEPT !.i = @ + 1, !.index = SwitchToNextModel,
                            !.best = best, !.lastErr = err]
    /\ UNCHANGED <<phase, interrupted, remaining, outcome, lastPass, good>>

\* The model fails and the next one is selected.
ModelFails(err, best) ==
    /\ Asked
    /\ selectedIndex' = SwitchToNextModel
    /\ call' = [call EXCEPT !.i = @ + 1, !.index = SwitchToNextModel,
                            !.best = best, !.lastErr = err]
    /\ UNCHANGED <<phase, interrupted, remaining, outcome, lastPass, good>>

Answer ==
    /\ Asking /\ ~ContextDone /\ reset[call.index] = 0
    /\ selectedIndex' = call.index
    /\ good' = call.index
    /\ asked' = Append(asked, call.index)
    /\ \/ ~Summarising /\ RequestReturns("answer")
       \/ Summarising /\ SummaryReturns(Tail(remaining))
    /\ UNCHANGED <<reset, known, lastPass>>

\* The model is under a limit, an old or a new one; the answer may say for how
\* long, and may be a usage limit.
AskLimited ==
    /\ Asking /\ ~ContextDone
    /\ \E s \in (IF reset[call.index] > 0 THEN {reset[call.index]} ELSE Resets) :
          reset' = [reset EXCEPT ![call.index] = s]
    /\ \E announced, usage \in BOOLEAN :
          /\ ModelFails("limit", SelectShortestRateLimit(call.best,
                Limit(IF announced THEN reset'[call.index] ELSE 0, usage)))
          /\ known' = IF announced THEN known \cup {call.index} ELSE known

\* An error that is not retryable does not wait before the switch.
AskRefused ==
    /\ Asking /\ ~ContextDone
    /\ \E err \in {"fatal", "tooLong"} : ModelFails(err, call.best)
    /\ UNCHANGED <<reset, known>>

\* A retryable error, which is also what the clients make of a context that
\* is done; waitWithContext looks at the context only when it has to wait.
AskUnreachable ==
    /\ Asking
    /\ \/ /\ switchDelay = 0 \/ ~ContextDone
          /\ ModelFails("network", call.best)
          /\ reset' = Passed(switchDelay)
       \/ /\ switchDelay > 0 /\ ContextDone
          /\ asked' = Append(asked, call.index)
          /\ RequestReturns("cancelled")
          /\ good' = NoModel
          /\ UNCHANGED <<selectedIndex, reset, lastPass>>
    /\ UNCHANGED known

-----------------------------------------------------------------------------
(* RetryChatModel.Chat *)

\* The error of a pass: a rate limit hides every other one.
PassError == IF call.best.set THEN "limit" ELSE call.lastErr

GivenUp ==
    \/ PassError = "fatal"
    \/ Retryable(PassError) /\ call.attempt > MaxRetries

\* splitKimiCompactorMessages: the first chunk in two, to be summarised in turn.
Halved ==
    LET half == Head(remaining) \div 2 IN
    <<half, Head(remaining) - half>> \o Tail(remaining)

RequestPassFails ==
    /\ \/ /\ PassError = "tooLong" /\ phase' = "compact"
          /\ UNCHANGED <<call, remaining, outcome, interrupted, late>>
       \/ GivenUp /\ RequestReturns("failed")
    /\ lastPass' = {asked[k] : k \in {n \in DOMAIN asked : n + NModels > Len(asked)}}

\* A chunk that is too long is halved; any other failure of one, or one message
\* too long, and the compaction leaves the messages as they are.
SummaryPassFails ==
    /\ \/ PassError = "tooLong" /\ Head(remaining) >= 2 /\ SummaryReturns(Halved)
       \/ PassError = "tooLong" /\ Head(remaining) < 2 /\ SummaryReturns(<<>>)
       \/ GivenUp /\ SummaryReturns(<<>>)
    /\ UNCHANGED lastPass

PassFails ==
    /\ phase = "ask" /\ PassIsOver
    /\ \/ ~Summarising /\ RequestPassFails
       \/ Summarising /\ SummaryPassFails
       \/ /\ Retryable(PassError) /\ call.attempt <= MaxRetries
          /\ phase' = "wait"
          /\ UNCHANGED <<call, remaining, outcome, interrupted, lastPass, late>>
    /\ UNCHANGED <<selectedIndex, reset, asked, known, good>>

CalculateDelay ==
    LET exponential == InitialDelay * 2 ^ (call.attempt - 1) IN
    IF call.best.secs > 0
    THEN call.best.secs + (IF call.best.usage THEN UsageBuffer ELSE 0)
    ELSE IF exponential > MaxDelay THEN MaxDelay ELSE exponential

\* Mistake: the wait does not watch the context.
WaitBlindly ==
    /\ phase = "wait"
    /\ reset' = Passed(CalculateDelay)
    /\ BeginPass(call.round, call.attempt + 1, selectedIndex)
    /\ UNCHANGED <<selectedIndex, interrupted, remaining, outcome, asked, lastPass, good, late>>

Wait ==
    /\ phase = "wait"
    /\ \/ /\ ContextDone
          /\ RequestReturns("cancelled")
          /\ UNCHANGED <<reset, known>>
       \/ /\ ~ContextDone
          /\ reset' = Passed(CalculateDelay)
          /\ BeginPass(call.round, call.attempt + 1, selectedIndex)
          /\ UNCHANGED <<remaining, outcome, interrupted, late>>
    /\ UNCHANGED <<selectedIndex, asked, lastPass, good>>

-----------------------------------------------------------------------------
(* SweSession.runNonStreamingChat: too many input tokens.  A compaction that *)
(* asks nobody has no messages to summarise; so has here one that asks        *)
(* elsewhere: the chain of an earlier Run, or the provider's own compactor.   *)

\* compactContext begins: KimiCompactor.CompactMessages.
CompactMessages ==
    /\ phase = "compact"
    /\ \E n \in Compactable \cup {0} : remaining' = IF n = 0 THEN <<>> ELSE <<n>>
    /\ phase' = "summarise"
    /\ UNCHANGED <<selectedIndex, call, reset, interrupted, outcome, asked, known,
                   lastPass, good, late>>

\* RetryChatModel.Chat begins for the summary of a chunk.
Summarise ==
    /\ phase = "summarise" /\ Summarising
    /\ BeginPass(call.round, 1, selectedIndex)
    /\ asked' = <<>>
    /\ UNCHANGED <<selectedIndex, reset, interrupted, remaining, outcome, lastPass, good, late>>

\* A snapshot cannot be written, before the compaction or after it.
CompactFails ==
    /\ \/ phase = "compact"
       \/ phase = "summarise" /\ ~Summarising
    /\ RequestReturns("uncompacted")
    /\ UNCHANGED <<selectedIndex, reset, asked, known, lastPass, good>>

\* Mistake: the rounds are not counted.
CompactedUncounted ==
    /\ phase = "summarise" /\ ~Summarising
    /\ BeginPass(call.round, 1, selectedIndex)
    /\ asked' = <<>>
    /\ UNCHANGED <<selectedIndex, reset, interrupted, remaining, outcome, lastPass, good, late>>

\* The session asks again, and gives up when it has had its rounds.
Compacted ==
    /\ phase = "summarise" /\ ~Summarising
    /\ \/ /\ call.round > MaxRetries
          /\ RequestReturns("tooLong")
          /\ UNCHANGED <<asked, known>>
       \/ /\ call.round <= MaxRetries
          /\ BeginPass(call.round + 1, 1, selectedIndex)
          /\ asked' = <<>>
          /\ UNCHANGED <<remaining, outcome, interrupted, late>>
    /\ UNCHANGED <<selectedIndex, reset, lastPass, good>>

-----------------------------------------------------------------------------
Step ==
    /\ \/ Answer \/ AskLimited \/ AskRefused \/ AskUnreachable
       \/ PassFails \/ Wait \/ CompactMessages \/ Summarise \/ CompactFails \/ Compacted
    /\ UNCHANGED switchDelay

Environment ==
    /\ Request \/ CancelRequest
    /\ UNCHANGED switchDelay

ChainNext == Environment \/ Step

\* The goroutine of the session makes progress and providers return.
ChainSpec == ChainInit /\ [][ChainNext]_chainVars /\ WF_chainVars(Step)

-----------------------------------------------------------------------------
Limits == [secs : Nat, usage : BOOLEAN, set : BOOLEAN]
CallLocals == [round : 0 .. MaxRetries + 1, attempt : 1 .. MaxRetries + 1,
               i : 0 .. NModels, index : Models, best : Limits, lastErr : Errors]

ChainTypeOK ==
    /\ switchDelay \in SwitchDelays
    /\ phase \in {"idle", "ask", "wait", "compact", "summarise"}
    /\ selectedIndex \in Models
    /\ call \in CallLocals
    /\ reset \in [Models -> Nat]
    /\ interrupted \in BOOLEAN
    /\ remaining \in Seq(Nat \ {0})
    /\ outcome \in {"none", "answer", "failed", "cancelled",
                    "uncompacted", "tooLong"}
    /\ asked \in Seq(Models) /\ known \subseteq Models
    /\ lastPass \subseteq Models
    /\ good \in Models \cup {NoModel} /\ late \in Nat

\* No model is asked again before all the others were, across the passes of a
\* retry too: the wrapper's index after a failed pass is the one it began with.
\* And it "keeps using the currently selected model across requests until errors
\* require switching" (fallback.go): a request begins with the model that answered
\* last, also when requests in between failed on every model.
RoundRobin ==
    /\ \A i, j \in DOMAIN asked :
          i < j /\ j - i < NModels => asked[i] # asked[j]
    /\ phase = "ask" /\ asked = <<>> /\ good # NoModel => call.index = good

\* A request is given up only after every model failed in its last pass.
AllAskedBeforeGivingUp ==
    phase = "idle" /\ outcome \in {"failed", "tooLong"} => lastPass = Models

\* When some model said when its limit resets, the wait is long enough for one
\* of them: the next pass does not find them all still limited, whatever the
\* others reported and in whatever order.
WaitReachesAReset ==
    [][phase = "wait" /\ phase' = "ask" /\ known # {} =>
          \E m \in known : reset'[m] = 0]_chainVars

\* With a context that is done a request asks each model once at the most: no
\* wait, retry or round of its own leads to another pass.  What its compaction
\* asks for summaries is not counted: that has a context of its own.
CancelEndsSoon == late <= NModels

\* Retries, switches and compactions do not go on for ever.
RequestEnds == phase # "idle" ~> phase = "idle"
=============================================================================
