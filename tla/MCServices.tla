----------------------------- MODULE MCServices -----------------------------
(***************************************************************************)
(* The services of a run that answer its goroutines: shell commands and    *)
(* their container, the client of a language server, the tokens of a       *)
(* provider, the chain of models.  They have no state in common, so each   *)
(* runs alone: `mode' is chosen once and says which one.                   *)
(***************************************************************************)
EXTENDS LspClient, Commands, TokenRefresh, Sequences, TLC

CONSTANTS Modes, c1, c2, t1, t2

VARIABLES mode,
          \* of the chain of models
          switchDelay, phase, selectedIndex, call, reset, interrupted, remaining, outcome,
          asked, known, lastPass, good, late
chatVars == <<switchDelay, phase, selectedIndex, call, reset, interrupted, remaining, outcome,
              asked, known, lastPass, good, late>>

\* Two models, with and without a delay between them, a retry, and compactions of two
\* messages, which may be halved.
Chain == INSTANCE ModelChain WITH
    NModels <- 2, MaxRetries <- 1, InitialDelay <- 1, MaxDelay <- 2, SwitchDelays <- {0, 1},
    UsageBuffer <- 1, Resets <- {1}, Compactable <- {2}

-----------------------------------------------------------------------------
(* What is asked of them.                                                  *)

\* Two patterns of a role that allow, and a more specific one that denies.
Pattern(matches, specificity, access) ==
    [matches |-> matches, specificity |-> specificity, access |-> access]
MCPrivileges == {Pattern({"ok", "fails", "hangs", "forks"}, 1, "allow"), Pattern({"fails"}, 2, "deny"),
                 Pattern({"ok"}, 2, "ask"), Pattern({"ok"}, 2, "allow")}
Plain(command) == [command |-> command, workdir |-> "session", timeout |-> "none",
                   background |-> "no", maxOutput |-> "none", access |-> ""]
MCArguments ==
    {Plain(c) : c \in {"ok", "fails", "hangs", "forks"}}
    \cup {[Plain(c) EXCEPT !.timeout = "set"] : c \in {"hangs", "forks"}}
    \cup {[Plain("forks") EXCEPT !.background = b] : b \in {"zero", "set"}}
    \cup {[Plain("hangs") EXCEPT !.timeout = "bad"],
          [Plain("ok") EXCEPT !.maxOutput = "small", !.workdir = "absolute", !.access = "allow"],
          [Plain("fails") EXCEPT !.access = "allow"],
          [Plain("ok") EXCEPT !.workdir = "absolute"]}

Provider(kind, expiry, disabled) == [kind |-> kind, expiry |-> expiry, disabled |-> disabled]
MCClients == {Provider("responses", "known", FALSE), Provider("responses", "unknown", FALSE),
              Provider("responses", "known", TRUE),
              Provider("openai", "known", FALSE), Provider("openai", "unknown", FALSE)}
MCThreads == {<<"p", "r1">>, <<"p", "r2">>, <<"q", "r1">>}

-----------------------------------------------------------------------------
(* One of them runs.                                                       *)

MCInit ==
    /\ mode \in Modes
    /\ CommandsInit /\ Init /\ TokensInit /\ Chain!ChainInit
    /\ mode = "commands" \/ runner = "host"
    /\ mode = "tokens" \/ provider = Provider("openai", "known", FALSE)
    /\ mode = "chain" \/ switchDelay = 0

MCNext ==
    /\ UNCHANGED mode
    /\ IF mode = "commands" THEN CommandsNext ELSE UNCHANGED commandVars
    /\ IF mode = "lsp" THEN Next ELSE UNCHANGED vars
    /\ IF mode = "tokens" THEN TokensNext ELSE UNCHANGED tokenVars
    /\ IF mode = "chain" THEN Chain!ChainNext ELSE UNCHANGED chatVars

\* The fairness of the components, each while it is the one that runs.
MCFairness ==
    /\ WF_commandVars(mode = "commands" /\ Terminate)
    /\ \A i \in Calls : WF_commandVars(mode = "commands" /\ CommandStep(i))
    /\ \A c \in Callers : WF_vars(mode = "lsp" /\ Step(c))
    /\ WF_vars(mode = "lsp" /\ \E i \in Ids : HandleResponse(i))
    /\ \A t \in Threads : WF_tokenVars(mode = "tokens" /\ Run(t))
    /\ WF_chatVars(mode = "chain" /\ Chain!Step)

MCSpec == /\ MCInit
          /\ [][MCNext]_<<mode, commandVars, vars, tokenVars, chatVars>>
          /\ MCFairness

-----------------------------------------------------------------------------
\* A limited command, a request to a living language server and a request that needs a
\* token all come to an end.  What holds of c1, t1 and the first request holds of the
\* others that are like them.
EveryCallEnds ==
    /\ mode = "commands" => CallEnds(c1)
    /\ mode = "lsp" => RequestEnds(t1) /\ RequestEnds(Main)
    /\ mode = "tokens" => RequestAnswered(<<"p", "r1">>)

\* A request of a session ends, however often its models are limited or fail and its
\* conversation is too long: retries, switches and compactions do not go on for ever.
ChatEnds == mode = "chain" => Chain!RequestEnds
=============================================================================
