---------------------------- MODULE TokenRefresh ----------------------------
(***************************************************************************)
(* The OAuth tokens of one model provider (pkg/models: oauth.go, the       *)
(* refresh code of ResponsesClient and OpenAIClient, config_updater.go).   *)
(* Requests of one process share a client: they look at the expiry of its  *)
(* token without the lock, look again under the lock, and the first one    *)
(* renews while holding it and writes the provider's file.  The server     *)
(* exchanges a refresh token once and hands out the next one; another      *)
(* process that loaded the same file goes on with the token it read.       *)
(***************************************************************************)
EXTENDS Naturals, FiniteSets

CONSTANTS Procs,        \* processes that load the provider's file
          Threads,      \* their requests: pairs of a process and a name
          Clients,      \* kinds of clients: records [kind, expiry, disabled]
          MaxTokens,    \* bound: pairs of tokens the server hands out
          MaxKills      \* bound: kills

ASSUME TokensAssumption ==
    /\ \A t \in Threads : t = <<t[1], t[2]>> /\ t[1] \in Procs /\ t[2] # "none"
    /\ Clients \subseteq [kind : {"responses", "openai"}, expiry : {"known", "unknown"}, disabled : BOOLEAN]
    /\ MaxTokens \in Nat \ {0} /\ MaxKills \in Nat

VARIABLES provider, \* the kind of client this provider has
          accepts, \* the refresh token the server accepts, a number
          age,     \* access token -> "fresh", "near" its expiry or "refused"
          file,    \* tokens in the provider's file: a number, or 0 when it is torn
          mem,     \* process -> its token pair, or 0 when it is down
          holder,  \* process -> the request that holds tokenMu, or "none"
          req,     \* process, request -> where it is, the token it sent, its attempt
          broken,  \* a renewed token did not reach the file
          kills
tokenVars == <<provider, accepts, age, file, mem, holder, req, broken, kills>>

New == [at |-> "check", force |-> FALSE, sent |-> 0, attempt |-> 1]

TokensInit ==
    /\ provider \in Clients
    /\ accepts = 1
    /\ age = [t \in 1..MaxTokens |-> "fresh"]
    /\ file = 1
    /\ mem = [p \in Procs |-> 1]
    /\ holder = [p \in Procs |-> "none"]
    /\ req = [t \in Threads |-> New]
    /\ broken = FALSE /\ kills = 0

----------------------------------------------------------------------------
\* IsTokenExpired: an unknown expiry counts as expired, so does one within the
\* safety margin.
IsTokenExpired(token) == provider.expiry = "unknown" \/ age[token] # "fresh"

\* Whether a request that is not forced renews: ResponsesClient waits for a 401
\* when the expiry is unknown, OpenAIClient renews.
RenewsEarly(token) ==
    /\ ~provider.disabled
    /\ provider.kind = "responses" => provider.expiry # "unknown"
    /\ IsTokenExpired(token)

\* Mistake: the decision made before the lock is kept.
RenewsUnchecked(r, token) == IF r.force THEN token = r.sent ELSE TRUE

\* What is decided under the lock: a forced renewal is dropped when another
\* request has changed the token, the others look at the expiry again.
RenewsLocked(r, token) == IF r.force THEN token = r.sent ELSE RenewsEarly(token)

Goes(t, where) == req' = [req EXCEPT ![t].at = where]

\* The way on without an error: after a forced renewal GetAccessToken begins
\* again, without force.
Returns(t) == req' = [req EXCEPT ![t].at = IF req[t].force THEN "check" ELSE "send",
                                 ![t].force = FALSE]

\* RefreshTokenIfNeeded up to the lock.
Check(t) ==
    /\ mem[t[1]] # 0 /\ req[t].at = "check" /\ holder[t[1]] = "none"
    /\ Goes(t, IF RenewsEarly(mem[t[1]]) THEN "lock" ELSE "send")
    /\ UNCHANGED <<provider, accepts, age, file, mem, holder, broken, kills>>

Lock(t) ==
    /\ req[t].at = "lock" /\ holder[t[1]] = "none"
    /\ IF RenewsLocked(req[t], mem[t[1]])
       THEN /\ holder' = [holder EXCEPT ![t[1]] = t[2]]
            /\ Goes(t, "renew")
       ELSE Returns(t) /\ UNCHANGED holder
    /\ UNCHANGED <<provider, accepts, age, file, mem, broken, kills>>

\* RenewToken answered: a server that takes the refresh token makes the next
\* pair, which the client keeps in memory.
Renewed(t) ==
    /\ req[t].at = "renew" /\ mem[t[1]] = accepts /\ accepts < MaxTokens
    /\ accepts' = accepts + 1
    /\ mem' = [mem EXCEPT ![t[1]] = accepts + 1]
    /\ Goes(t, "save")
    /\ UNCHANGED <<provider, age, file, holder, broken, kills>>

\* RenewToken failed: the token is spent already, the server cannot be reached,
\* or its answer is lost after it has made the next pair.
RenewFails(t) ==
    /\ req[t].at = "renew"
    /\ \/ UNCHANGED <<accepts, broken>>
       \/ mem[t[1]] = accepts /\ accepts < MaxTokens /\ accepts' = accepts + 1 /\ broken' = TRUE
    /\ holder' = [holder EXCEPT ![t[1]] = "none"]
    /\ Goes(t, "failed")
    /\ UNCHANGED <<provider, age, file, mem, kills>>

\* SaveProviderConfigToModelsDir copies the file aside and truncates it, or
\* fails before that, which only prints a warning.
SaveBegins(t) ==
    /\ req[t].at = "save"
    /\ \/ file' = 0 /\ Goes(t, "write") /\ UNCHANGED <<holder, broken>>
       \/ /\ broken' = TRUE
          /\ holder' = [holder EXCEPT ![t[1]] = "none"]
          /\ Returns(t)
          /\ UNCHANGED file
    /\ UNCHANGED <<provider, accepts, age, mem, kills>>

SaveEnds(t) ==
    /\ req[t].at = "write"
    /\ file' = mem[t[1]]
    /\ holder' = [holder EXCEPT ![t[1]] = "none"]
    /\ Returns(t)
    /\ UNCHANGED <<provider, accepts, age, mem, broken, kills>>

\* shouldRefreshAfterUnauthorized: whether a refused request is repeated.
Retries(r) == r.attempt = 1 /\ provider.kind = "responses" /\ ~provider.disabled

\* GetAccessToken reads the token under the lock and the request goes out.  A
\* 401 that says the token has expired is renewed and repeated once; the other
\* client, and one whose renewal is disabled, returns it.
Send(t) ==
    /\ req[t].at = "send" /\ holder[t[1]] = "none"
    /\ LET token == mem[t[1]] IN
       \/ age[token] # "refused" /\ Goes(t, "done")
       \/ /\ age[token] = "refused" /\ Retries(req[t])
          /\ req' = [req EXCEPT ![t] = [at |-> "lock", force |-> TRUE, sent |-> token, attempt |-> 2]]
       \/ age[token] = "refused" /\ ~Retries(req[t]) /\ Goes(t, "failed")
    /\ UNCHANGED <<provider, accepts, age, file, mem, holder, broken, kills>>

\* Time passes.
Ages(token) ==
    /\ \E p \in Procs : mem[p] = token
    /\ age' = [age EXCEPT ![token] = IF @ = "fresh" THEN "near" ELSE "refused"]
    /\ UNCHANGED <<provider, accepts, file, mem, holder, req, broken, kills>>

\* The process is killed; it starts again from the file, which a torn write
\* makes unreadable.
Kill(p) ==
    /\ mem[p] # 0 /\ kills < MaxKills
    /\ kills' = kills + 1
    /\ mem' = [mem EXCEPT ![p] = 0]
    /\ broken' = (broken \/ \E t \in Threads : t[1] = p /\ req[t].at \in {"save", "write"})
    /\ holder' = [holder EXCEPT ![p] = "none"]
    /\ req' = [t \in Threads |-> IF t[1] = p THEN [New EXCEPT !.at = "killed"] ELSE req[t]]
    /\ UNCHANGED <<provider, accepts, age, file>>

Restart(p) ==
    /\ mem[p] = 0 /\ file # 0
    /\ mem' = [mem EXCEPT ![p] = file]
    /\ req' = [t \in Threads |-> IF t[1] = p THEN New ELSE req[t]]
    /\ UNCHANGED <<provider, accepts, age, file, holder, broken, kills>>

Run(t) == \/ Check(t) \/ Lock(t) \/ Renewed(t) \/ RenewFails(t)
          \/ SaveBegins(t) \/ SaveEnds(t) \/ Send(t)
TokensNext == \/ \E t \in Threads : Run(t)
              \/ \E token \in 1..MaxTokens : age[token] # "refused" /\ Ages(token)
              \/ \E p \in Procs : Kill(p) \/ Restart(p)

\* Go runs every goroutine, and an HTTP client with a timeout ends every call.
TokensFairness == \A t \in Threads : WF_tokenVars(Run(t))
TokensSpec == TokensInit /\ [][TokensNext]_tokenVars /\ TokensFairness
----------------------------------------------------------------------------
\* A renewal is asked for only when the token in use is about to expire or has
\* been refused: of several requests that see one stale token, one renews it
\* (refreshTokenIfNeeded's second look, under the lock).  A client that does not
\* know the expiry and does not wait for a 401 renews each time.
RenewsOnlyStale ==
    \A t \in Threads :
        req[t].at = "renew" =>
            \/ age[mem[t[1]]] # "fresh"
            \/ provider.kind = "openai" /\ provider.expiry = "unknown"

\* While nobody is renewing, the file holds the refresh token the server would
\* take, so that a restart can go on with it, unless an answer or a write was
\* lost (the persistence after RenewToken, under the lock).
SavedTokenUsable ==
    (~broken /\ \A p \in Procs : holder[p] = "none") => file = accepts

\* Of requests that meet one stale token one renews it, and the file can be restarted
\* from (responses_client_oauth_refresh.go, openai_client_oauth_refresh.go).
TokensUsable == RenewsOnlyStale /\ SavedTokenUsable

\* Every request of a process that is not killed comes to an end, whatever
\* happens to the renewals of the others (tokenMu is released on every path).
RequestAnswered(t) == (req[t].at = "check") ~> (req[t].at \in {"done", "failed", "killed"})
=============================================================================
