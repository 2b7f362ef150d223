------------------------------- MODULE ToolPool -------------------------------
(***************************************************************************)
(* The tool calls of one answer of the model, executed by a pool of        *)
(* goroutines (SweSession.executeToolCalls, pkg/core/session_tools.go),    *)
(* and the session.json each of them may write while it runs               *)
(* (session_persistence.go): a tool that changes the todo list or reserves *)
(* the slug of a sub-agent persists the session from its own goroutine,    *)
(* through the one file session.json.tmp.                                  *)
(*                                                                         *)
(* A process may be killed at any step and its session restored from       *)
(* session.json (RestoreSessionFromPersistedState); pendingToolResponses,  *)
(* which nothing but a restore ever sets, is empty and left out.           *)
(***************************************************************************)
EXTENDS Naturals, Sequences, FiniteSets, SequencesExt

CONSTANTS Workers,   \* the goroutines of the pool: maxToolThreadsLimit()
          Main,      \* the goroutine of Run
          Batches,   \* what the model may ask for: sequences of tools
          FilesOf,   \* tool |-> the AGENTS.md files above what it reads, deepest first
          MaxRounds, \* bound: answers with tool calls, and runs after a failure
          MaxCrashes \* bound: kills

\* The AGENTS.md files there are.
AgentFiles == UNION {ToSet(FilesOf[t]) : t \in DOMAIN FilesOf}

ASSUME PoolAssumption ==
    /\ Main \notin Workers
    /\ FilesOf \in [DOMAIN FilesOf -> Seq(AgentFiles)]
    /\ Batches \subseteq Seq(DOMAIN FilesOf)
    /\ MaxRounds \in Nat /\ MaxCrashes \in Nat

VARIABLES
    messages, todo, slugs, loaded, \* the session: conversation, list, slugs, AGENTS.md files
    main,      \* where Run is
    calls,     \* the calls being executed
    jobs,      \* indices of those no goroutine has taken
    worker,    \* what each goroutine of the pool is doing
    results,   \* the responses by index
    look,      \* the calls whose AGENTS.md files were looked for, and those left of the last
    news,      \* AGENTS.md files that are still to be appended
    mutex,     \* subAgentSlugsMu
    saving,    \* the persist each goroutine is in
    file,      \* session.json and session.json.tmp
    rounds, crashes

session == <<messages, todo, slugs, loaded>>
pool == <<calls, jobs, worker, results>>
instructions == <<look, news>>
poolVars == <<session, main, pool, instructions, mutex, saving, file, rounds, crashes>>

Absent == [is |-> "absent"]
Empty  == [is |-> "empty"]
Torn   == [is |-> "torn"]  \* parts of two writes
Whole(snapshot) == [is |-> "whole", of |-> snapshot]

\* buildPersistedSessionState
Snapshot == [messages |-> messages, todo |-> todo, slugs |-> slugs, loaded |-> loaded]

NotSaving == [at |-> "no", buf |-> Absent, inode |-> "none"]
NoLook == [calls |-> 0, files |-> << >>]
Resting == [at |-> "free", job |-> 0]
Goroutines == Workers \cup {Main}

PoolInit ==
    /\ messages = <<[is |-> "prompt"]>> /\ todo = 0 /\ slugs = 0 /\ loaded = {}
    /\ main = "chat"
    /\ calls = << >> /\ jobs = {} /\ results = << >>
    /\ worker = [w \in Workers |-> Resting]
    /\ look = NoLook /\ news = << >> /\ mutex = "free"
    /\ saving = [g \in Goroutines |-> NotSaving]
    /\ file = [tmp |-> Absent, final |-> Whole(Snapshot)]
    /\ rounds = 0 /\ crashes = 0

-----------------------------------------------------------------------------
(* persistSessionStateFile: build the state, open and truncate the         *)
(* temporary file, write it, rename it.                                    *)

\* Goroutine g has changed the session and begins to persist it.
BeginSave(g) ==
    saving' = [saving EXCEPT ![g] = [at |-> "open", buf |-> Whole(Snapshot'), inode |-> "none"]]

Saved(g) == saving[g].at = "no"

\* os.WriteFile opens whatever is at the temporary path.
OpenTmp(g) ==
    /\ saving[g].at = "open"
    /\ file' = [file EXCEPT !.tmp = Empty]
    /\ saving' = [saving EXCEPT ![g].at = "write", ![g].inode = "tmp"]
    /\ UNCHANGED <<session, main, pool, instructions, mutex, rounds, crashes>>

\* The file may have been renamed since it was opened, even replaced; over a longer
\* text written in the meantime that text's tail stays.
WriteTmp(g) ==
    /\ saving[g].at = "write"
    /\ LET f == saving[g].inode IN
       IF f = "gone" THEN UNCHANGED file
       ELSE \E new \in {saving[g].buf} \cup (IF file[f] = Empty THEN {} ELSE {Torn}) :
                file' = [file EXCEPT ![f] = new]
    /\ saving' = [saving EXCEPT ![g].at = "rename", ![g].inode = "none"]
    /\ UNCHANGED <<session, main, pool, instructions, mutex, rounds, crashes>>

\* Without the temporary file, which another goroutine has renamed, the error is logged.
RenameTmp(g) ==
    /\ saving[g].at = "rename"
    /\ \/ /\ file.tmp = Absent
          /\ UNCHANGED file
          /\ saving' = [saving EXCEPT ![g] = NotSaving]
       \/ /\ file.tmp # Absent
          /\ file' = [tmp |-> Absent, final |-> file.tmp]
          /\ saving' = [h \in Goroutines |->
                CASE h = g -> NotSaving
                  [] h # g /\ saving[h].inode = "tmp" -> [saving[h] EXCEPT !.inode = "final"]
                  [] h # g /\ saving[h].inode = "final" -> [saving[h] EXCEPT !.inode = "gone"]
                  [] OTHER -> saving[h]]
    /\ UNCHANGED <<session, main, pool, instructions, mutex, rounds, crashes>>

-----------------------------------------------------------------------------
(* The pool.                                                               *)

\* appendConversationMessage: append and persist.
AppendMessage(m) ==
    /\ messages' = Append(messages, m)
    /\ UNCHANGED <<todo, slugs, loaded>>
    /\ BeginSave(Main)

StartPool(list) ==
    /\ calls' = list
    /\ jobs' = DOMAIN list
    /\ results' = [i \in DOMAIN list |-> <<>>]
    /\ worker' = [w \in Workers |-> Resting]

\* The answer of the model is appended; calls are numbered by the answer they are in.
Answer ==
    /\ main = "chat" /\ Saved(Main) /\ rounds < MaxRounds
    /\ rounds' = rounds + 1
    /\ \E batch \in Batches :
          LET list == [i \in DOMAIN batch |-> [id |-> <<rounds', i>>, tool |-> batch[i]]] IN
          AppendMessage([is |-> "calls", calls |-> list]) /\ StartPool(list)
    /\ main' = "pool"
    /\ UNCHANGED <<instructions, mutex, file, crashes>>

\* A goroutine receives the next call from the channel.
Take(w) ==
    /\ main = "pool" /\ Saved(Main) /\ worker[w].at = "free"
    /\ jobs # {}
    /\ LET i == CHOOSE i \in jobs : \A k \in jobs : i <= k IN
       /\ worker' = [worker EXCEPT ![w] = [at |-> "tool", job |-> i]]
       /\ jobs' = jobs \ {i}
    /\ UNCHANGED <<session, main, calls, results, instructions, mutex, saving, file, rounds, crashes>>

Executing(w, tool) == worker[w].at = "tool" /\ calls[worker[w].job].tool = tool
Executed(w) == worker' = [worker EXCEPT ![w].at = "done"]

\* SetTodoList: the list is replaced under its own mutex and persisted without it.
SetTodoList(w) ==
    /\ Executing(w, "todo")
    /\ todo' = todo + 1 /\ UNCHANGED <<messages, slugs, loaded>>
    /\ BeginSave(w) /\ Executed(w)
    /\ UNCHANGED <<main, calls, jobs, results, instructions, mutex, file, rounds, crashes>>

\* ReserveUniqueSubAgentSlug: the mutex is held until the session is persisted.
ReserveSlug(w) ==
    /\ Executing(w, "sub") /\ mutex = "free"
    /\ mutex' = w
    /\ slugs' = slugs + 1 /\ UNCHANGED <<messages, todo, loaded>>
    /\ BeginSave(w) /\ Executed(w)
    /\ UNCHANGED <<main, calls, jobs, results, instructions, file, rounds, crashes>>

Read(w) ==
    /\ \E tool \in DOMAIN FilesOf \ {"todo", "sub"} : Executing(w, tool)
    /\ Executed(w)
    /\ UNCHANGED <<session, main, calls, jobs, results, instructions, mutex, saving, file, rounds, crashes>>

\* Mistake: the session is persisted in the background.
RespondUnsaved(w) ==
    /\ worker[w].at = "done"
    /\ results' = [results EXCEPT ![worker[w].job] = calls[worker[w].job].id]
    /\ worker' = [worker EXCEPT ![w] = Resting]
    /\ mutex' = IF mutex = w THEN "free" ELSE mutex
    /\ UNCHANGED <<session, main, calls, jobs, instructions, saving, file, rounds, crashes>>

\* The response of a call is put at the call's index.
Respond(w) ==
    /\ worker[w].at = "done" /\ Saved(w)
    /\ results' = [results EXCEPT ![worker[w].job] = calls[worker[w].job].id]
    /\ worker' = [worker EXCEPT ![w] = Resting]
    /\ mutex' = IF mutex = w THEN "free" ELSE mutex
    /\ UNCHANGED <<session, main, calls, jobs, instructions, saving, file, rounds, crashes>>

-----------------------------------------------------------------------------
(* After wg.Wait().                                                        *)

\* Mistake: it is enough that the last call was taken.
AllTaken == main = "pool" /\ Saved(Main) /\ jobs = {}

Waited == main = "pool" /\ Saved(Main) /\ jobs = {} /\ \A w \in Workers : worker[w].at = "free"

\* buildAdditionalAgentMessages for one call after the other; the directories a vfsGrep
\* found are taken as one.  When an AGENTS.md cannot be read, the responses are dropped
\* and the run ends; what was read for the calls before stays marked as loaded.
LookAtCall ==
    /\ Waited /\ look.files = << >> /\ look.calls < Len(calls)
    /\ LET files == FilesOf[calls[look.calls + 1].tool] IN
       \/ /\ look' = [calls |-> look.calls + 1, files |-> files]
          /\ UNCHANGED <<main, news>>
       \/ /\ files # << >>
          /\ main' = "failed"
          /\ look' = NoLook /\ news' = << >>
    /\ UNCHANGED <<session, pool, mutex, saving, file, rounds, crashes>>

\* buildAdditionalAgentMessageForDir: a file is marked as loaded when its message is built.
LoadFile ==
    /\ Waited /\ look.files # << >>
    /\ look' = [look EXCEPT !.files = Tail(@)]
    /\ LET f == Head(look.files) IN
       /\ loaded' = loaded \cup {f}
       /\ news' = IF f \in loaded THEN news ELSE Append(news, f)
    /\ UNCHANGED <<messages, todo, slugs, main, pool, mutex, saving, file, rounds, crashes>>

Looked == Waited /\ look.calls = Len(calls) /\ look.files = << >>

\* The responses become one message.
Collect ==
    /\ Looked
    /\ AppendMessage([is |-> "results", of |-> results])
    /\ look' = NoLook
    /\ main' = "agents"
    /\ UNCHANGED <<pool, news, mutex, file, rounds, crashes>>

AppendAgents ==
    /\ main = "agents" /\ Saved(Main) /\ news # << >>
    /\ AppendMessage([is |-> "agents", file |-> Head(news)])
    /\ news' = Tail(news)
    /\ UNCHANGED <<main, pool, look, mutex, file, rounds, crashes>>

\* The last persist of the calls; then the model is asked again.
EndCalls ==
    /\ main = "agents" /\ Saved(Main) /\ news = << >>
    /\ UNCHANGED session
    /\ BeginSave(Main)
    /\ main' = "chat"
    /\ calls' = << >> /\ results' = << >> /\ UNCHANGED <<jobs, worker>>
    /\ UNCHANGED <<instructions, mutex, file, rounds, crashes>>

\* The session's owner runs it again after the error: Run begins with the calls of
\* the last message.
RunAgain ==
    /\ main = "failed" /\ rounds < MaxRounds
    /\ rounds' = rounds + 1
    /\ StartPool(Last(messages).calls)
    /\ main' = "pool"
    /\ UNCHANGED <<session, instructions, mutex, saving, file, crashes>>

-----------------------------------------------------------------------------
Crash ==
    /\ main # "dead" /\ crashes < MaxCrashes
    /\ crashes' = crashes + 1
    /\ main' = "dead"
    /\ calls' = << >> /\ jobs' = {} /\ results' = << >> /\ worker' = [w \in Workers |-> Resting]
    /\ look' = NoLook /\ news' = << >> /\ mutex' = "free"
    /\ saving' = [g \in Goroutines |-> NotSaving]
    /\ UNCHANGED <<session, file, rounds>>

\* HasPendingWork and the top of Run: calls without responses are executed again.
Restore ==
    /\ main = "dead" /\ file.final.is = "whole"
    /\ LET s == file.final.of IN
       /\ messages' = s.messages /\ todo' = s.todo /\ slugs' = s.slugs /\ loaded' = s.loaded
       /\ \/ /\ Last(s.messages).is = "calls"
             /\ StartPool(Last(s.messages).calls) /\ main' = "pool"
          \/ /\ Last(s.messages).is # "calls"
             /\ UNCHANGED pool /\ main' = "chat"
    /\ UNCHANGED <<instructions, mutex, saving, file, rounds, crashes>>

PoolNext ==
    \/ Answer \/ LookAtCall \/ LoadFile \/ Collect \/ AppendAgents \/ EndCalls \/ RunAgain
    \/ \E w \in Workers : Take(w) \/ SetTodoList(w) \/ ReserveSlug(w) \/ Read(w) \/ Respond(w)
    \/ \E g \in Goroutines : OpenTmp(g) \/ WriteTmp(g) \/ RenameTmp(g)
    \/ Crash \/ Restore

PoolSpec == PoolInit /\ [][PoolNext]_poolVars

-----------------------------------------------------------------------------
(* Properties.                                                             *)

PoolTypeOK ==
    /\ main \in {"chat", "pool", "agents", "failed", "dead"}
    /\ \A w \in Workers : worker[w].at \in {"free", "tool", "done"}
    /\ \A w \in Workers : worker[w].at # "free" => worker[w].job \in DOMAIN calls
    /\ mutex \in Workers \cup {"free"}
    /\ \A g \in Goroutines : saving[g].at \in {"no", "open", "write", "rename"}
    /\ rounds \in 0 .. MaxRounds /\ crashes \in 0 .. MaxCrashes

\* In the conversation every call has one response, in the order of the calls and in
\* the message after theirs, whichever goroutines executed them and however often the
\* run failed or the session was restored in between (executeToolCalls, Run).
CallsAnsweredInOrder ==
    \A i \in DOMAIN messages :
        /\ messages[i].is = "calls" /\ i < Len(messages) =>
              /\ messages[i + 1].is = "results"
              /\ messages[i + 1].of = [k \in DOMAIN messages[i].calls |-> messages[i].calls[k].id]
        /\ messages[i].is = "results" => i > 1 /\ messages[i - 1].is = "calls"

\* The instructions of one AGENTS.md are added at most once, also by calls of one
\* answer that read below it and after a restore (buildAdditionalAgentMessageForDir).
AgentFilesOnce ==
    \A i, k \in DOMAIN messages :
        messages[i].is = "agents" /\ messages[k] = messages[i] => i = k

\* What executeToolCalls leaves in the conversation, whatever the pool does and however
\* often the session is killed and restored.
ToolResultsInPlace == PoolTypeOK /\ CallsAnsweredInOrder /\ AgentFilesOnce

\* Whatever the persists of tools did to each other's temporary file, when the session
\* waits for the model session.json holds the session as it is
\* (persistSessionStateFile, executeToolCalls).
FileCurrentWhenIdle ==
    main = "chat" /\ Saved(Main) => file.final = Whole(Snapshot)
=============================================================================
