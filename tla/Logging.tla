------------------------------- MODULE Logging -------------------------------
(***************************************************************************)
(* The loggers of a process (pkg/logging/logger.go): a global one and one  *)
(* per session, made at first use, kept in maps, moved to files by         *)
(* SetLogsDirectory and closed with the session.  Three read-write locks   *)
(* guard the directory, the global logger and the sessions' loggers; every *)
(* step below takes one of them or ends the call.                          *)
(*                                                                         *)
(* A writer is a number; whether it is a file and what a log holds is left *)
(* out.                                                                    *)
(***************************************************************************)
EXTENDS Naturals, FiniteSets

CONSTANTS
    Callers,     \* goroutines
    Keys,        \* pairs of a session and a kind of log
    MaxWriters   \* bound: writers opened

ASSUME LoggingAssumption ==
    /\ IsFiniteSet(Keys) /\ "global" \notin Keys
    /\ MaxWriters \in Nat

Global == "global"  \* the key of the global logger
Locks == {"config", "global", "sessions"}

VARIABLES
    doing,       \* caller -> the call it is in, its key and the next step
    lockedBy,    \* lock -> the callers that hold it while they wait: none or one
    registered,  \* key -> the writer of its logger, or None
    open,        \* the writers not closed
    opened,      \* history: writers opened so far
    configured,  \* history: SetLogsDirectory has been called
    migrationFailed  \* history: a migration has failed

loggers == <<registered, open, opened>>
loggingVars == <<doing, lockedBy, loggers, configured, migrationFailed>>

None == 0
Idle == [call |-> "none", key |-> Global, step |-> "idle"]

LoggingInit ==
    /\ doing = [c \in Callers |-> Idle]
    /\ lockedBy = [l \in Locks |-> {}]
    /\ registered = [k \in Keys \cup {Global} |-> None]
    /\ open = {} /\ opened = 0
    /\ configured = FALSE /\ migrationFailed = FALSE

-----------------------------------------------------------------------------
(* Locks: a section that waits for nothing is one step, and leaves no trace *)

IsFree(l) == lockedBy[l] = {}
Hold(c, l) == lockedBy' = [lockedBy EXCEPT ![l] = {c}]

\* Everything the caller holds is released when it returns.
Release(c) == lockedBy' = [l \in Locks |-> lockedBy[l] \ {c}]

At(c, call, step) == doing[c].call = call /\ doing[c].step = step
GoTo(c, step) == doing' = [doing EXCEPT ![c].step = step]
Return(c) == doing' = [doing EXCEPT ![c] = Idle] /\ Release(c)

-----------------------------------------------------------------------------
(* Writers *)

OpenWriter(k) ==
    /\ opened < MaxWriters
    /\ opened' = opened + 1
    /\ registered' = [registered EXCEPT ![k] = opened + 1]
    /\ open' = open \cup {opened + 1}

CloseWriters(ks) ==
    /\ open' = open \ {registered[k] : k \in ks}
    /\ registered' = [k \in DOMAIN registered |-> IF k \in ks THEN None ELSE registered[k]]

\* A migration closes each old writer and opens a new one; when that fails it
\* returns at once, with the old writer closed and its logger still there.
Migrate(ks) ==
    LET made == {k \in ks : registered[k] # None} IN
    \E moved \in SUBSET made :
        LET number(k) == opened + Cardinality({j \in moved : registered[j] <= registered[k]})
        IN  /\ opened + Cardinality(moved) <= MaxWriters
            /\ opened' = opened + Cardinality(moved)
            /\ registered' = [k \in DOMAIN registered |->
                                 IF k \in moved THEN number(k) ELSE registered[k]]
            /\ \E failed \in SUBSET (made \ moved) :
                  /\ Cardinality(failed) = (IF moved = made THEN 0 ELSE 1)
                  /\ open' = (open \ {registered[k] : k \in moved \cup failed})
                                \cup {number(k) : k \in moved}
                  /\ migrationFailed' = (migrationFailed \/ failed # {})

-----------------------------------------------------------------------------
(* SetLogsDirectory *)

Call(c, call, k) ==
    /\ doing[c] = Idle
    /\ doing' = [doing EXCEPT ![c] = [call |-> call, key |-> k, step |-> "begin"]]

\* BuildSystem calls it once; the locks are there for the goroutines that log by then.
SetLogsDirectoryCalled(c) ==
    /\ ~configured /\ Call(c, "SetLogsDirectory", Global)
    /\ configured' = TRUE
    /\ UNCHANGED <<lockedBy, loggers, migrationFailed>>

\* The directory cannot be written, or it is set and the next lock is waited for
\* with this one held.
SetLogsDirectory(c) ==
    /\ At(c, "SetLogsDirectory", "begin") /\ IsFree("config")
    /\ \/ Return(c)
       \/ Hold(c, "config") /\ GoTo(c, "global")
    /\ UNCHANGED <<loggers, configured, migrationFailed>>

MigrateGlobalLogger(c) ==
    /\ At(c, "SetLogsDirectory", "global") /\ IsFree("global")
    /\ Migrate({Global})
    /\ IF registered[Global] # None /\ opened' = opened THEN Return(c)
       ELSE GoTo(c, "sessions") /\ UNCHANGED lockedBy
    /\ UNCHANGED configured

MigrateSessionLoggers(c) ==
    /\ At(c, "SetLogsDirectory", "sessions") /\ IsFree("sessions")
    /\ Migrate(Keys) /\ Return(c)
    /\ UNCHANGED configured

-----------------------------------------------------------------------------
(* The loggers *)

UseLogger(c, k) ==
    /\ Call(c, IF k = Global THEN "GetGlobalLogger" ELSE "GetSessionLogger", k)
    /\ UNCHANGED <<lockedBy, loggers, configured, migrationFailed>>

\* The lookup under the read lock; a logger found is returned.
FindSessionLogger(c) ==
    /\ At(c, "GetSessionLogger", "begin") /\ IsFree("sessions")
    /\ IF registered[doing[c].key] # None THEN Return(c)
       ELSE GoTo(c, "create") /\ UNCHANGED lockedBy
    /\ UNCHANGED <<loggers, configured, migrationFailed>>

\* Mistake: what was read before the lock was changed is relied upon.
MadeMeanwhileForgotten(c) == FALSE

\* Another caller has made the logger between the two locks.
MadeMeanwhile(c) == registered[doing[c].key] # None

LockOf(call) == IF call = "GetGlobalLogger" THEN "global" ELSE "sessions"
Creating(c) ==
    At(c, "GetSessionLogger", "create") \/ At(c, "GetGlobalLogger", "begin")

CreateLogger(c) ==
    /\ Creating(c) /\ IsFree(LockOf(doing[c].call))
    /\ IF MadeMeanwhile(c) THEN Return(c)
       ELSE Hold(c, LockOf(doing[c].call)) /\ GoTo(c, "directory")
    /\ UNCHANGED <<loggers, configured, migrationFailed>>

\* The directory is read under its own lock, with the other one held.
OpenLogger(c) ==
    /\ doing[c].step = "directory" /\ IsFree("config")
    /\ OpenWriter(doing[c].key) /\ Return(c)
    /\ UNCHANGED <<configured, migrationFailed>>

\* One session's loggers, or all of them.
CloseSessionLoggers(c, ks) ==
    /\ doing[c] = Idle /\ IsFree("sessions")
    /\ CloseWriters(ks)
    /\ UNCHANGED <<doing, lockedBy, configured, migrationFailed, opened>>

FlushLogs(c) ==
    \/ /\ Call(c, "FlushLogs", Global)
       /\ UNCHANGED <<lockedBy, loggers, configured, migrationFailed>>
    \/ /\ At(c, "FlushLogs", "begin") /\ IsFree("global")
       /\ GoTo(c, "sessions")
       /\ UNCHANGED <<lockedBy, loggers, configured, migrationFailed>>
    \/ /\ At(c, "FlushLogs", "sessions") /\ IsFree("sessions")
       /\ Return(c)
       /\ UNCHANGED <<loggers, configured, migrationFailed>>

LoggingNext ==
    \E c \in Callers :
        \/ SetLogsDirectoryCalled(c) \/ SetLogsDirectory(c)
        \/ MigrateGlobalLogger(c) \/ MigrateSessionLoggers(c)
        \/ \E k \in Keys \cup {Global} : UseLogger(c, k)
        \/ FindSessionLogger(c) \/ CreateLogger(c) \/ OpenLogger(c)
        \/ \E ks \in {{k} : k \in Keys} \cup {Keys} : CloseSessionLoggers(c, ks)
        \/ FlushLogs(c)

LoggingSpec == LoggingInit /\ [][LoggingNext]_loggingVars

-----------------------------------------------------------------------------
(* Properties *)

\* However callers race to make, find and close a logger, a writer that is open
\* belongs to one registered logger, and a registered logger can be written to
\* unless a migration has failed.
LoggersHaveWriters ==
    /\ \A w \in open : \E k \in DOMAIN registered : registered[k] = w
    /\ \A k \in DOMAIN registered :
           registered[k] # None /\ ~migrationFailed => registered[k] \in open

=============================================================================
