------------------------------ MODULE TaskStore ------------------------------
(***************************************************************************)
(* The tasks of a project: a tree of directories, each with one task.yml   *)
(* (pkg/core/task.go, task_storage.go, task_archive.go), changed without a *)
(* lock by every csw process there is: `csw task ...', the task tools of a *)
(* session, and `csw run' itself, which marks the task running and, when   *)
(* the session is over, applies the command's metadata and a final status  *)
(* (pkg/system/run.go, run_task.go).                                       *)
(*                                                                         *)
(* Every change reads the whole tree, changes one record in memory, and    *)
(* rewrites one file in place: opening it empties it, the write comes      *)
(* after.  Between any two of these another process may run, and a process *)
(* may be killed.                                                          *)
(***************************************************************************)
EXTENDS Naturals, Sequences, FiniteSets, Functions

CONSTANTS Procs,      \* csw processes
          Tasks,
          Root,       \* the parent of a task at the top
          ParentOf,   \* the task whose directory a task is created in, or Root
          Existing,   \* the tasks there are at the start
          Branchless, \* tasks without a feature branch
          Notes,      \* values of the fields other than status: name, role, ...
          Statuses,   \* the statuses an update sets and an archive chooses
          MaxOps,     \* bound: operations begun
          MaxKills    \* bound: processes killed

ASSUME TaskAssumption ==
    /\ IsFiniteSet(Tasks)
    /\ ParentOf \in [Tasks -> Tasks \cup {Root}]
    /\ Root \notin Tasks
    /\ Existing \subseteq Tasks
    /\ \A t \in Existing : ParentOf[t] \in Existing \cup {Root}
    /\ Notes # {}
    /\ Statuses \subseteq {"created", "running", "completed", "merged"}
    /\ MaxOps \in Nat /\ MaxKills \in Nat

VARIABLES
    disk,     \* disk[r][t]: what is at t's directory under tasks/ and tasks/archive/
    pc,       \* where each process stands
    job,      \* the rewrite it is doing: of which task, with which fields changed
    run,      \* the `csw run' it is: task, InitialTask, CommandTaskMetadata, final status
    queue,    \* the tasks an archiving process still has to move
    moved,    \* and those it has moved
    ops, kills,
    said,     \* history: the fields as the operations completed so far set them
    raced,    \* history: tasks two processes were rewriting at the same time
    ruffled   \* history: archiving processes that met an older archive or another process

vars == <<disk, pc, job, run, queue, moved, ops, kills, said, raced, ruffled>>
history == <<said, raced, ruffled>>
archiving == <<queue, moved, ruffled>>

Record == [is : {"task"}, status : {"created", "running", "completed", "merged"}, note : Notes, subtasks : SUBSET Tasks]

Nothing == [is |-> "nothing"]  \* no directory
Bare    == [is |-> "bare"]     \* a directory without task.yml
Emptied == [is |-> "emptied"]  \* a task.yml that has been opened for writing
Garbled == [is |-> "garbled"]  \* a task.yml that holds parts of two writes
NoRecord == {Nothing, Bare, Emptied, Garbled}

NoJob == [task |-> Root, set |-> << >>, told |-> << >>, read |-> << >>, root |-> "active", then |-> "idle",
          tool |-> FALSE, reports |-> FALSE, child |-> Root]
Job(t, read, set, then) ==
    [NoJob EXCEPT !.task = t, !.read = read, !.set = set, !.told = set, !.then = then]
NoRun == [task |-> Root, initial |-> << >>, metadata |-> << >>, status |-> "created",
          reported |-> FALSE]

New == [is |-> "task", status |-> "created", note |-> CHOOSE n \in Notes : TRUE, subtasks |-> {}]
Listing(t) == [New EXCEPT !.subtasks = {c \in Existing : ParentOf[c] = t}]

Init ==
    /\ disk = [active  |-> [t \in Tasks |-> IF t \in Existing THEN Listing(t) ELSE Nothing],
               archive |-> [t \in Tasks |-> Nothing]]
    /\ pc = [p \in Procs |-> "idle"]
    /\ job = [p \in Procs |-> NoJob]
    /\ run = [p \in Procs |-> NoRun]
    /\ queue = [p \in Procs |-> << >>]
    /\ moved = [p \in Procs |-> {}]
    /\ ops = 0 /\ kills = 0
    /\ said = [t \in Tasks |-> Listing(t)]
    /\ raced = {} /\ ruffled = {}

-----------------------------------------------------------------------------
(* The tree.                                                               *)

Up(t) == {ParentOf[t]} \ {Root}

\* The task and those whose directories its own is in: what every set with the task
\* has that has the parent of each of its members.
Path == [t \in Tasks |-> {m \in Tasks : \A S \in SUBSET Tasks :
            t \in S /\ (\A x \in S : Up(x) \subseteq S) => m \in S}]

\* Directories are not inside each other.
ASSUME TreeAssumption == \A t \in Tasks : \A u \in Up(t) : t \notin Path[u]

\* isTaskPathNestedUnder.
Nested(t, m) == m \in Path[t]
Below(m) == {t \in Tasks : Nested(t, m)}
PathLength(t) == Cardinality(Path[t])

\* loadAllTasks: one file that cannot be parsed fails the walk, an emptied file is
\* a task without a name; the archive is not walked.
WalkFails == \E t \in Tasks : disk.active[t] = Garbled
Loaded == IF WalkFails THEN {} ELSE {t \in Tasks : disk.active[t] \notin NoRecord}

\* os.MkdirAll of the directories of `made'.
MkdirAll(dirs, made) ==
    [d \in Tasks |-> IF dirs[d] = Nothing /\ \E t \in made : Nested(t, d) THEN Bare ELSE dirs[d]]

-----------------------------------------------------------------------------
(* Rewriting one task.yml: read, open, write.                              *)

\* The process goes on at `step'; what it was doing is forgotten where that is over.
Goto(p, step) ==
    /\ pc' = [pc EXCEPT ![p] = step]
    /\ job' = IF step \in {"idle", "session"} THEN [job EXCEPT ![p] = NoJob] ELSE job
    /\ run' = IF step = "idle" THEN [run EXCEPT ![p] = NoRun] ELSE run

Rewriting(t) == {q \in Procs : pc[q] \in {"open", "write", "merging"} /\ job[q].task = t}

\* A record with some of its fields set.
With(rec, set) ==
    [f \in DOMAIN set \cup DOMAIN rec |-> IF f \in DOMAIN set THEN set[f] ELSE rec[f]]

\* p has read the record and will write it with the fields of j.set changed.
Rewrite(p, j, step) ==
    /\ job' = [job EXCEPT ![p] = j]
    /\ pc' = [pc EXCEPT ![p] = step]
    /\ UNCHANGED run
    /\ raced' = IF Rewriting(j.task) = {} THEN raced ELSE raced \cup {j.task}

\* A tool's failure is the model's to see, any other ends the process.
Failed(p) == IF job[p].tool THEN "session" ELSE "idle"

\* The directory may be gone by now, or be there again without its file.
Open(p) ==
    /\ pc[p] = "open"
    /\ LET t == job[p].task IN
       \/ /\ disk.active[t] = Nothing
          /\ Goto(p, Failed(p))
          /\ UNCHANGED disk
       \/ /\ disk.active[t] # Nothing
          /\ disk' = [disk EXCEPT !.active[t] = Emptied]
          /\ Goto(p, "write")
    /\ UNCHANGED <<archiving, ops, kills, said, raced>>

\* Over a longer text that another process has written since, the text's tail stays.
Written(old, new) == IF old = Emptied THEN {new} ELSE {new, Garbled}

\* The fields as an operation sets them; subtasks are only ever added.
Told(rec, set) ==
    [f \in DOMAIN rec |-> IF f \notin DOMAIN set THEN rec[f]
                          ELSE IF f = "subtasks" THEN rec[f] \cup set[f] ELSE set[f]]

Write(p) ==
    /\ pc[p] = "write"
    /\ LET j == job[p] IN
       /\ \E new \in Written(disk[j.root][j.task], With(j.read, j.set)) :
             disk' = [disk EXCEPT ![j.root][j.task] = new]
       /\ said' = [said EXCEPT ![j.task] = Told(@, j.told)]
       /\ pc' = [pc EXCEPT ![p] = j.then]
       /\ job' = [job EXCEPT ![p] = IF j.then = "link" THEN @ ELSE NoJob]
       /\ run' = [run EXCEPT ![p] = IF j.then = "idle" THEN NoRun
                                    ELSE [run[p] EXCEPT !.reported = run[p].reported \/ j.reports]]
    /\ UNCHANGED <<archiving, ops, kills, raced>>

-----------------------------------------------------------------------------
(* The operations, from the command line and as tools of a session.        *)

Free(p) == pc[p] \in {"idle", "session"}
Begin == ops < MaxOps /\ ops' = ops + 1
Tool(p) == pc[p] = "session"

\* UpdateTask: nothing is written when nothing changes.
Update(p) ==
    /\ Free(p) /\ Begin
    /\ \E t \in Loaded : \E set \in [{"status"} -> Statuses] \cup [{"note"} -> Notes] :
       LET read == disk.active[t]
           reports == Tool(p) /\ "status" \in DOMAIN set
       IN \/ /\ With(read, set) = read
             /\ run' = [run EXCEPT ![p].reported = @ \/ reports]
             /\ UNCHANGED <<pc, job, raced>>
          \/ /\ With(read, set) # read
             /\ Rewrite(p, [Job(t, read, set, pc[p]) EXCEPT
                               !.tool = Tool(p), !.reports = reports], "open")
    /\ UNCHANGED <<disk, archiving, kills, said>>

\* Mistake: the parent lists the task before the task is written.
CreateListedFirst(p) ==
    /\ Free(p) /\ Begin
    /\ \E t \in Tasks :
       /\ disk.active[t] = Nothing /\ disk.archive[t] = Nothing
       /\ \A q \in Procs : job[q].child # t
       /\ Up(t) \subseteq Loaded
       /\ Rewrite(p, [Job(t, << >>, New, pc[p]) EXCEPT !.child = t, !.tool = Tool(p)],
                  IF Up(t) = {} THEN "mkdir" ELSE "link")
    /\ UNCHANGED <<disk, archiving, kills, said>>

\* CreateTask: the parent is looked up before the directory is made.
Create(p) ==
    /\ Free(p) /\ Begin
    /\ \E t \in Tasks :
       /\ disk.active[t] = Nothing /\ disk.archive[t] = Nothing
       /\ \A q \in Procs : job[q].child # t
       /\ Up(t) \subseteq Loaded
       /\ Rewrite(p, [Job(t, << >>, New, IF Up(t) = {} THEN pc[p] ELSE "link") EXCEPT
                         !.child = t, !.tool = Tool(p)], "mkdir")
    /\ UNCHANGED <<disk, archiving, kills, said>>

\* Directories of the path that an archiving process has moved away are made again.
MakeDir(p) ==
    /\ pc[p] = "mkdir"
    /\ disk' = [disk EXCEPT !.active = MkdirAll(@, {job[p].task})]
    /\ Goto(p, "open")
    /\ ruffled' = ruffled \cup {q \in Procs : pc[q] = "moving"}
    /\ UNCHANGED <<queue, moved, ops, kills, said, raced>>

\* appendSubtask: the parent is looked up again; without it the new task stays, unlisted.
Link(p) ==
    /\ pc[p] = "link"
    /\ LET c == job[p].task IN \E u \in Up(c) :
       \/ /\ u \notin Loaded
          /\ Goto(p, Failed(p))
          /\ UNCHANGED raced
       \/ /\ u \in Loaded
          /\ LET read == disk.active[u] IN
             Rewrite(p, [Job(u, read, [subtasks |-> read.subtasks \cup {c}], Failed(p)) EXCEPT
                           !.tool = job[p].tool], "open")
    /\ UNCHANGED <<disk, archiving, ops, kills, said>>

\* MergeTask: the record is read before the branches are merged.
MergeTask(p) ==
    /\ Free(p) /\ Begin
    /\ \E t \in Loaded \ Branchless :
          Rewrite(p, [Job(t, disk.active[t], [status |-> "merged"], pc[p]) EXCEPT
                        !.tool = Tool(p)], "merging")
    /\ UNCHANGED <<disk, archiving, kills, said>>

MergeBranches(p) ==
    /\ pc[p] = "merging"
    /\ \E step \in {"open", Failed(p)} : Goto(p, step)
    /\ UNCHANGED <<disk, archiving, ops, kills, said, raced>>

-----------------------------------------------------------------------------
(* `csw run' of a task.                                                    *)

RunTask(p) ==
    /\ pc[p] = "idle" /\ Begin
    /\ \E t \in Loaded, s \in {"completed", "merged"},
          m \in {<< >>} \cup [{"note"} -> Notes] \cup [{"status"} -> {"created"}] :
          run' = [run EXCEPT ![p] = [task |-> t, initial |-> disk.active[t], metadata |-> m,
                                     status |-> s, reported |-> FALSE]]
    /\ pc' = [pc EXCEPT ![p] = "mark"]
    /\ UNCHANGED <<disk, job, archiving, kills, said, raced>>

\* The run's own updates of its task; `gone' when it cannot be found any more.
SetStatus(p, s, next) ==
    LET t == run[p].task  read == disk.active[t] IN
    \/ /\ t \notin Loaded
       /\ Goto(p, "idle") /\ UNCHANGED raced
    \/ /\ t \in Loaded /\ read.status = s
       /\ Goto(p, next) /\ UNCHANGED raced
    \/ /\ t \in Loaded /\ read.status # s
       /\ Rewrite(p, Job(t, read, [status |-> s], next), "open")

MarkRunning(p) ==
    /\ pc[p] = "mark"
    /\ SetStatus(p, "running", "session")
    /\ UNCHANGED <<disk, archiving, ops, kills, said>>

\* After an error of the session EmitSessionSummary returns it, and RunCommand too.
SessionEnds(p) ==
    /\ pc[p] = "session"
    /\ \/ Goto(p, "idle")
       \/ Goto(p, IF run[p].metadata = << >> THEN "final" ELSE "metadata")
    /\ UNCHANGED <<disk, archiving, ops, kills, said, raced>>

\* The fields of the command's metadata that a record has as it had them at the start.
Unchanged(r, rec) == {f \in DOMAIN r.metadata : rec[f] = r.initial[f]}

\* Mistake: the metadata is written into the copy of the record taken at the start.
ApplyMetadataFromInitialTask(p) ==
    /\ pc[p] = "metadata"
    /\ LET t == run[p].task  r == run[p] IN
       /\ disk.active[t] \notin NoRecord
       /\ Rewrite(p, Job(t, r.initial, r.metadata, "final"), "open")
    /\ UNCHANGED <<disk, archiving, ops, kills, said>>

\* applyCommandTaskMetadata: only the fields that are as they were at the start.  An
\* emptied file parses, as a record in which every field is empty, and is written back
\* as one: Emptied stands for that file too, so the write is left out here.  What a
\* process that is just rewriting the file has put into it meanwhile is lost by it; that
\* is one of the losses of tasks rewritten by two at once, which `raced' sets aside.
ApplyMetadata(p) ==
    /\ pc[p] = "metadata"
    /\ LET t == run[p].task  read == disk.active[t]  r == run[p] IN
       \/ /\ read \in {Nothing, Bare, Garbled}
          /\ Goto(p, "idle") /\ UNCHANGED raced
       \/ /\ read = Emptied
          /\ Goto(p, "final") /\ UNCHANGED raced
       \/ /\ read \notin NoRecord
          /\ Rewrite(p, [Job(t, read, Restrict(r.metadata, Unchanged(r, read)), "final") EXCEPT
                            !.told = Restrict(r.metadata, Unchanged(r, said[t]))], "open")
    /\ UNCHANGED <<disk, archiving, ops, kills, said>>

\* resolveTaskFinalStatusForRun: not when the session has set a status itself.
FinalStatus(p) ==
    /\ pc[p] = "final"
    /\ \/ /\ run[p].reported
          /\ Goto(p, "idle") /\ UNCHANGED raced
       \/ /\ ~run[p].reported
          /\ SetStatus(p, run[p].status, "idle")
    /\ UNCHANGED <<disk, archiving, ops, kills, said>>

-----------------------------------------------------------------------------
(* The archive.                                                            *)

Archivable(t) ==
    LET s == disk.active[t].status IN s = "merged" \/ (s = "completed" /\ t \in Branchless)

\* Mistake: longer paths first.
ByPathLengthLongest(set) ==
    {s \in [1 .. Cardinality(set) -> set] :
        /\ \A i, j \in DOMAIN s : i # j => s[i] # s[j]
        /\ \A i, j \in DOMAIN s : i < j => PathLength(s[i]) >= PathLength(s[j])}

\* Shorter paths first: a task's directory takes those of its subtasks along.
ByPathLength(set) ==
    {s \in [1 .. Cardinality(set) -> set] :
        /\ \A i, j \in DOMAIN s : i # j => s[i] # s[j]
        /\ \A i, j \in DOMAIN s : i < j => PathLength(s[i]) <= PathLength(s[j])}

\* ArchiveTask of one, ArchiveCompletedTasks, ArchiveTasksByStatus.
Archive(p) ==
    /\ pc[p] = "idle" /\ Begin
    /\ \E set \in {{t} : t \in Loaded} \cup {{t \in Loaded : Archivable(t)}}
                \cup {{t \in Loaded : disk.active[t].status = s} : s \in Statuses} :
       /\ set # {}
       /\ \E s \in ByPathLength(set) : queue' = [queue EXCEPT ![p] = s]
       /\ ruffled' = IF \E t \in set : \E d \in Below(t) : disk.archive[d] # Nothing
                     THEN ruffled \cup {p} ELSE ruffled \ {p}
    /\ Goto(p, "moving")
    /\ UNCHANGED <<disk, moved, kills, said, raced>>

\* rename(2) of a directory: the target may be there only if it is empty.
CanRename(t) ==
    /\ disk.active[t] # Nothing
    /\ disk.archive[t] \in {Nothing, Bare}
    /\ \A d \in Below(t) \ {t} : disk.archive[d] = Nothing

Rename(t) ==
    disk' = [active  |-> [d \in Tasks |-> IF d \in Below(t) THEN Nothing ELSE disk.active[d]],
             archive |-> [d \in Tasks |-> IF d \in Below(t) THEN disk.active[d]
                                          ELSE MkdirAll(disk.archive, Up(t))[d]]]

Leave(p) ==
    /\ Goto(p, "idle")
    /\ queue' = [queue EXCEPT ![p] = << >>]
    /\ moved' = [moved EXCEPT ![p] = {}]

Move(p) ==
    /\ pc[p] = "moving" /\ queue[p] # << >>
    /\ LET t == Head(queue[p]) IN
       \/ /\ \E m \in moved[p] : Nested(t, m)
          /\ queue' = [queue EXCEPT ![p] = Tail(@)]
          /\ UNCHANGED <<disk, pc, job, run, moved, ruffled>>
       \/ /\ \A m \in moved[p] : ~Nested(t, m)
          /\ CanRename(t)
          /\ Rename(t)
          \* An open file moves with its directory.
          /\ job' = [q \in Procs |-> IF pc[q] = "write" /\ job[q].task \in Below(t)
                                     THEN [job[q] EXCEPT !.root = "archive"] ELSE job[q]]
          /\ queue' = [queue EXCEPT ![p] = Tail(@)]
          /\ moved' = [moved EXCEPT ![p] = @ \cup {t}]
          /\ ruffled' = ruffled \cup {q \in Procs \ {p} : pc[q] = "moving"}
          /\ UNCHANGED <<pc, run>>
       \/ /\ \A m \in moved[p] : ~Nested(t, m)
          /\ ~CanRename(t)
          /\ disk' = [disk EXCEPT !.archive = MkdirAll(@, Up(t))]
          /\ Leave(p)
          /\ UNCHANGED ruffled
    /\ UNCHANGED <<ops, kills, said, raced>>

MoveEnds(p) ==
    /\ pc[p] = "moving" /\ queue[p] = << >>
    /\ Leave(p)
    /\ UNCHANGED <<disk, ruffled, ops, kills, said, raced>>

-----------------------------------------------------------------------------
Kill(p) ==
    /\ pc[p] # "idle" /\ kills < MaxKills
    /\ kills' = kills + 1
    /\ Leave(p)
    /\ UNCHANGED <<disk, ruffled, ops, said, raced>>

Step(p) ==
    \/ Update(p) \/ Create(p) \/ MakeDir(p) \/ Link(p)
    \/ MergeTask(p) \/ MergeBranches(p) \/ Open(p) \/ Write(p)
    \/ RunTask(p) \/ MarkRunning(p) \/ SessionEnds(p) \/ ApplyMetadata(p) \/ FinalStatus(p)
    \/ Archive(p) \/ Move(p) \/ MoveEnds(p)
    \/ Kill(p)

Next == \E p \in Procs : Step(p)

Spec == Init /\ [][Next]_vars

-----------------------------------------------------------------------------
(* Properties.                                                             *)

Steps == {"idle", "session", "mark", "metadata", "final", "link", "mkdir", "open", "write",
          "merging", "moving"}

Content == NoRecord \cup Record

JobTyped(j) ==
    /\ DOMAIN j = DOMAIN NoJob
    /\ j.task \in Tasks \cup {Root} /\ j.child \in Tasks \cup {Root}
    /\ j.root \in {"active", "archive"}
    /\ j.then \in {"idle", "session", "final", "link"}

\* A command's metadata changes a status or a note of a task, and nothing else.
RunTyped(r) ==
    /\ DOMAIN r = DOMAIN NoRun
    /\ r.task \in Tasks \cup {Root} /\ r.status \in {"created", "completed", "merged"}
    /\ r.metadata \in {<< >>} \cup [{"note"} -> Notes] \cup [{"status"} -> {"created"}]
    /\ r.metadata # << >> => r.task \in Tasks

\* What the code's task files, processes and histories can be.
TypeOK ==
    /\ disk \in [{"active", "archive"} -> [Tasks -> Content]]
    /\ pc \in [Procs -> {"idle", "session", "mark", "metadata", "final", "link", "mkdir",
                         "open", "write", "merging", "moving"}]
    /\ DOMAIN job = Procs /\ \A p \in Procs : JobTyped(job[p])
    /\ DOMAIN run = Procs /\ \A p \in Procs : RunTyped(run[p])
    /\ queue \in [Procs -> Seq(Tasks)] /\ moved \in [Procs -> SUBSET Tasks]
    /\ said \in [Tasks -> Record]
    /\ raced \subseteq Tasks /\ ruffled \subseteq Procs
    /\ ops \in 0 .. MaxOps /\ kills \in 0 .. MaxKills

\* Where the task is: an archived directory may have been made again, for a subtask or
\* by the process that was rewriting it, and then the active one is the task's.
Current(t) ==
    IF disk.active[t] \in {Nothing, Bare} THEN disk.archive[t] ELSE disk.active[t]

\* A task nobody rewrote at the same time as somebody else has the fields the
\* operations set, each the last one: no read-modify-write of task.yml, not even the
\* three a run makes with a session in between, takes back a change made meanwhile
\* (UpdateTask, appendSubtask, MergeTask, applyCommandTaskMetadata).
ChangesKept ==
    \A t \in Tasks \ raced : Current(t) \notin NoRecord => Current(t) = said[t]

\* The task's task.yml is there, whole or not.
Begun(t) == \E r \in DOMAIN disk : disk[r][t] \notin {Nothing, Bare}

\* A subtask that a parent's task.yml names is in the tree or in the archive, with
\* its task.yml begun: whoever is killed in CreateTask leaves no name without a task.
ListedSubtasksExist ==
    \A r \in DOMAIN disk : \A t \in Tasks :
        disk[r][t] \notin NoRecord => \A c \in disk[r][t].subtasks : Begun(c)

\* `csw task archive' either moves everything it chose, or what was in its way was in
\* the archive before or is another process's doing: it never trips over its own moves
\* (archiveTasksMatching).
ArchivesAllChosen ==
    [][\A p \in Procs : pc[p] = "moving" /\ pc'[p] = "idle" /\ kills' = kills =>
          p \in ruffled \/ queue[p] = << >>]_vars
=============================================================================
