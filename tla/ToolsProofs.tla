----------------------------- MODULE ToolsProofs ----------------------------
(***************************************************************************)
(* Theorems about what the tools of a run work with: the tasks (TaskStore),*)
(* the goroutines of a tool call and its AGENTS.md files (ToolPool), the   *)
(* files (FileTools) and the loggers (Logging).  Each has an inductive     *)
(* invariant of its own.                                                   *)
(***************************************************************************)
EXTENDS TaskStore, ToolPool, FileTools, Logging,
        FiniteSetTheorems, SequenceTheorems, WellFoundedInduction, TLAPS

-----------------------------------------------------------------------------
(***************************************************************************)
(* The tasks, for every set of processes, every tree of tasks, every value *)
(* of their fields and every number of operations and kills.               *)
(***************************************************************************)

(* The inductive invariant.                                                *)

FieldNames == {"is", "status", "note", "subtasks"}
AllStatuses == {"created", "running", "completed", "merged"}

\* Some fields of a record.
PartOf(set) ==
    /\ DOMAIN set \subseteq FieldNames
    /\ "is" \in DOMAIN set => set.is = "task"
    /\ "status" \in DOMAIN set => set.status \in AllStatuses
    /\ "note" \in DOMAIN set => set.note \in Notes
    /\ "subtasks" \in DOMAIN set => set.subtasks \in SUBSET Tasks

\* A process that has a record of a task in its hands, or makes one.
BusyAt == {"mkdir", "open", "write", "merging"}
Owns(p) == pc[p] \in BusyAt

\* What it is going to write.
Result(p) == With(job[p].read, job[p].set)

\* It writes a whole record, of a task that has been begun or that it creates, which
\* nobody has begun before it made the directory.
JobSound(p) ==
    /\ Owns(p) => /\ job[p].task \in Tasks /\ Result(p) \in Record /\ PartOf(job[p].told)
                  /\ job[p].child = job[p].task \/ Begun(job[p].task)
    /\ pc[p] \in {"write", "link"} => job[p].task \in Tasks /\ Begun(job[p].task)
    /\ pc[p] = "mkdir" =>
          /\ job[p].child = job[p].task /\ ~Begun(job[p].task)
          /\ job[p].set = New /\ job[p].told = New /\ job[p].read = << >>
    /\ pc[p] = "metadata" => run[p].metadata # << >>

\* A task is created by one process.
CreatedByOne ==
    \A p, q \in Procs : job[p].child = job[q].child /\ job[p].child \in Tasks => p = q

\* The subtasks it is going to list are there.
ResultLists(p) == Owns(p) => \A c \in Result(p).subtasks : Begun(c)

ListInv ==
    /\ TypeOK /\ CreatedByOne
    /\ \A p \in Procs : JobSound(p) /\ ResultLists(p)
    /\ ListedSubtasksExist

\* Two processes with the record of one task in their hands have raced.
OneOwnsEach == \A p, q \in Procs :
    Owns(p) /\ Owns(q) /\ job[p].task = job[q].task /\ job[p].task \notin raced => p = q

\* What a process will write is what the operations have set, changed as its own
\* operation sets it; and it writes into the task's current record.
ResultCurrent(p) ==
    Owns(p) /\ job[p].task \notin raced =>
        /\ Result(p) = Told(said[job[p].task], job[p].told)
        /\ pc[p] = "write" /\ job[p].root = "archive" =>
              disk.active[job[p].task] \in {Nothing, Bare}
        /\ pc[p] # "write" => job[p].root = "active"

\* A task that is not begun lists nothing.
NotBegunListsNothing == \A t \in Tasks : ~Begun(t) => said[t].subtasks = {}

KeptInv ==
    /\ ListInv /\ OneOwnsEach /\ NotBegunListsNothing
    /\ \A p \in Procs : ResultCurrent(p)
    /\ ChangesKept

-----------------------------------------------------------------------------
(* Facts about the operators.                                              *)

LEMMA RecordFields ==
    ASSUME NEW r \in Record
    PROVE  /\ DOMAIN r = FieldNames /\ r.is = "task" /\ r.status \in AllStatuses
           /\ r.note \in Notes /\ r.subtasks \in SUBSET Tasks
  BY DEF Record, FieldNames, AllStatuses

LEMMA SameFields ==
    ASSUME NEW r \in Record, NEW s \in Record,
           r.status = s.status, r.note = s.note, r.subtasks = s.subtasks
    PROVE  r = s
  BY DEF Record

\* A record is none of the other things a task.yml can be.
LEMMA RecordIsContent ==
    ASSUME NEW r \in Record
    PROVE  r \notin NoRecord /\ r \notin {Nothing, Bare} /\ r # Emptied /\ r # Garbled
  BY RecordFields DEF NoRecord, Nothing, Bare, Emptied, Garbled

LEMMA Distinct ==
    /\ Nothing # Bare /\ Emptied \notin {Nothing, Bare} /\ Garbled \notin {Nothing, Bare}
    /\ {Nothing, Bare, Emptied, Garbled} = NoRecord
  BY DEF NoRecord, Nothing, Bare, Emptied, Garbled

LEMMA NewIsRecord == New \in Record /\ New.subtasks = {}
  BY TaskAssumption DEF New, Record

LEMMA WithFields ==
    ASSUME NEW r \in Record, NEW set, PartOf(set)
    PROVE  /\ With(r, set) \in Record
           /\ \A f \in FieldNames :
                 With(r, set)[f] = IF f \in DOMAIN set THEN set[f] ELSE r[f]
<1>1. /\ DOMAIN With(r, set) = FieldNames
      /\ \A f \in FieldNames : With(r, set)[f] = IF f \in DOMAIN set THEN set[f] ELSE r[f]
  BY RecordFields DEF With, PartOf
<1>2. With(r, set) = [is |-> With(r, set).is, status |-> With(r, set).status,
                      note |-> With(r, set).note, subtasks |-> With(r, set).subtasks]
  BY <1>1 DEF With, FieldNames
<1>3. /\ With(r, set).is = "task" /\ With(r, set).status \in AllStatuses
      /\ With(r, set).note \in Notes /\ With(r, set).subtasks \in SUBSET Tasks
  BY <1>1, RecordFields DEF PartOf, FieldNames
<1>4. QED
  BY <1>1, <1>2, <1>3 DEF Record, AllStatuses

LEMMA ToldFields ==
    ASSUME NEW r \in Record, NEW set, PartOf(set)
    PROVE  /\ Told(r, set) \in Record
           /\ \A f \in FieldNames \ {"subtasks"} :
                 Told(r, set)[f] = IF f \in DOMAIN set THEN set[f] ELSE r[f]
           /\ Told(r, set).subtasks =
                 IF "subtasks" \in DOMAIN set THEN r.subtasks \cup set.subtasks ELSE r.subtasks
<1>1. /\ DOMAIN Told(r, set) = FieldNames
      /\ \A f \in FieldNames \ {"subtasks"} :
            Told(r, set)[f] = IF f \in DOMAIN set THEN set[f] ELSE r[f]
      /\ Told(r, set)["subtasks"] =
            IF "subtasks" \in DOMAIN set THEN r["subtasks"] \cup set["subtasks"] ELSE r["subtasks"]
  <2>1. DOMAIN Told(r, set) = FieldNames /\ DOMAIN r = FieldNames
    BY RecordFields DEF Told
  <2>2. ASSUME NEW f \in FieldNames, f \notin DOMAIN set PROVE Told(r, set)[f] = r[f]
    BY <2>1, <2>2 DEF Told
  <2>3. ASSUME NEW f \in FieldNames \ {"subtasks"}, f \in DOMAIN set
        PROVE  Told(r, set)[f] = set[f]
    BY <2>1, <2>3 DEF Told
  <2>4. ASSUME "subtasks" \in DOMAIN set
        PROVE  Told(r, set)["subtasks"] = r["subtasks"] \cup set["subtasks"]
    BY <2>1, <2>4 DEF Told, FieldNames
  <2>5. "subtasks" \in FieldNames
    BY DEF FieldNames
  <2>6. QED
    BY <2>1, <2>2, <2>3, <2>4, <2>5
<1>2. Told(r, set) = [is |-> Told(r, set).is, status |-> Told(r, set).status,
                      note |-> Told(r, set).note, subtasks |-> Told(r, set).subtasks]
  BY <1>1 DEF Told, FieldNames
<1>3. /\ Told(r, set).is = "task" /\ Told(r, set).status \in AllStatuses
      /\ Told(r, set).note \in Notes /\ Told(r, set).subtasks \in SUBSET Tasks
  BY <1>1, RecordFields DEF PartOf, FieldNames
<1>4. QED
  BY <1>1, <1>2, <1>3 DEF Record, AllStatuses

\* Writing a new task's record over nothing.
LEMMA NewOverNothing == With(<< >>, New) = New
<1>1. DOMAIN New = FieldNames /\ DOMAIN << >> = {}
  BY DEF New, FieldNames
<1>2. With(<< >>, New) = [f \in FieldNames |-> New[f]]
  BY <1>1 DEF With
<1>3. QED
  BY <1>1, <1>2 DEF New, FieldNames

\* What an operation sets is part of a record.
LEMMA SetParts ==
    /\ \A s \in AllStatuses : PartOf([status |-> s])
    /\ \A S \in SUBSET Tasks : PartOf([subtasks |-> S])
    /\ \A set \in [{"status"} -> Statuses] \cup [{"note"} -> Notes] : PartOf(set)
    /\ PartOf(New)
<1>1. \A s \in AllStatuses : PartOf([status |-> s])
  BY DEF PartOf, FieldNames
<1>2. \A S \in SUBSET Tasks : PartOf([subtasks |-> S])
  BY DEF PartOf, FieldNames
<1>3. ASSUME NEW set \in [{"status"} -> Statuses] PROVE PartOf(set)
  <2>1. DOMAIN set = {"status"} /\ set["status"] \in Statuses
    BY <1>3
  <2>2. set.status \in AllStatuses
    BY <2>1, TaskAssumption DEF AllStatuses
  <2>3. QED
    BY <2>1, <2>2 DEF PartOf, FieldNames
<1>4. ASSUME NEW set \in [{"note"} -> Notes] PROVE PartOf(set)
  BY <1>4 DEF PartOf, FieldNames
<1>5. PartOf(New)
  BY NewIsRecord, RecordFields DEF PartOf
<1>6. QED
  BY <1>1, <1>2, <1>3, <1>4, <1>5

LEMMA MetadataPart ==
    ASSUME NEW r, RunTyped(r), NEW F
    PROVE  PartOf(Restrict(r.metadata, F \cap DOMAIN r.metadata))
<1>1. CASE r.metadata = << >>
  BY <1>1 DEF PartOf, Restrict
<1>2. CASE r.metadata \in [{"note"} -> Notes] \cup [{"status"} -> {"created"}]
  BY <1>2 DEF PartOf, Restrict, FieldNames, AllStatuses
<1>3. QED
  BY <1>1, <1>2 DEF RunTyped

LEMMA LoadedIsRecord ==
    ASSUME TypeOK, NEW t \in Tasks, disk.active[t] \notin NoRecord
    PROVE  disk.active[t] \in Record /\ Begun(t)
<1>1. disk.active[t] \in Record
  BY DEF TypeOK, Content
<1>2. QED
  BY <1>1, Distinct DEF TypeOK, Begun

-----------------------------------------------------------------------------
(* Steps of a process.                                                     *)

LEMMA NoJobTyped == JobTyped(NoJob) /\ NoJob.child \notin Tasks /\ RunTyped(NoRun)
  BY TaskAssumption DEF JobTyped, NoJob, RunTyped, NoRun

LEMMA JobIsTyped ==
    ASSUME NEW t \in Tasks, NEW read, NEW set, NEW then \in {"idle", "session", "final", "link"},
           NEW tool, NEW reports, NEW child \in Tasks, NEW told
    PROVE  /\ JobTyped(Job(t, read, set, then))
           /\ JobTyped([Job(t, read, set, then) EXCEPT !.tool = tool])
           /\ JobTyped([Job(t, read, set, then) EXCEPT !.tool = tool, !.reports = reports])
           /\ JobTyped([Job(t, read, set, then) EXCEPT !.child = child, !.tool = tool])
           /\ JobTyped([Job(t, read, set, then) EXCEPT !.told = told])
  BY DEF JobTyped, NoJob, Job

\* The rest of the processes stay where they are.
OthersStay(p) == \A q \in Procs \ {p} : pc'[q] = pc[q] /\ job'[q] = job[q] /\ run'[q] = run[q]

ProcsTyped ==
    /\ pc \in [Procs -> {"idle", "session", "mark", "metadata", "final", "link", "mkdir",
                         "open", "write", "merging", "moving"}]
    /\ DOMAIN job = Procs /\ \A p \in Procs : JobTyped(job[p])
    /\ DOMAIN run = Procs /\ \A p \in Procs : RunTyped(run[p])

LEMMA GotoSteps ==
    ASSUME ProcsTyped, NEW p \in Procs, NEW step, Goto(p, step),
           step \in {"idle", "session", "mark", "metadata", "final", "link", "mkdir",
                     "open", "write", "merging", "moving"}
    PROVE  /\ ProcsTyped' /\ OthersStay(p) /\ pc'[p] = step
           /\ job'[p] = IF step \in {"idle", "session"} THEN NoJob ELSE job[p]
           /\ run'[p] = IF step = "idle" THEN NoRun ELSE run[p]
<1>1. pc'[p] = step /\ \A q \in Procs \ {p} : pc'[q] = pc[q]
  BY DEF Goto, ProcsTyped
<1>2. /\ DOMAIN job' = Procs /\ job'[p] = IF step \in {"idle", "session"} THEN NoJob ELSE job[p]
      /\ \A q \in Procs \ {p} : job'[q] = job[q]
  BY DEF Goto, ProcsTyped
<1>3. /\ DOMAIN run' = Procs /\ run'[p] = IF step = "idle" THEN NoRun ELSE run[p]
      /\ \A q \in Procs \ {p} : run'[q] = run[q]
  BY DEF Goto, ProcsTyped
<1>4. \A q \in Procs : JobTyped(job'[q])
  BY <1>2, NoJobTyped DEF ProcsTyped
<1>5. \A q \in Procs : RunTyped(run'[q])
  BY <1>3, NoJobTyped DEF ProcsTyped
<1>6. QED
  BY <1>1, <1>2, <1>3, <1>4, <1>5 DEF Goto, ProcsTyped, OthersStay, JobTyped, RunTyped

LEMMA RewriteSteps ==
    ASSUME ProcsTyped, NEW p \in Procs, NEW j, JobTyped(j), NEW step, Rewrite(p, j, step),
           step \in {"open", "mkdir", "merging"}
    PROVE  /\ ProcsTyped' /\ OthersStay(p) /\ pc'[p] = step /\ job'[p] = j /\ run' = run
           /\ raced' = IF Rewriting(j.task) = {} THEN raced ELSE raced \cup {j.task}
<1>1. pc'[p] = step /\ \A q \in Procs \ {p} : pc'[q] = pc[q]
  BY DEF Rewrite, ProcsTyped
<1>2. DOMAIN job' = Procs /\ job'[p] = j /\ \A q \in Procs \ {p} : job'[q] = job[q]
  BY DEF Rewrite, ProcsTyped
<1>3. \A q \in Procs : JobTyped(job'[q])
  BY <1>2 DEF ProcsTyped
<1>4. QED
  BY <1>1, <1>2, <1>3 DEF Rewrite, ProcsTyped, OthersStay, JobTyped, RunTyped

\* What a step that changes no file makes of its process: it holds no record, ...
Rests(p) ==
    /\ ProcsTyped' /\ OthersStay(p)
    /\ pc'[p] \notin BusyAt \cup {"link"} /\ job'[p] \in {job[p], NoJob}
    /\ pc'[p] = "metadata" => run'[p].metadata # << >>
    /\ UNCHANGED <<disk, said, raced>>

\* ... it has taken the current one into its hands, with changes to it, ...
Holds(j) ==
    /\ JobTyped(j) /\ j.task \in Tasks /\ j.root = "active" /\ j.child = Root
    /\ disk.active[j.task] \in Record
    /\ With(j.read, j.set) \in Record /\ PartOf(j.told) /\ \A c \in With(j.read, j.set).subtasks : Begun(c)
    /\ disk.active[j.task] = said[j.task] =>
          With(j.read, j.set) = Told(said[j.task], j.told)

TakesRecord(p, j, step) ==
    /\ Rewrite(p, j, step) /\ step \in {"open", "merging"} /\ Holds(j)
    /\ UNCHANGED <<disk, said>>

\* ... it creates a task, ...
TakesNew(p, j) ==
    /\ Rewrite(p, j, "mkdir")
    /\ JobTyped(j) /\ j.task \in Tasks /\ j.root = "active" /\ j.child = j.task
    /\ j.set = New /\ j.told = New /\ j.read = << >>
    /\ ~Begun(j.task) /\ \A q \in Procs : job[q].child # j.task
    /\ UNCHANGED <<disk, said>>

\* ... or it goes on with the record it holds.
GoesOn(p) ==
    /\ pc[p] = "merging" /\ Goto(p, "open")
    /\ UNCHANGED <<disk, said, raced>>

OpensFile(p) ==
    /\ pc[p] = "open" /\ disk.active[job[p].task] # Nothing
    /\ disk' = [disk EXCEPT !.active[job[p].task] = Emptied]
    /\ Goto(p, "write")
    /\ UNCHANGED <<said, raced>>

\* A record with fields that are part of one, as the histories have it.
LEMMA HoldsRecord ==
    ASSUME TypeOK, ListedSubtasksExist, NEW t \in Tasks, disk.active[t] \notin NoRecord,
           NEW set, PartOf(set), NEW told, disk.active[t] = said[t] => told = set,
           "subtasks" \in DOMAIN set =>
               /\ disk.active[t].subtasks \subseteq set.subtasks
               /\ \A c \in set.subtasks : c \in disk.active[t].subtasks \/ Begun(c)
    PROVE  LET read == disk.active[t] IN
           /\ With(read, set) \in Record /\ \A c \in With(read, set).subtasks : Begun(c)
           /\ read = said[t] => With(read, set) = Told(said[t], told)
<1> DEFINE read == disk.active[t]
<1>1. read \in Record /\ \A c \in read.subtasks : Begun(c)
  BY LoadedIsRecord DEF ListedSubtasksExist, TypeOK
<1>2. /\ With(read, set) \in Record
      /\ With(read, set).subtasks = IF "subtasks" \in DOMAIN set THEN set.subtasks ELSE read.subtasks
      /\ With(read, set).status = IF "status" \in DOMAIN set THEN set.status ELSE read.status
      /\ With(read, set).note = IF "note" \in DOMAIN set THEN set.note ELSE read.note
  BY <1>1, WithFields DEF FieldNames
<1>3. /\ Told(read, set) \in Record
      /\ Told(read, set).subtasks =
            IF "subtasks" \in DOMAIN set THEN read.subtasks \cup set.subtasks ELSE read.subtasks
      /\ Told(read, set).status = IF "status" \in DOMAIN set THEN set.status ELSE read.status
      /\ Told(read, set).note = IF "note" \in DOMAIN set THEN set.note ELSE read.note
  <2> HIDE DEF read
  <2>1. /\ Told(read, set) \in Record
        /\ \A f \in FieldNames \ {"subtasks"} :
              Told(read, set)[f] = IF f \in DOMAIN set THEN set[f] ELSE read[f]
        /\ Told(read, set).subtasks =
              IF "subtasks" \in DOMAIN set THEN read.subtasks \cup set.subtasks ELSE read.subtasks
    BY <1>1, ToldFields
  <2>2. "status" \in FieldNames \ {"subtasks"} /\ "note" \in FieldNames \ {"subtasks"}
    BY DEF FieldNames
  <2>3. QED
    BY <2>1, <2>2
<1>4. With(read, set).subtasks = Told(read, set).subtasks
  BY <1>2, <1>3
<1>5. With(read, set) = Told(read, set)
  BY <1>2, <1>3, <1>4, SameFields
<1>6. \A c \in With(read, set).subtasks : Begun(c)
  BY <1>1, <1>2
<1>7. QED
  BY <1>2, <1>5, <1>6

LEMMA TypeParts ==
    TypeOK <=> /\ disk \in [{"active", "archive"} -> [Tasks -> Content]] /\ ProcsTyped
               /\ queue \in [Procs -> Seq(Tasks)] /\ moved \in [Procs -> SUBSET Tasks]
               /\ said \in [Tasks -> Record] /\ raced \subseteq Tasks /\ ruffled \subseteq Procs
               /\ ops \in 0 .. MaxOps /\ kills \in 0 .. MaxKills
  BY DEF TypeOK, ProcsTyped

LEMMA GotoRests ==
    ASSUME ProcsTyped, NEW p \in Procs, NEW step, Goto(p, step),
           step \in {"idle", "session", "mark", "metadata", "final", "moving"},
           step = "metadata" => run[p].metadata # << >>,
           UNCHANGED <<disk, said, raced>>
    PROVE  Rests(p)
  BY GotoSteps DEF Rests, BusyAt

LEMMA FailedRests == \A p \in Procs : Failed(p) \in {"session", "idle"}
  BY DEF Failed

-----------------------------------------------------------------------------
(* Every step is one of these, or changes files.                           *)

LEMMA UpdateKind ==
    ASSUME ListInv, NEW p \in Procs, Update(p)
    PROVE  Rests(p) \/ \E j, step : TakesRecord(p, j, step)
<1>0. TypeOK /\ ProcsTyped /\ ListedSubtasksExist
  BY TypeParts DEF ListInv
<1>1. PICK t \in Loaded, set \in [{"status"} -> Statuses] \cup [{"note"} -> Notes] :
        LET read == disk.active[t]
            reports == Tool(p) /\ "status" \in DOMAIN set
        IN \/ /\ run' = [run EXCEPT ![p].reported = @ \/ reports]
              /\ UNCHANGED <<pc, job, raced>>
           \/ Rewrite(p, [Job(t, read, set, pc[p]) EXCEPT
                            !.tool = Tool(p), !.reports = reports], "open")
  BY DEF Update
<1>2. t \in Tasks /\ disk.active[t] \notin NoRecord /\ PartOf(set) /\ "subtasks" \notin DOMAIN set
  BY <1>1, SetParts DEF Loaded
<1>3. pc[p] \in {"idle", "session"} /\ UNCHANGED <<disk, said>>
  BY DEF Update, Free, history
<1> DEFINE j == [Job(t, disk.active[t], set, pc[p]) EXCEPT
                   !.tool = Tool(p), !.reports = Tool(p) /\ "status" \in DOMAIN set]
<1>4. CASE Rewrite(p, j, "open")
  <2>1. JobTyped(j)
    BY <1>2, <1>3, JobIsTyped
  <2>2. /\ j.task = t /\ j.root = "active" /\ j.child = Root
        /\ j.read = disk.active[t] /\ j.set = set /\ j.told = set
    BY DEF Job, NoJob
  <2>3. /\ With(disk.active[t], set) \in Record
        /\ \A c \in With(disk.active[t], set).subtasks : Begun(c)
        /\ disk.active[t] = said[t] => With(disk.active[t], set) = Told(said[t], set)
    BY <1>0, <1>2, HoldsRecord
  <2>4. Holds(j)
    BY <1>0, <1>2, <2>1, <2>2, <2>3, LoadedIsRecord DEF Holds
  <2>5. QED
    BY <1>3, <1>4, <2>4 DEF TakesRecord
<1>5. CASE /\ run' = [run EXCEPT ![p].reported = @ \/ (Tool(p) /\ "status" \in DOMAIN set)]
           /\ UNCHANGED <<pc, job, raced>>
  <2>1. /\ DOMAIN run' = Procs /\ DOMAIN run'[p] = DOMAIN run[p] /\ run'[p].task = run[p].task
        /\ run'[p].status = run[p].status /\ run'[p].metadata = run[p].metadata
        /\ \A q \in Procs \ {p} : run'[q] = run[q]
    BY <1>0, <1>5 DEF ProcsTyped, RunTyped, NoRun
  <2>2. \A q \in Procs : RunTyped(run'[q])
    BY <1>0, <2>1 DEF ProcsTyped, RunTyped
  <2>3. QED
    BY <1>0, <1>3, <1>5, <2>1, <2>2 DEF Rests, ProcsTyped, OthersStay, BusyAt
<1>6. QED
  BY <1>1, <1>4, <1>5

LEMMA CreateKind ==
    ASSUME ListInv, NEW p \in Procs, Create(p)
    PROVE  \E j : TakesNew(p, j)
<1>1. PICK t \in Tasks :
        /\ disk.active[t] = Nothing /\ disk.archive[t] = Nothing
        /\ \A q \in Procs : job[q].child # t
        /\ Rewrite(p, [Job(t, << >>, New, IF Up(t) = {} THEN pc[p] ELSE "link") EXCEPT
                         !.child = t, !.tool = Tool(p)], "mkdir")
  BY DEF Create
<1> DEFINE j == [Job(t, << >>, New, IF Up(t) = {} THEN pc[p] ELSE "link") EXCEPT
                   !.child = t, !.tool = Tool(p)]
<1>2. (IF Up(t) = {} THEN pc[p] ELSE "link") \in {"idle", "session", "final", "link"}
  BY DEF Create, Free
<1>3. JobTyped(j)
  BY <1>2, JobIsTyped
<1>4. /\ j.task = t /\ j.root = "active" /\ j.child = t
      /\ j.read = << >> /\ j.set = New /\ j.told = New
  BY DEF Job, NoJob
<1>5. ~Begun(t)
  BY <1>1 DEF Begun, ListInv, TypeOK
<1>6. UNCHANGED <<disk, said>>
  BY DEF Create
<1>7. Rewrite(p, j, "mkdir")
  BY <1>1
<1> HIDE DEF j
<1>8. QED
  BY <1>1, <1>3, <1>4, <1>5, <1>6, <1>7 DEF TakesNew

LEMMA LinkKind ==
    ASSUME ListInv, NEW p \in Procs, JobSound(p), Link(p)
    PROVE  Rests(p) \/ \E j, step : TakesRecord(p, j, step)
<1>0. TypeOK /\ ProcsTyped /\ ListedSubtasksExist
  BY TypeParts DEF ListInv
<1> DEFINE c == job[p].task
<1>1. PICK u \in Up(c) :
       \/ /\ u \notin Loaded
          /\ Goto(p, Failed(p))
          /\ UNCHANGED raced
       \/ /\ u \in Loaded
          /\ Rewrite(p, [Job(u, disk.active[u], [subtasks |-> disk.active[u].subtasks \cup {c}],
                             Failed(p)) EXCEPT !.tool = job[p].tool], "open")
  BY DEF Link
<1>2. UNCHANGED <<disk, said>>
  BY DEF Link
<1>3. CASE Goto(p, Failed(p)) /\ UNCHANGED raced
  BY <1>0, <1>2, <1>3, FailedRests, GotoRests
<1> DEFINE set == [subtasks |-> disk.active[u].subtasks \cup {c}]
           j == [Job(u, disk.active[u], set, Failed(p)) EXCEPT !.tool = job[p].tool]
<1>4. CASE u \in Loaded /\ Rewrite(p, j, "open")
  <2>1. u \in Tasks /\ disk.active[u] \notin NoRecord /\ c \in Tasks /\ Begun(c)
    BY <1>4 DEF Loaded, JobSound, Link
  <2>2. disk.active[u].subtasks \in SUBSET Tasks
    BY <1>0, <2>1, LoadedIsRecord, RecordFields
  <2>3. PartOf(set)
    BY <2>1, <2>2, SetParts
  <2>4. JobTyped(j)
    BY <2>1, JobIsTyped, FailedRests
  <2>5. /\ j.task = u /\ j.root = "active" /\ j.child = Root
        /\ j.read = disk.active[u] /\ j.set = set /\ j.told = set
    BY DEF Job, NoJob
  <2>6. /\ disk.active[u].subtasks \subseteq set.subtasks
        /\ \A x \in set.subtasks : x \in disk.active[u].subtasks \/ Begun(x)
    BY <2>1
  <2>7. /\ With(disk.active[u], set) \in Record
        /\ \A x \in With(disk.active[u], set).subtasks : Begun(x)
        /\ disk.active[u] = said[u] => With(disk.active[u], set) = Told(said[u], set)
    <3> HIDE DEF set
    <3>1. QED
      BY <1>0, <2>1, <2>3, <2>6, HoldsRecord
  <2>8. disk.active[u] \in Record
    BY <1>0, <2>1, LoadedIsRecord
  <2> HIDE DEF j, set
  <2>9. Holds(j)
    BY <2>1, <2>3, <2>4, <2>5, <2>7, <2>8 DEF Holds
  <2>10. QED
    BY <1>2, <1>4, <2>9 DEF TakesRecord
<1>5. QED
  BY <1>1, <1>3, <1>4

LEMMA MergeTaskKind ==
    ASSUME ListInv, NEW p \in Procs, MergeTask(p)
    PROVE  \E j, step : TakesRecord(p, j, step)
<1>0. TypeOK /\ ListedSubtasksExist
  BY DEF ListInv
<1> DEFINE set == [status |-> "merged"]
<1>1. PICK t \in Loaded : Rewrite(p, [Job(t, disk.active[t], set, pc[p]) EXCEPT
                                        !.tool = Tool(p)], "merging")
  BY DEF MergeTask
<1> DEFINE j == [Job(t, disk.active[t], set, pc[p]) EXCEPT !.tool = Tool(p)]
<1>2. t \in Tasks /\ disk.active[t] \notin NoRecord /\ PartOf(set) /\ "subtasks" \notin DOMAIN set
  BY <1>1, SetParts DEF Loaded, AllStatuses
<1>3. JobTyped(j)
  BY <1>2, JobIsTyped DEF MergeTask, Free
<1>4. /\ j.task = t /\ j.root = "active" /\ j.child = Root
      /\ j.read = disk.active[t] /\ j.set = set /\ j.told = set
  BY DEF Job, NoJob
<1>5. /\ With(disk.active[t], set) \in Record
      /\ \A c \in With(disk.active[t], set).subtasks : Begun(c)
      /\ disk.active[t] = said[t] => With(disk.active[t], set) = Told(said[t], set)
  <2> HIDE DEF set
  <2>1. QED
    BY <1>0, <1>2, HoldsRecord
<1>6. disk.active[t] \in Record
  BY <1>0, <1>2, LoadedIsRecord
<1>7. Rewrite(p, j, "merging") /\ UNCHANGED <<disk, said>>
  BY <1>1 DEF MergeTask
<1> HIDE DEF j, set
<1>8. Holds(j)
  BY <1>2, <1>3, <1>4, <1>5, <1>6 DEF Holds
<1>9. QED
  BY <1>7, <1>8 DEF TakesRecord

\* MarkRunning and FinalStatus.
LEMMA SetStatusKind ==
    ASSUME ListInv, NEW p \in Procs, NEW s \in AllStatuses,
           NEW next \in {"idle", "session"}, SetStatus(p, s, next), UNCHANGED <<disk, said>>
    PROVE  Rests(p) \/ \E j, step : TakesRecord(p, j, step)
<1>0. TypeOK /\ ProcsTyped /\ ListedSubtasksExist
  BY TypeParts DEF ListInv
<1> DEFINE t == run[p].task
           set == [status |-> s]
           j == Job(t, disk.active[t], set, next)
<1>1. CASE (Goto(p, "idle") \/ Goto(p, next)) /\ UNCHANGED raced
  BY <1>0, <1>1, GotoRests
<1>2. CASE t \in Loaded /\ Rewrite(p, j, "open")
  <2>1. /\ t \in Tasks /\ disk.active[t] \notin NoRecord /\ PartOf(set)
        /\ "subtasks" \notin DOMAIN set
    BY <1>2, SetParts DEF Loaded
  <2>2. JobTyped(j)
    BY <2>1, JobIsTyped
  <2>3. /\ j.task = t /\ j.root = "active" /\ j.child = Root
        /\ j.read = disk.active[t] /\ j.set = set /\ j.told = set
    BY DEF Job, NoJob
  <2>4. /\ With(disk.active[t], set) \in Record
        /\ \A c \in With(disk.active[t], set).subtasks : Begun(c)
        /\ disk.active[t] = said[t] => With(disk.active[t], set) = Told(said[t], set)
    <3> HIDE DEF set, t
    <3>1. QED
      BY <1>0, <2>1, HoldsRecord
  <2>5. disk.active[t] \in Record
    BY <1>0, <2>1, LoadedIsRecord
  <2> HIDE DEF j, set, t
  <2>6. Holds(j)
    BY <2>1, <2>2, <2>3, <2>4, <2>5 DEF Holds
  <2>7. QED
    BY <1>2, <2>6 DEF TakesRecord
<1>3. QED
  BY <1>1, <1>2 DEF SetStatus

LEMMA ApplyMetadataKind ==
    ASSUME ListInv, NEW p \in Procs, JobSound(p), ApplyMetadata(p)
    PROVE  Rests(p) \/ \E j, step : TakesRecord(p, j, step)
<1>0. TypeOK /\ ProcsTyped /\ ListedSubtasksExist
  BY TypeParts DEF ListInv
<1> DEFINE t == run[p].task
           r == run[p]
           set == Restrict(r.metadata, Unchanged(r, disk.active[t]))
           told == Restrict(r.metadata, Unchanged(r, said[t]))
           j == [Job(t, disk.active[t], set, "final") EXCEPT !.told = told]
<1>1. UNCHANGED <<disk, said>>
  BY DEF ApplyMetadata
<1>2. CASE (Goto(p, "idle") \/ Goto(p, "final")) /\ UNCHANGED raced
  BY <1>0, <1>1, <1>2, GotoRests
<1>3. CASE disk.active[t] \notin NoRecord /\ Rewrite(p, j, "open")
  <2>0. t \in Tasks
    BY <1>0 DEF ProcsTyped, RunTyped, JobSound, ApplyMetadata
  <2>1. PartOf(set) /\ PartOf(told)
    <3>1. \A rec : Unchanged(r, rec) = Unchanged(r, rec) \cap DOMAIN r.metadata
      BY DEF Unchanged
    <3>2. RunTyped(r)
      BY <1>0 DEF ProcsTyped
    <3>3. QED
      BY <3>1, <3>2, MetadataPart
  <2>2. "subtasks" \notin DOMAIN set
    <3>1. DOMAIN set \subseteq DOMAIN r.metadata
      BY DEF Restrict, Unchanged
    <3>2. "subtasks" \notin DOMAIN r.metadata
      BY <1>0 DEF ProcsTyped, RunTyped
    <3>3. QED
      BY <3>1, <3>2
  <2>3. disk.active[t] = said[t] => told = set
    OBVIOUS
  <2>4. JobTyped(j)
    BY <2>0, JobIsTyped
  <2>5. /\ j.task = t /\ j.root = "active" /\ j.child = Root
        /\ j.read = disk.active[t] /\ j.set = set /\ j.told = told
    BY DEF Job, NoJob
  <2>6. disk.active[t] \in Record
    BY <1>0, <1>3, <2>0, LoadedIsRecord
  <2>7. /\ With(disk.active[t], set) \in Record
        /\ \A c \in With(disk.active[t], set).subtasks : Begun(c)
        /\ disk.active[t] = said[t] => With(disk.active[t], set) = Told(said[t], told)
    <3> HIDE DEF set, told, t
    <3>1. QED
      BY <1>0, <1>3, <2>0, <2>1, <2>2, <2>3, HoldsRecord
  <2> HIDE DEF j, set, told, t
  <2>8. Holds(j)
    BY <2>0, <2>1, <2>4, <2>5, <2>6, <2>7 DEF Holds
  <2>9. QED
    BY <1>1, <1>3, <2>8 DEF TakesRecord
<1>4. QED
  BY <1>2, <1>3 DEF ApplyMetadata

LEMMA RunTaskKind ==
    ASSUME ListInv, NEW p \in Procs, RunTask(p)
    PROVE  Rests(p)
<1>0. ProcsTyped
  BY TypeParts DEF ListInv
<1>1. PICK t \in Loaded, s \in {"completed", "merged"},
          m \in {<< >>} \cup [{"note"} -> Notes] \cup [{"status"} -> {"created"}] :
          run' = [run EXCEPT ![p] = [task |-> t, initial |-> disk.active[t], metadata |-> m,
                                     status |-> s, reported |-> FALSE]]
  BY DEF RunTask
<1>2. t \in Tasks
  BY DEF Loaded
<1>3. RunTyped(run'[p]) /\ DOMAIN run' = Procs /\ \A q \in Procs \ {p} : run'[q] = run[q]
  <2>1. /\ run'[p] = [task |-> t, initial |-> disk.active[t], metadata |-> m,
                      status |-> s, reported |-> FALSE]
        /\ DOMAIN run' = Procs /\ \A q \in Procs \ {p} : run'[q] = run[q]
    BY <1>0, <1>1 DEF ProcsTyped
  <2>2. DOMAIN run'[p] = DOMAIN NoRun
    BY <2>1 DEF NoRun
  <2>3. QED
    BY <1>2, <2>1, <2>2 DEF RunTyped
<1>4. /\ pc' = [pc EXCEPT ![p] = "mark"] /\ pc' \in [Procs -> {"idle", "session", "mark",
             "metadata", "final", "link", "mkdir", "open", "write", "merging", "moving"}]
      /\ UNCHANGED <<disk, job, said, raced>>
  BY <1>0 DEF RunTask, ProcsTyped
<1>5. pc'[p] = "mark" /\ \A q \in Procs \ {p} : pc'[q] = pc[q]
  BY <1>0, <1>4 DEF ProcsTyped
<1>6. \A q \in Procs : RunTyped(run'[q])
  BY <1>0, <1>3 DEF ProcsTyped
<1>7. QED
  BY <1>0, <1>3, <1>4, <1>5, <1>6 DEF Rests, OthersStay, ProcsTyped, BusyAt

\* The steps that only go somewhere.
LEMMA GoingKind ==
    ASSUME ListInv, NEW p \in Procs,
           SessionEnds(p) \/ Archive(p) \/ MoveEnds(p) \/ Kill(p)
    PROVE  Rests(p)
<1>0. ProcsTyped
  BY TypeParts DEF ListInv
<1>1. CASE SessionEnds(p)
  BY <1>0, <1>1, GotoRests DEF SessionEnds
<1>2. CASE Archive(p)
  BY <1>0, <1>2, GotoRests DEF Archive
<1>3. CASE MoveEnds(p)
  BY <1>0, <1>3, GotoRests DEF MoveEnds, Leave
<1>4. CASE Kill(p)
  BY <1>0, <1>4, GotoRests DEF Kill, Leave
<1>5. QED
  BY <1>1, <1>2, <1>3, <1>4

LEMMA OpenKind ==
    ASSUME ListInv, NEW p \in Procs, Open(p)
    PROVE  Rests(p) \/ OpensFile(p)
<1>0. ProcsTyped
  BY TypeParts DEF ListInv
<1>1. CASE Goto(p, Failed(p)) /\ UNCHANGED disk
  BY <1>0, <1>1, FailedRests, GotoRests DEF Open
<1>2. QED
  BY <1>1 DEF Open, OpensFile

LEMMA MergeBranchesKind ==
    ASSUME ListInv, NEW p \in Procs, MergeBranches(p)
    PROVE  Rests(p) \/ GoesOn(p)
<1>0. ProcsTyped
  BY TypeParts DEF ListInv
<1>1. UNCHANGED <<disk, said, raced>> /\ (Goto(p, "open") \/ Goto(p, Failed(p)))
  BY DEF MergeBranches
<1>2. CASE Goto(p, Failed(p))
  BY <1>0, <1>1, <1>2, FailedRests, GotoRests
<1>3. CASE Goto(p, "open")
  BY <1>1, <1>3 DEF MergeBranches, GoesOn
<1>4. QED
  BY <1>1, <1>2, <1>3

\* An archive that fails on a directory makes those above it.
MovesOn(p) ==
    /\ pc[p] = "moving" /\ ProcsTyped' /\ UNCHANGED <<pc, run, said, raced>>
    /\ \E t \in Tasks :
          /\ CanRename(t) /\ Rename(t)
          /\ job' = [q \in Procs |-> IF pc[q] = "write" /\ job[q].task \in Below(t)
                                     THEN [job[q] EXCEPT !.root = "archive"] ELSE job[q]]

MakesArchive(p) ==
    /\ pc[p] = "moving" /\ ProcsTyped' /\ OthersStay(p) /\ pc'[p] = "idle" /\ job'[p] = NoJob
    /\ UNCHANGED <<said, raced>>
    /\ \E t \in Tasks : disk' = [disk EXCEPT !.archive = MkdirAll(@, Up(t))]

LEMMA MoveKind ==
    ASSUME ListInv, NEW p \in Procs, Move(p)
    PROVE  Rests(p) \/ MovesOn(p) \/ MakesArchive(p)
<1>0. TypeOK /\ ProcsTyped
  BY TypeParts DEF ListInv
<1> DEFINE t == Head(queue[p])
<1>1. t \in Tasks
  BY <1>0 DEF TypeOK, Move
<1>2. UNCHANGED <<said, raced>> /\ pc[p] = "moving"
  BY DEF Move
<1>3. CASE UNCHANGED <<disk, pc, job, run>>
  BY <1>0, <1>2, <1>3 DEF Rests, OthersStay, ProcsTyped, BusyAt
<1>4. CASE /\ CanRename(t) /\ Rename(t) /\ UNCHANGED <<pc, run>>
           /\ job' = [q \in Procs |-> IF pc[q] = "write" /\ job[q].task \in Below(t)
                                     THEN [job[q] EXCEPT !.root = "archive"] ELSE job[q]]
  <2>1. \A q \in Procs : JobTyped([job[q] EXCEPT !.root = "archive"])
    BY <1>0 DEF ProcsTyped, JobTyped, NoJob
  <2>2. DOMAIN job' = Procs /\ \A q \in Procs : JobTyped(job'[q])
    BY <1>0, <1>4, <2>1 DEF ProcsTyped
  <2>3. ProcsTyped'
    BY <1>0, <1>4, <2>2 DEF ProcsTyped
  <2> HIDE DEF t
  <2>4. QED
    BY <1>1, <1>2, <1>4, <2>3 DEF MovesOn
<1>5. CASE /\ disk' = [disk EXCEPT !.archive = MkdirAll(@, Up(t))]
           /\ Goto(p, "idle")
  <2>1. ProcsTyped' /\ OthersStay(p) /\ pc'[p] = "idle" /\ job'[p] = NoJob
    BY <1>0, <1>5, GotoSteps
  <2> HIDE DEF t
  <2>2. QED
    BY <1>1, <1>2, <1>5, <2>1 DEF MakesArchive
<1>6. QED
  BY <1>3, <1>4, <1>5 DEF Move, Leave

MakesDir(p) ==
    /\ pc[p] = "mkdir" /\ Goto(p, "open")
    /\ disk' = [disk EXCEPT !.active = MkdirAll(@, {job[p].task})]
    /\ UNCHANGED <<said, raced>>

LEMMA Kinds ==
    ASSUME ListInv, NEW p \in Procs, Step(p)
    PROVE  \/ Rests(p)
           \/ \E j, step : TakesRecord(p, j, step)
           \/ \E j : TakesNew(p, j)
           \/ GoesOn(p) \/ MakesDir(p) \/ OpensFile(p) \/ Write(p)
           \/ MovesOn(p) \/ MakesArchive(p)
<1>0. JobSound(p) /\ ProcsTyped /\ TypeOK
  BY TypeParts DEF ListInv
<1>1. CASE Update(p)
  BY <1>1, UpdateKind
<1>2. CASE Create(p)
  BY <1>2, CreateKind
<1>3. CASE MakeDir(p)
  BY <1>3 DEF MakeDir, MakesDir
<1>4. CASE Link(p)
  BY <1>0, <1>4, LinkKind
<1>5. CASE MergeTask(p)
  BY <1>5, MergeTaskKind
<1>6. CASE MergeBranches(p)
  BY <1>6, MergeBranchesKind
<1>7. CASE Open(p)
  BY <1>7, OpenKind
<1>8. CASE MarkRunning(p)
  BY <1>8, SetStatusKind DEF MarkRunning, AllStatuses
<1>9. CASE FinalStatus(p)
  <2>1. CASE Goto(p, "idle") /\ UNCHANGED raced
    BY <1>0, <1>9, <2>1, GotoRests DEF FinalStatus
  <2>2. CASE SetStatus(p, run[p].status, "idle")
    <3>1. run[p].status \in AllStatuses
      BY <1>0 DEF ProcsTyped, RunTyped, AllStatuses
    <3>2. QED
      BY <1>9, <2>2, <3>1, SetStatusKind DEF FinalStatus
  <2>3. QED
    BY <1>9, <2>1, <2>2 DEF FinalStatus
<1>10. CASE ApplyMetadata(p)
  BY <1>0, <1>10, ApplyMetadataKind
<1>11. CASE RunTask(p)
  BY <1>11, RunTaskKind
<1>12. CASE SessionEnds(p) \/ Archive(p) \/ MoveEnds(p) \/ Kill(p)
  BY <1>12, GoingKind
<1>13. CASE Move(p)
  BY <1>13, MoveKind
<1>14. QED
  BY <1>1, <1>2, <1>3, <1>4, <1>5, <1>6, <1>7, <1>8, <1>9, <1>10, <1>11, <1>12, <1>13 DEF Step

-----------------------------------------------------------------------------
(* What the steps make of the files.                                       *)

\* Files change as some step changes them: what was begun stays begun, only an open
\* begins a task, and records are moved, never made, except by a write.
DiskMoves(p) ==
    /\ disk' \in [{"active", "archive"} -> [Tasks -> Content]]
    /\ \A t \in Tasks : Begun(t) => Begun(t)'
    /\ \A t \in Tasks : Begun(t)' => Begun(t) \/ (pc[p] = "open" /\ t = job[p].task)
    /\ \A r \in {"active", "archive"}, t \in Tasks :
          \/ disk'[r][t] \in NoRecord
          \/ \E s \in {"active", "archive"} : disk'[r][t] = disk[s][t]
          \/ pc[p] = "write" /\ t = job[p].task /\ disk'[r][t] = Result(p)

\* An active file appears by an open or a write, and a task's current record becomes
\* another one only by a write.
CurrentMoves(p) ==
    \A t \in Tasks :
       /\ disk.active[t] \in {Nothing, Bare} =>
             disk'.active[t] \in {Nothing, Bare} \/ (pc[p] \in {"open", "write"} /\ t = job[p].task)
       /\ \/ Current(t)' \in NoRecord \/ Current(t)' = Current(t)
          \/ pc[p] = "write" /\ t = job[p].task

LEMMA BegunMeans ==
    ASSUME disk \in [{"active", "archive"} -> [Tasks -> Content]], NEW t \in Tasks
    PROVE  Begun(t) <=> disk.active[t] \notin {Nothing, Bare} \/ disk.archive[t] \notin {Nothing, Bare}
  BY DEF Begun

LEMMA MkdirTyped ==
    ASSUME NEW dirs \in [Tasks -> Content], NEW made
    PROVE  /\ MkdirAll(dirs, made) \in [Tasks -> Content]
           /\ \A t \in Tasks : \/ MkdirAll(dirs, made)[t] = dirs[t]
                               \/ dirs[t] = Nothing /\ MkdirAll(dirs, made)[t] = Bare
  BY DEF MkdirAll, Content, NoRecord

LEMMA DiskSteps ==
    ASSUME ListInv, NEW p \in Procs, Step(p)
    PROVE  DiskMoves(p) /\ CurrentMoves(p)
<1>0. /\ disk \in [{"active", "archive"} -> [Tasks -> Content]]
      /\ disk.active \in [Tasks -> Content] /\ disk.archive \in [Tasks -> Content]
      /\ DOMAIN disk = {"active", "archive"} /\ JobSound(p) /\ job[p].root \in {"active", "archive"}
  BY DEF ListInv, TypeOK, JobTyped
<1>d. ASSUME NEW act \in [Tasks -> Content], NEW arch \in [Tasks -> Content],
             disk' \in [{"active", "archive"} -> [Tasks -> Content]],
             disk'.active = act, disk'.archive = arch
      PROVE  \A t \in Tasks :
                Begun(t)' <=> act[t] \notin {Nothing, Bare} \/ arch[t] \notin {Nothing, Bare}
  BY <1>d DEF Begun
<1>1. CASE UNCHANGED disk
  BY <1>0, <1>1, <1>d, BegunMeans DEF DiskMoves, CurrentMoves, Current
<1>2. CASE MakesDir(p) \/ MakesArchive(p)
  <2>0. PICK r \in {"active", "archive"} :
           \E made : disk' = [disk EXCEPT ![r] = MkdirAll(@, made)]
    BY <1>0, <1>2 DEF MakesDir, MakesArchive
  <2>1. PICK made : disk' = [disk EXCEPT ![r] = MkdirAll(@, made)]
    BY <2>0
  <2>2. /\ disk' \in [{"active", "archive"} -> [Tasks -> Content]]
        /\ \A s \in {"active", "archive"}, t \in Tasks :
              disk'[s][t] = disk[s][t] \/ (disk[s][t] = Nothing /\ disk'[s][t] = Bare)
    <3> DEFINE up == MkdirAll(disk[r], made)
    <3>1. disk[r] \in [Tasks -> Content]
      BY <1>0
    <3>2. /\ up \in [Tasks -> Content]
          /\ \A t \in Tasks : up[t] = disk[r][t] \/ (disk[r][t] = Nothing /\ up[t] = Bare)
      BY <3>1, MkdirTyped
    <3>3. disk' = [disk EXCEPT ![r] = up]
      BY <2>1
    <3> HIDE DEF up
    <3>4. QED
      BY <1>0, <3>2, <3>3
  <2>3. \A t \in Tasks : Begun(t)' <=> Begun(t)
    BY <1>0, <2>2, Distinct DEF Begun
  <2>4. CurrentMoves(p)
    BY <2>2, Distinct DEF CurrentMoves, Current
  <2>5. QED
    BY <2>2, <2>3, <2>4, Distinct DEF DiskMoves
<1>3. CASE OpensFile(p)
  <2>1. /\ disk' \in [{"active", "archive"} -> [Tasks -> Content]]
        /\ disk'.archive = disk.archive
        /\ disk'.active = [disk.active EXCEPT ![job[p].task] = Emptied]
    BY <1>0, <1>3, Distinct DEF OpensFile, Content
  <2>2. \A t \in Tasks : disk'.active[t] = IF t = job[p].task THEN Emptied ELSE disk.active[t]
    BY <1>0, <2>1
  <2>3. \A r \in {"active", "archive"}, t \in Tasks :
           disk'[r][t] = Emptied \/ disk'[r][t] = disk[r][t]
    BY <2>1, <2>2
  <2>4. \A t \in Tasks : Begun(t) => Begun(t)'
    BY <1>0, <2>1, <2>2, Distinct, BegunMeans DEF Begun
  <2>5. \A t \in Tasks : Begun(t)' => Begun(t) \/ t = job[p].task
    BY <1>0, <2>1, <2>2, Distinct, BegunMeans DEF Begun
  <2>6. CurrentMoves(p)
    BY <1>3, <2>1, <2>2, Distinct DEF CurrentMoves, Current, OpensFile
  <2>7. QED
    BY <1>3, <2>1, <2>3, <2>4, <2>5, <2>6, Distinct DEF DiskMoves, OpensFile
<1>4. CASE Write(p)
  <2>1. PICK new \in Written(disk[job[p].root][job[p].task], Result(p)) :
           disk' = [disk EXCEPT ![job[p].root][job[p].task] = new]
    BY <1>4 DEF Write, Result
  <2>2. new = Garbled \/ new = Result(p)
    BY <2>1 DEF Written
  <2>3. pc[p] = "write" /\ job[p].task \in Tasks /\ Result(p) \in Record /\ Begun(job[p].task)
    BY <1>0, <1>4 DEF Write, JobSound, Owns, BusyAt
  <2>4. new \in Content /\ new \notin {Nothing, Bare}
    BY <2>2, <2>3, Distinct, RecordIsContent DEF Content
  <2>5. /\ disk' \in [{"active", "archive"} -> [Tasks -> Content]]
        /\ \A r \in {"active", "archive"}, t \in Tasks :
              disk'[r][t] = IF r = job[p].root /\ t = job[p].task THEN new ELSE disk[r][t]
    BY <1>0, <2>1, <2>4
  <2>6. \A t \in Tasks : Begun(t)' <=> Begun(t)
    BY <1>0, <2>3, <2>4, <2>5 DEF Begun
  <2>7. CurrentMoves(p)
    BY <2>3, <2>5 DEF CurrentMoves, Current
  <2>8. QED
    BY <2>2, <2>3, <2>5, <2>6, <2>7, Distinct DEF DiskMoves
<1>5. CASE MovesOn(p)
  <2>1. PICK m \in Tasks : CanRename(m) /\ Rename(m)
    BY <1>5 DEF MovesOn
  <2> DEFINE up == MkdirAll(disk.archive, Up(m))
  <2>2. /\ up \in [Tasks -> Content]
        /\ \A t \in Tasks : up[t] = disk.archive[t] \/ (disk.archive[t] = Nothing /\ up[t] = Bare)
    <3>1. disk.archive \in [Tasks -> Content]
      BY <1>0
    <3>2. QED
      BY <3>1, MkdirTyped
  <2> HIDE DEF up
  <2>3. /\ \A t \in Tasks : disk'.active[t] = IF t \in Below(m) THEN Nothing ELSE disk.active[t]
        /\ \A t \in Tasks : disk'.archive[t] = IF t \in Below(m) THEN disk.active[t] ELSE up[t]
        /\ DOMAIN disk' = {"active", "archive"}
        /\ disk' \in [{"active", "archive"} -> [Tasks -> Content]]
    <3> DEFINE act == [d \in Tasks |-> IF d \in Below(m) THEN Nothing ELSE disk.active[d]]
               arch == [d \in Tasks |-> IF d \in Below(m) THEN disk.active[d] ELSE up[d]]
    <3>1. disk' = [active |-> act, archive |-> arch]
      BY <2>1 DEF Rename, up
    <3>2. act \in [Tasks -> Content] /\ arch \in [Tasks -> Content]
      BY <1>0, <2>2, Distinct DEF Content
    <3>3. disk'.active = act /\ disk'.archive = arch
      BY <3>1
    <3> HIDE DEF act, arch
    <3>4. disk' \in [{"active", "archive"} -> [Tasks -> Content]]
      BY <3>1, <3>2
    <3>5. QED
      BY <3>1, <3>3, <3>4 DEF act, arch
  <2>4. \A t \in Tasks : t \in Below(m) => disk.archive[t] \in {Nothing, Bare}
    BY <2>1 DEF CanRename
  <2>5. \A t \in Tasks : Begun(t)' <=> Begun(t)
    BY <1>0, <2>2, <2>3, <2>4, Distinct, BegunMeans DEF Begun
  <2>6. \A r \in {"active", "archive"}, t \in Tasks :
          \/ disk'[r][t] \in NoRecord
          \/ \E s \in {"active", "archive"} : disk'[r][t] = disk[s][t]
    BY <2>2, <2>3, Distinct
  <2>7. CurrentMoves(p)
    BY <2>2, <2>3, <2>4, Distinct DEF CurrentMoves, Current
  <2>8. QED
    BY <2>3, <2>5, <2>6, <2>7 DEF DiskMoves
<1>6. QED
  BY <1>1, <1>2, <1>3, <1>4, <1>5, Kinds DEF Rests, TakesRecord, TakesNew, GoesOn

-----------------------------------------------------------------------------
(* The rest of the state.                                                  *)

LEMMA PathsAreTasks ==
    ASSUME NEW set \in SUBSET Tasks, NEW s \in ByPathLength(set)
    PROVE  s \in Seq(Tasks)
<1>1. Cardinality(set) \in Nat
  BY FS_Subset, FS_CardinalityType, TaskAssumption
<1>2. s \in [1 .. Cardinality(set) -> Tasks]
  BY DEF ByPathLength
<1>3. QED
  BY <1>1, <1>2

CountersTyped ==
    /\ queue \in [Procs -> Seq(Tasks)] /\ moved \in [Procs -> SUBSET Tasks]
    /\ ruffled \subseteq Procs /\ ops \in 0 .. MaxOps /\ kills \in 0 .. MaxKills

LEMMA CountersSteps ==
    ASSUME ListInv, NEW p \in Procs, Step(p)
    PROVE  CountersTyped'
<1>0. CountersTyped
  BY DEF ListInv, TypeOK, CountersTyped
<1>1. ASSUME Begin PROVE ops' \in 0 .. MaxOps
  BY <1>0, <1>1, TaskAssumption DEF Begin, CountersTyped
<1>2. ASSUME Leave(p)
      PROVE  queue' \in [Procs -> Seq(Tasks)] /\ moved' \in [Procs -> SUBSET Tasks]
  BY <1>0, <1>2 DEF Leave, CountersTyped
<1>3. CASE Update(p) \/ Create(p) \/ MergeTask(p) \/ RunTask(p)
  BY <1>0, <1>1, <1>3 DEF Update, Create, MergeTask, RunTask, archiving, CountersTyped
<1>4. CASE Link(p) \/ MergeBranches(p) \/ Open(p) \/ Write(p)
  BY <1>0, <1>4 DEF Link, MergeBranches, Open, Write, archiving, CountersTyped
<1>5. CASE MarkRunning(p) \/ SessionEnds(p) \/ ApplyMetadata(p) \/ FinalStatus(p)
  BY <1>0, <1>5 DEF MarkRunning, SessionEnds, ApplyMetadata, FinalStatus, archiving, CountersTyped
<1>6. CASE MakeDir(p)
  BY <1>0, <1>6 DEF MakeDir, CountersTyped
<1>7. CASE Archive(p)
  <2>0. PICK set \in SUBSET Tasks :
          /\ \E s \in ByPathLength(set) : queue' = [queue EXCEPT ![p] = s]
          /\ ruffled' \in {ruffled \cup {p}, ruffled \ {p}}
    <3>1. \A set \in {{t} : t \in Loaded} \cup {{t \in Loaded : Archivable(t)}}
                \cup {{t \in Loaded : disk.active[t].status = s} : s \in Statuses} :
             set \in SUBSET Tasks
      BY DEF Loaded
    <3>2. QED
      BY <1>7, <3>1 DEF Archive
  <2>1. PICK s \in ByPathLength(set) : queue' = [queue EXCEPT ![p] = s]
    BY <2>0
  <2>2. s \in Seq(Tasks)
    BY <2>1, PathsAreTasks
  <2>3. UNCHANGED <<moved, kills>> /\ Begin
    BY <1>7 DEF Archive
  <2>4. QED
    BY <1>0, <1>1, <2>0, <2>1, <2>2, <2>3 DEF CountersTyped
<1>8. CASE Move(p)
  <2> DEFINE t == Head(queue[p])
  <2>1. t \in Tasks /\ Tail(queue[p]) \in Seq(Tasks)
    BY <1>0, <1>8 DEF CountersTyped, Move
  <2>2. UNCHANGED <<ops, kills>>
    BY <1>8 DEF Move
  <2>3. CASE queue' = [queue EXCEPT ![p] = Tail(@)] /\ UNCHANGED <<moved, ruffled>>
    BY <1>0, <2>1, <2>2, <2>3 DEF CountersTyped
  <2>4. CASE /\ queue' = [queue EXCEPT ![p] = Tail(@)]
             /\ moved' = [moved EXCEPT ![p] = @ \cup {t}]
             /\ ruffled' = ruffled \cup {q \in Procs \ {p} : pc[q] = "moving"}
    <3> HIDE DEF t
    <3>1. QED
      BY <1>0, <2>1, <2>2, <2>4 DEF CountersTyped
  <2>5. CASE Leave(p) /\ UNCHANGED ruffled
    BY <1>0, <1>2, <2>2, <2>5 DEF CountersTyped
  <2>6. QED
    BY <1>8, <2>3, <2>4, <2>5 DEF Move
<1>9. CASE MoveEnds(p)
  BY <1>0, <1>2, <1>9 DEF MoveEnds, CountersTyped
<1>10. CASE Kill(p)
  BY <1>0, <1>2, <1>10, TaskAssumption DEF Kill, CountersTyped
<1>11. QED
  BY <1>3, <1>4, <1>5, <1>6, <1>7, <1>8, <1>9, <1>10 DEF Step

-----------------------------------------------------------------------------
(* What the steps make of the processes.                                   *)

SameJob(q) ==
    /\ job'[q].task = job[q].task /\ job'[q].child = job[q].child
    /\ job'[q].read = job[q].read /\ job'[q].set = job[q].set /\ job'[q].told = job[q].told

\* The others do what they did.  The process takes a record, or makes a new one, or
\* goes on with the one it has, or is done with it.
ProcsMove(p) ==
    /\ ProcsTyped'
    /\ \A q \in Procs \ {p} : pc'[q] = pc[q] /\ run'[q] = run[q] /\ SameJob(q)
    /\ \/ \E j : Holds(j) /\ job'[p] = j /\ pc'[p] \in {"open", "merging"} /\ UNCHANGED said
       \/ \E j : TakesNew(p, j) /\ job'[p] = j /\ pc'[p] = "mkdir"
       \/ /\ pc[p] \in {"merging", "mkdir", "open"} /\ pc'[p] \in {"open", "write"} /\ SameJob(p)
          /\ pc'[p] = "write" => Begun(job[p].task)'
          /\ UNCHANGED said
       \/ /\ pc'[p] \notin BusyAt /\ job'[p].child \in {job[p].child, Root}
          /\ pc'[p] = "link" => pc[p] = "write" /\ SameJob(p)
          /\ pc'[p] = "metadata" => run'[p].metadata # << >>

LEMMA WriteSteps ==
    ASSUME ListInv, NEW p \in Procs, Write(p)
    PROVE  /\ ProcsTyped' /\ OthersStay(p) /\ pc'[p] = job[p].then
           /\ job'[p] = IF job[p].then = "link" THEN job[p] ELSE NoJob
<1>0. ProcsTyped /\ JobTyped(job[p]) /\ RunTyped(run[p])
  BY TypeParts DEF ListInv, ProcsTyped
<1> DEFINE r == IF job[p].then = "idle" THEN NoRun
                ELSE [run[p] EXCEPT !.reported = run[p].reported \/ job[p].reports]
<1>1. /\ pc' = [pc EXCEPT ![p] = job[p].then]
      /\ job' = [job EXCEPT ![p] = IF job[p].then = "link" THEN @ ELSE NoJob]
      /\ run' = [run EXCEPT ![p] = r]
  BY DEF Write
<1>2. job[p].then \in {"idle", "session", "final", "link"}
  BY <1>0 DEF JobTyped
<1>3. RunTyped([run[p] EXCEPT !.reported = run[p].reported \/ job[p].reports])
  BY <1>0 DEF RunTyped, NoRun
<1>4. /\ DOMAIN run' = Procs /\ RunTyped(run'[p])
      /\ \A q \in Procs \ {p} : run'[q] = run[q]
  <2>1. RunTyped(r)
    BY <1>3, NoJobTyped
  <2> HIDE DEF r
  <2>2. QED
    BY <1>0, <1>1, <2>1 DEF ProcsTyped
<1>5. /\ DOMAIN job' = Procs /\ job'[p] = IF job[p].then = "link" THEN job[p] ELSE NoJob
      /\ \A q \in Procs \ {p} : job'[q] = job[q]
  BY <1>0, <1>1 DEF ProcsTyped
<1>6. pc'[p] = job[p].then /\ \A q \in Procs \ {p} : pc'[q] = pc[q]
  BY <1>0, <1>1 DEF ProcsTyped
<1>7. \A q \in Procs : JobTyped(job'[q]) /\ RunTyped(run'[q])
  BY <1>0, <1>4, <1>5, NoJobTyped DEF ProcsTyped
<1>8. pc' \in [Procs -> {"idle", "session", "mark", "metadata", "final", "link", "mkdir",
                         "open", "write", "merging", "moving"}]
  BY <1>0, <1>1, <1>2 DEF ProcsTyped
<1>9. QED
  BY <1>4, <1>5, <1>6, <1>7, <1>8 DEF ProcsTyped, OthersStay, JobTyped, RunTyped

LEMMA ProcSteps ==
    ASSUME ListInv, NEW p \in Procs, Step(p)
    PROVE  ProcsMove(p)
<1>0. ProcsTyped /\ JobTyped(job[p]) /\ JobSound(p)
  BY TypeParts DEF ListInv, ProcsTyped
<1>o. ASSUME OthersStay(p)
      PROVE  \A q \in Procs \ {p} : pc'[q] = pc[q] /\ run'[q] = run[q] /\ SameJob(q)
  BY <1>o DEF OthersStay, SameJob
<1>1. CASE Rests(p)
  <2>1. job'[p].child \in {job[p].child, Root}
    BY <1>1 DEF Rests, NoJob
  <2>2. QED
    BY <1>1, <1>o, <2>1 DEF Rests, ProcsMove
<1>2. ASSUME NEW j, NEW step, TakesRecord(p, j, step) PROVE ProcsMove(p)
  <2>1. ProcsTyped' /\ OthersStay(p) /\ pc'[p] = step /\ job'[p] = j
    BY <1>0, <1>2, RewriteSteps DEF TakesRecord, Holds
  <2>2. Holds(j) /\ step \in {"open", "merging"} /\ UNCHANGED said
    BY <1>2 DEF TakesRecord
  <2>3. QED
    BY <1>o, <2>1, <2>2 DEF ProcsMove
<1>3. ASSUME NEW j, TakesNew(p, j) PROVE ProcsMove(p)
  <2>1. ProcsTyped' /\ OthersStay(p) /\ pc'[p] = "mkdir" /\ job'[p] = j
    BY <1>0, <1>3, RewriteSteps DEF TakesNew
  <2>2. QED
    BY <1>3, <1>o, <2>1 DEF ProcsMove
<1>4. CASE GoesOn(p) \/ MakesDir(p)
  <2>1. pc[p] \in {"merging", "mkdir"} /\ Goto(p, "open") /\ UNCHANGED said
    BY <1>4 DEF GoesOn, MakesDir
  <2>2. ProcsTyped' /\ OthersStay(p) /\ pc'[p] = "open" /\ job'[p] = job[p]
    BY <1>0, <2>1, GotoSteps
  <2>3. QED
    BY <1>o, <2>1, <2>2 DEF ProcsMove, SameJob
<1>5. CASE OpensFile(p)
  <2>1. pc[p] = "open" /\ Goto(p, "write") /\ UNCHANGED said
    BY <1>5 DEF OpensFile
  <2>2. ProcsTyped' /\ OthersStay(p) /\ pc'[p] = "write" /\ job'[p] = job[p]
    BY <1>0, <2>1, GotoSteps
  <2>3. Begun(job[p].task)'
    <3>1. job[p].task \in Tasks
      BY <1>0, <2>1 DEF JobSound, Owns, BusyAt
    <3>2. DOMAIN disk' = {"active", "archive"} /\ disk'.active[job[p].task] = Emptied
      BY <1>5, <3>1 DEF ListInv, TypeOK, OpensFile
    <3>3. disk'["active"][job'[p].task] \notin {Nothing, Bare} /\ "active" \in DOMAIN disk'
      BY <2>2, <3>2, Distinct
    <3>4. QED
      BY <3>3 DEF Begun
  <2>4. QED
    BY <1>o, <2>1, <2>2, <2>3 DEF ProcsMove, SameJob
<1>6. CASE Write(p)
  <2>1. /\ ProcsTyped' /\ OthersStay(p) /\ pc'[p] = job[p].then /\ pc[p] = "write"
        /\ job'[p] = IF job[p].then = "link" THEN job[p] ELSE NoJob
    BY <1>6, WriteSteps DEF Write
  <2>2. job[p].then \in {"idle", "session", "final", "link"}
    BY <1>0 DEF JobTyped
  <2>3. job'[p].child \in {job[p].child, Root}
    BY <2>1 DEF NoJob
  <2>4. QED
    BY <1>o, <2>1, <2>2, <2>3 DEF ProcsMove, SameJob, BusyAt
<1>7. CASE MovesOn(p)
  <2>1. \A q \in Procs : pc'[q] = pc[q] /\ run'[q] = run[q] /\ SameJob(q)
    BY <1>0, <1>7 DEF MovesOn, SameJob
  <2>2. ProcsTyped' /\ pc[p] = "moving"
    BY <1>7 DEF MovesOn
  <2>3. QED
    BY <2>1, <2>2 DEF ProcsMove, SameJob, BusyAt
<1>8. CASE MakesArchive(p)
  BY <1>8, <1>o DEF MakesArchive, ProcsMove, BusyAt, NoJob
<1>9. QED
  BY <1>1, <1>2, <1>3, <1>4, <1>5, <1>6, <1>7, <1>8, Kinds

-----------------------------------------------------------------------------
(* Listed subtasks exist.                                                  *)

LEMMA SaidSteps ==
    ASSUME ListInv, NEW p \in Procs, Step(p)
    PROVE  /\ said' \in [Tasks -> Record] /\ raced' \subseteq Tasks /\ raced \subseteq raced'
           /\ \/ said' = said
              \/ /\ pc[p] = "write"
                 /\ said' = [said EXCEPT ![job[p].task] = Told(@, job[p].told)]
<1>0. /\ said \in [Tasks -> Record] /\ raced \subseteq Tasks
      /\ pc[p] = "write" => job[p].task \in Tasks /\ PartOf(job[p].told)
  BY DEF ListInv, TypeOK, JobSound, Owns, BusyAt
<1>1. CASE UNCHANGED <<said, raced>>
  BY <1>0, <1>1
<1>2. ASSUME NEW j, NEW step, Rewrite(p, j, step), j.task \in Tasks, UNCHANGED said
      PROVE  said' = said /\ raced' \subseteq Tasks /\ raced \subseteq raced'
  BY <1>0, <1>2 DEF Rewrite
<1>3. CASE Write(p)
  <2>1. pc[p] = "write" /\ said' = [said EXCEPT ![job[p].task] = Told(@, job[p].told)]
        /\ UNCHANGED raced
    BY <1>3 DEF Write
  <2>2. Told(said[job[p].task], job[p].told) \in Record
    BY <1>0, <2>1, ToldFields
  <2>3. QED
    BY <1>0, <2>1, <2>2
<1>4. QED
  BY <1>0, <1>1, <1>2, <1>3, Kinds
     DEF Rests, TakesRecord, TakesNew, GoesOn, MakesDir, OpensFile, MovesOn, MakesArchive, Holds

LEMMA ListStep ==
    ASSUME ListInv, NEW p \in Procs, Step(p)
    PROVE  ListInv'
<1>0. /\ DiskMoves(p) /\ ProcsMove(p) /\ ProcsTyped' /\ TypeOK
      /\ \A q \in Procs : JobSound(q) /\ ResultLists(q)
  BY DiskSteps, ProcSteps DEF ListInv, ProcsMove
<1>1. TypeOK'
  <2>1. disk' \in [{"active", "archive"} -> [Tasks -> Content]]
    BY <1>0 DEF DiskMoves
  <2>2. said' \in [Tasks -> Record] /\ raced' \subseteq Tasks
    BY SaidSteps
  <2>3. CountersTyped'
    BY CountersSteps
  <2>4. QED
    BY <1>0, <2>1, <2>2, <2>3 DEF TypeOK, ProcsTyped, CountersTyped
<1>b. \A t \in Tasks : Begun(t) => Begun(t)'
  BY <1>0 DEF DiskMoves
<1>2. CreatedByOne'
  <2>1. \A q \in Procs \ {p} : job'[q].child = job[q].child
    BY <1>0 DEF ProcsMove, SameJob
  <2>2. \/ job'[p].child \in {job[p].child, Root}
        \/ \A q \in Procs : job[q].child # job'[p].child
    BY <1>0 DEF ProcsMove, Holds, TakesNew, SameJob
  <2>3. QED
    BY <2>1, <2>2, TaskAssumption DEF ListInv, CreatedByOne
<1>3. ASSUME NEW q \in Procs \ {p} PROVE JobSound(q)' /\ ResultLists(q)'
  <2>1. pc'[q] = pc[q] /\ run'[q] = run[q] /\ SameJob(q) /\ JobSound(q) /\ ResultLists(q)
    BY <1>0 DEF ProcsMove
  <2>2. Result(q)' = Result(q) /\ (Owns(q)' <=> Owns(q))
    BY <2>1 DEF SameJob, Result, Owns
  <2>3. ASSUME pc[q] = "mkdir" PROVE ~Begun(job[q].task)'
    <3>1. /\ job[q].task \in Tasks /\ job[q].child = job[q].task /\ ~Begun(job[q].task)
      BY <2>1, <2>3 DEF JobSound, Owns, BusyAt
    <3>2. CASE pc[p] = "open" /\ job[p].task = job[q].task
      <4>1. job[p].child = job[p].task
        BY <1>0, <3>1, <3>2 DEF JobSound, Owns, BusyAt
      <4>2. QED
        BY <3>1, <3>2, <4>1 DEF ListInv, CreatedByOne
    <3>3. QED
      BY <1>0, <2>1, <3>1, <3>2 DEF DiskMoves, SameJob
  <2>4. Owns(q) => \A c \in Result(q).subtasks : c \in Tasks
    BY <2>1, RecordFields DEF JobSound
  <2>5. ResultLists(q)'
    BY <1>b, <2>1, <2>2, <2>4 DEF ResultLists
  <2>6. JobSound(q)'
    <3>1. Owns(q) => job[q].task \in Tasks
      BY <2>1 DEF JobSound
    <3>2. PICK t : t = job[q].task /\ t = job'[q].task
      BY <2>1 DEF SameJob
    <3>3. t \in Tasks /\ Begun(t) => Begun(job[q].task)'
      BY <1>b, <3>2 DEF Begun
    <3>4. QED
      BY <2>1, <2>2, <2>3, <3>1, <3>2, <3>3 DEF JobSound, SameJob
  <2>7. QED
    BY <2>5, <2>6
<1>4. JobSound(p)' /\ ResultLists(p)'
  <2>0. /\ JobSound(p) /\ ResultLists(p)
        /\ pc'[p] = "metadata" => run'[p].metadata # << >>
    BY <1>0 DEF ProcsMove
  <2>1. ASSUME NEW j, Holds(j), job'[p] = j, pc'[p] \in {"open", "merging"}
        PROVE  JobSound(p)' /\ ResultLists(p)'
    <3>1. j.task \in Tasks /\ Begun(j.task)
      BY <1>0, <2>1, LoadedIsRecord, RecordIsContent DEF Holds
    <3>2. \A c \in Result(p)'.subtasks : Begun(c)'
      BY <1>b, <2>1, RecordFields DEF Holds, Result
    <3>3. Begun(job[p].task)'
      BY <1>b, <2>1, <3>1 DEF Begun
    <3>4. QED
      BY <2>1, <3>1, <3>2, <3>3 DEF JobSound, ResultLists, Result, Holds, Owns, BusyAt
  <2>2. ASSUME NEW j, TakesNew(p, j), job'[p] = j, pc'[p] = "mkdir"
        PROVE  JobSound(p)' /\ ResultLists(p)'
    <3>1. Result(p)' = New
      BY <2>2, NewOverNothing DEF TakesNew, Result
    <3>2. ~Begun(job[p].task)'
      BY <2>2 DEF TakesNew, Begun
    <3>3. QED
      BY <2>2, <3>1, <3>2, NewIsRecord, SetParts
         DEF JobSound, ResultLists, TakesNew, Owns, BusyAt
  <2>3. ASSUME pc[p] \in {"merging", "mkdir", "open"}, pc'[p] \in {"open", "write"}, SameJob(p),
               pc'[p] = "write" => Begun(job[p].task)'
        PROVE  JobSound(p)' /\ ResultLists(p)'
    <3>1. Result(p)' = Result(p) /\ Owns(p) /\ Result(p) \in Record
      BY <2>0, <2>3 DEF SameJob, Result, Owns, BusyAt, JobSound
    <3>2. \A c \in Result(p).subtasks : Begun(c)'
      BY <1>b, <2>0, <3>1, RecordFields DEF ResultLists
    <3>3. PICK t \in Tasks : t = job[p].task /\ t = job'[p].task
      BY <2>0, <2>3, <3>1 DEF SameJob, JobSound
    <3>4. Begun(t) => Begun(job[p].task)'
      BY <1>b, <3>3 DEF Begun
    <3>5. QED
      BY <2>0, <2>3, <3>1, <3>2, <3>3, <3>4
         DEF JobSound, ResultLists, SameJob, Owns, BusyAt
  <2>4. ASSUME pc'[p] \notin BusyAt, pc'[p] = "link" => pc[p] = "write" /\ SameJob(p)
        PROVE  JobSound(p)' /\ ResultLists(p)'
    <3>1. ASSUME pc'[p] = "link" PROVE job'[p].task \in Tasks /\ Begun(job[p].task)'
      <4>1. PICK t \in Tasks : t = job[p].task /\ t = job'[p].task /\ Begun(t)
        BY <2>0, <2>4, <3>1 DEF SameJob, JobSound
      <4>2. QED
        BY <1>b, <4>1 DEF Begun
    <3>2. QED
      BY <2>0, <2>4, <3>1 DEF JobSound, ResultLists, Owns, BusyAt
  <2>5. QED
    BY <1>0, <2>1, <2>2, <2>3, <2>4 DEF ProcsMove
<1>5. ListedSubtasksExist'
  <2>1. DOMAIN disk = {"active", "archive"} /\ DOMAIN disk' = {"active", "archive"}
    BY <1>0, <1>1 DEF TypeOK
  <2> SUFFICES ASSUME NEW r \in {"active", "archive"}, NEW t \in Tasks,
                      disk'[r][t] \notin NoRecord, NEW c \in disk'[r][t].subtasks
               PROVE  Begun(c)'
    BY <2>1 DEF ListedSubtasksExist, Begun
  <2>2. disk'[r][t] \in Record
    BY <1>1 DEF TypeOK, Content
  <2>3. c \in Tasks
    BY <2>2, RecordFields
  <2>4. CASE \E s \in {"active", "archive"} : disk'[r][t] = disk[s][t]
    BY <1>b, <2>1, <2>3, <2>4 DEF ListInv, ListedSubtasksExist
  <2>5. CASE pc[p] = "write" /\ disk'[r][t] = Result(p)
    BY <1>0, <1>b, <2>3, <2>5 DEF ResultLists, Owns, BusyAt
  <2>6. QED
    BY <1>0, <2>4, <2>5 DEF DiskMoves
<1>6. QED
  BY <1>1, <1>2, <1>3, <1>4, <1>5 DEF ListInv

LEMMA ListingIsRecord ==
    ASSUME NEW t \in Tasks
    PROVE  /\ Listing(t) \in Record
           /\ Listing(t).subtasks = {c \in Existing : ParentOf[c] = t}
  BY NewIsRecord, TaskAssumption DEF Listing, New, Record

LEMMA ListInit ==
    ASSUME Init
    PROVE  /\ ListInv /\ \A p \in Procs : pc[p] = "idle"
           /\ \A t \in Tasks : IF t \in Existing THEN disk.active[t] = Listing(t) /\ Begun(t)
                               ELSE disk.active[t] = Nothing /\ ~Begun(t)
           /\ \A t \in Tasks : disk.archive[t] = Nothing
<1> DEFINE act == [t \in Tasks |-> IF t \in Existing THEN Listing(t) ELSE Nothing]
           arch == [t \in Tasks |-> Nothing]
<1>1. act \in [Tasks -> Content] /\ arch \in [Tasks -> Content]
  BY ListingIsRecord DEF Content, NoRecord
<1>2. /\ disk \in [{"active", "archive"} -> [Tasks -> Content]]
      /\ disk.active = act /\ disk.archive = arch
  <2>1. disk = [active |-> act, archive |-> arch]
    BY DEF Init
  <2> HIDE DEF act, arch
  <2>2. QED
    BY <1>1, <2>1
<1>3. \A t \in Tasks : /\ disk.active[t] = IF t \in Existing THEN Listing(t) ELSE Nothing
                       /\ disk.archive[t] = Nothing
  BY <1>2
<1>4. TypeOK
  <2>1. ProcsTyped
    BY NoJobTyped DEF Init, ProcsTyped
  <2>2. said \in [Tasks -> Record]
    BY ListingIsRecord DEF Init
  <2>3. /\ queue \in [Procs -> Seq(Tasks)] /\ moved \in [Procs -> SUBSET Tasks]
        /\ raced \subseteq Tasks /\ ruffled \subseteq Procs
        /\ ops \in 0 .. MaxOps /\ kills \in 0 .. MaxKills
    BY TaskAssumption DEF Init
  <2>4. QED
    BY <1>2, <2>1, <2>2, <2>3, TypeParts
<1> HIDE DEF act, arch
<1>5. \A t \in Tasks : Begun(t) <=> t \in Existing
  BY <1>2, <1>3, BegunMeans, ListingIsRecord, RecordIsContent, Distinct
<1>6. CreatedByOne /\ \A p \in Procs : pc[p] = "idle" /\ JobSound(p) /\ ResultLists(p)
  BY NoJobTyped DEF Init, CreatedByOne, JobSound, ResultLists, Owns, BusyAt
<1>7. ListedSubtasksExist
  <2> SUFFICES ASSUME NEW r \in {"active", "archive"}, NEW t \in Tasks,
                      disk[r][t] \notin NoRecord, NEW c \in disk[r][t].subtasks
               PROVE  Begun(c)
    BY <1>2 DEF ListedSubtasksExist
  <2>1. disk[r][t] = Listing(t)
    BY <1>3, Distinct
  <2>2. c \in Existing
    BY <2>1, ListingIsRecord
  <2>3. QED
    BY <1>5, <2>2, TaskAssumption
<1>8. QED
  BY <1>3, <1>4, <1>5, <1>6, <1>7 DEF ListInv

LEMMA ListStutters == ASSUME ListInv, UNCHANGED vars PROVE ListInv'
<1>1. TypeOK'
  BY DEF vars, ListInv, TypeOK, JobTyped, RunTyped
<1>2. QED
  BY <1>1 DEF vars, ListInv, CreatedByOne, JobSound, ResultLists, Result, Owns, Begun,
              ListedSubtasksExist

\* No step of any process makes a task file name a subtask whose task.yml was never begun:
\* not of Create and Link in either order of their parts, of archiving in between, of a
\* kill (CreateTask, appendSubtask).
THEOREM SubtasksExist == Spec => []ListedSubtasksExist
<1>1. Init => ListInv
  BY ListInit
<1>2. ListInv /\ [Next]_vars => ListInv'
  BY ListStep, ListStutters DEF Next
<1>3. ListInv => ListedSubtasksExist
  BY DEF ListInv
<1>4. QED
  BY <1>1, <1>2, <1>3, PTL DEF Spec

\* The task files, the processes and what they hold stay what they are declared to be.
THEOREM StoreTyped == Spec => []TypeOK
<1>1. Init => ListInv
  BY ListInit
<1>2. ListInv /\ [Next]_vars => ListInv'
  BY ListStep, ListStutters DEF Next
<1>3. ListInv => TypeOK
  BY DEF ListInv
<1>4. QED
  BY <1>1, <1>2, <1>3, PTL DEF Spec

-----------------------------------------------------------------------------
(* Changes are kept.                                                       *)

\* Only a write sets a field, and a process that takes a record or makes a new one
\* notes whoever has the task's record in its hands.
TakesNote(p) ==
    \/ \A q \in Procs : Owns(q)' => Owns(q) /\ job'[q].task = job[q].task
    \/ /\ Owns(p)' /\ job'[p].task \in Tasks
       /\ Rewriting(job'[p].task) # {} => job'[p].task \in raced'
       /\ \/ \A q \in Procs : job[q].child # job'[p].task
          \/ disk.active[job'[p].task] \in Record

LEMMA NoteSteps ==
    ASSUME ListInv, NEW p \in Procs, Step(p)
    PROVE  TakesNote(p)
<1>0. ProcsTyped /\ TypeOK
  BY TypeParts DEF ListInv
<1>1. ASSUME NEW j, NEW step, TakesRecord(p, j, step) PROVE TakesNote(p)
  <2>1. /\ pc'[p] = step /\ job'[p] = j
        /\ raced' = IF Rewriting(j.task) = {} THEN raced ELSE raced \cup {j.task}
    BY <1>0, <1>1, RewriteSteps DEF TakesRecord, Holds
  <2>2. Holds(j) /\ step \in {"open", "merging"}
    BY <1>1 DEF TakesRecord
  <2>3. QED
    BY <2>1, <2>2 DEF TakesNote, Holds, Owns, BusyAt
<1>2. ASSUME NEW j, TakesNew(p, j) PROVE TakesNote(p)
  <2>1. /\ pc'[p] = "mkdir" /\ job'[p] = j
        /\ raced' = IF Rewriting(j.task) = {} THEN raced ELSE raced \cup {j.task}
    BY <1>0, <1>2, RewriteSteps DEF TakesNew
  <2>2. QED
    BY <1>2, <2>1 DEF TakesNote, TakesNew, Owns, BusyAt
<1>3. ASSUME \A q \in Procs \ {p} : pc'[q] = pc[q] /\ SameJob(q),
             Owns(p)' => Owns(p) /\ SameJob(p)
      PROVE  TakesNote(p)
  BY <1>3 DEF TakesNote, Owns, SameJob
<1>4. CASE Rests(p) \/ MakesArchive(p)
  BY <1>3, <1>4 DEF Rests, MakesArchive, OthersStay, SameJob, Owns, BusyAt
<1>5. CASE GoesOn(p) \/ MakesDir(p) \/ OpensFile(p)
  <2>1. PICK step \in {"open", "write"} : Goto(p, step) /\ Owns(p)
    BY <1>5 DEF GoesOn, MakesDir, OpensFile, Owns, BusyAt
  <2>2. OthersStay(p) /\ job'[p] = job[p]
    BY <1>0, <2>1, GotoSteps
  <2>3. QED
    BY <1>3, <2>1, <2>2 DEF OthersStay, SameJob
<1>6. CASE Write(p)
  <2>1. OthersStay(p) /\ pc'[p] = job[p].then
    BY <1>6, WriteSteps
  <2>2. pc'[p] \notin BusyAt
    BY <1>0, <2>1 DEF ProcsTyped, JobTyped, BusyAt
  <2>3. QED
    BY <1>3, <2>1, <2>2 DEF OthersStay, SameJob, Owns
<1>7. CASE MovesOn(p)
  BY <1>0, <1>3, <1>7 DEF MovesOn, SameJob, Owns
<1>8. QED
  BY <1>1, <1>2, <1>4, <1>5, <1>6, <1>7, Kinds

LEMMA AloneStep ==
    ASSUME KeptInv, NEW p \in Procs, Step(p)
    PROVE  OneOwnsEach'
<1>0. ListInv /\ OneOwnsEach
  BY DEF KeptInv
<1>1. raced \subseteq raced' /\ TakesNote(p) /\ ProcsMove(p)
  BY <1>0, SaidSteps, NoteSteps, ProcSteps
<1>2. CASE \A q \in Procs : Owns(q)' => Owns(q) /\ job'[q].task = job[q].task
  BY <1>0, <1>1, <1>2 DEF OneOwnsEach
<1>3. CASE /\ Owns(p)' /\ job'[p].task \in Tasks
           /\ Rewriting(job'[p].task) # {} => job'[p].task \in raced'
           /\ \/ \A q \in Procs : job[q].child # job'[p].task
              \/ disk.active[job'[p].task] \in Record
  <2>1. \A q \in Procs \ {p} : pc'[q] = pc[q] /\ job'[q].task = job[q].task
    BY <1>1 DEF ProcsMove, SameJob
  <2>2. ASSUME NEW q \in Procs \ {p}, Owns(q), job[q].task = job'[p].task
        PROVE  job'[p].task \in raced'
    <3>1. JobSound(q)
      BY <1>0 DEF ListInv
    <3>2. CASE pc[q] = "mkdir"
      <4>1. job[q].child = job[q].task /\ ~Begun(job[q].task)
        BY <3>1, <3>2 DEF JobSound
      <4>2. disk.active[job'[p].task] \notin Record
        <5>1. disk.active[job'[p].task] \in {Nothing, Bare}
          BY <1>0, <1>3, <2>2, <4>1, BegunMeans DEF ListInv, TypeOK
        <5>2. QED
          BY <5>1, RecordIsContent
      <4>3. QED
        BY <1>3, <2>2, <4>1, <4>2
    <3>3. CASE pc[q] \in {"open", "write", "merging"}
      BY <1>3, <2>2, <3>3 DEF Rewriting
    <3>4. QED
      BY <2>2, <3>2, <3>3 DEF Owns, BusyAt
  <2>3. \A q \in Procs \ {p} : Owns(q)' <=> Owns(q)
    BY <2>1 DEF Owns
  <2>4. QED
    BY <1>0, <1>1, <2>1, <2>2, <2>3 DEF OneOwnsEach
<1>4. QED
  BY <1>1, <1>2, <1>3 DEF TakesNote

\* An open file moves to the archive with its task's directory; a record taken is the
\* active one.
RootMoves(p) ==
    /\ \A q \in Procs \ {p} : \/ job'[q].root = job[q].root
                              \/ pc[q] = "write" /\ disk'.active[job[q].task] = Nothing
    /\ Owns(p)' => \/ job'[p].root = "active"
                   \/ Owns(p) /\ pc[p] # "write" /\ job'[p].root = job[p].root

LEMMA RootSteps ==
    ASSUME ListInv, NEW p \in Procs, Step(p)
    PROVE  RootMoves(p)
<1>0. ProcsTyped /\ TypeOK
  BY TypeParts DEF ListInv
<1>1. ASSUME NEW j, NEW step, TakesRecord(p, j, step) PROVE RootMoves(p)
  <2>1. OthersStay(p) /\ job'[p] = j
    BY <1>0, <1>1, RewriteSteps DEF TakesRecord, Holds
  <2>2. QED
    BY <1>1, <2>1 DEF RootMoves, OthersStay, TakesRecord, Holds
<1>2. ASSUME NEW j, TakesNew(p, j) PROVE RootMoves(p)
  <2>1. OthersStay(p) /\ job'[p] = j
    BY <1>0, <1>2, RewriteSteps DEF TakesNew
  <2>2. QED
    BY <1>2, <2>1 DEF RootMoves, OthersStay, TakesNew
<1>3. CASE Rests(p) \/ MakesArchive(p)
  BY <1>3 DEF RootMoves, Rests, MakesArchive, OthersStay, Owns, BusyAt
<1>4. CASE GoesOn(p) \/ MakesDir(p) \/ OpensFile(p)
  <2>1. PICK step \in {"open", "write"} : Goto(p, step) /\ Owns(p) /\ pc[p] # "write"
    BY <1>4 DEF GoesOn, MakesDir, OpensFile, Owns, BusyAt
  <2>2. OthersStay(p) /\ job'[p] = job[p]
    BY <1>0, <2>1, GotoSteps
  <2>3. QED
    BY <2>1, <2>2 DEF OthersStay, RootMoves
<1>5. CASE Write(p)
  <2>1. OthersStay(p) /\ pc'[p] = job[p].then
    BY <1>5, WriteSteps
  <2>2. pc'[p] \notin BusyAt
    BY <1>0, <2>1 DEF ProcsTyped, JobTyped, BusyAt
  <2>3. QED
    BY <2>1, <2>2 DEF OthersStay, RootMoves, Owns
<1>6. CASE MovesOn(p)
  <2>1. PICK t \in Tasks :
          /\ Rename(t)
          /\ job' = [q \in Procs |-> IF pc[q] = "write" /\ job[q].task \in Below(t)
                                     THEN [job[q] EXCEPT !.root = "archive"] ELSE job[q]]
    BY <1>6 DEF MovesOn
  <2>2. \A d \in Below(t) : disk'.active[d] = Nothing
    BY <2>1 DEF Rename, Below
  <2>3. ASSUME NEW q \in Procs \ {p}
        PROVE  \/ job'[q].root = job[q].root
               \/ pc[q] = "write" /\ disk'.active[job[q].task] = Nothing
    BY <2>1, <2>2
  <2>4. ~Owns(p)'
    BY <1>6 DEF MovesOn, Owns, BusyAt
  <2>5. QED
    BY <2>3, <2>4 DEF RootMoves
<1>7. QED
  BY <1>1, <1>2, <1>3, <1>4, <1>5, <1>6, Kinds

LEMMA ResultStep ==
    ASSUME KeptInv, NEW p \in Procs, Step(p)
    PROVE  \A q \in Procs : ResultCurrent(q)'
<1>0. /\ ListInv /\ OneOwnsEach /\ ChangesKept /\ NotBegunListsNothing /\ TypeOK
      /\ \A q \in Procs : ResultCurrent(q) /\ JobSound(q)
  BY DEF KeptInv, ListInv
<1>1. /\ raced \subseteq raced' /\ ProcsMove(p) /\ RootMoves(p) /\ CurrentMoves(p)
      /\ \/ said' = said
         \/ /\ pc[p] = "write"
            /\ said' = [said EXCEPT ![job[p].task] = Told(@, job[p].told)]
  BY <1>0, SaidSteps, ProcSteps, RootSteps, DiskSteps
<1>2. ASSUME NEW q \in Procs \ {p} PROVE ResultCurrent(q)'
  <2>1. pc'[q] = pc[q] /\ SameJob(q)
    BY <1>1 DEF ProcsMove
  <2> SUFFICES ASSUME Owns(q)', job'[q].task \notin raced'
               PROVE  /\ Result(q)' = Told(said'[job'[q].task], job'[q].told)
                      /\ pc'[q] = "write" /\ job'[q].root = "archive" =>
                            disk'.active[job'[q].task] \in {Nothing, Bare}
                      /\ pc'[q] # "write" => job'[q].root = "active"
    BY DEF ResultCurrent
  <2>2. PICK t : t = job[q].task /\ t = job'[q].task
    BY <2>1 DEF SameJob
  <2>3. Owns(q) /\ t \notin raced /\ t \in Tasks /\ Result(q)' = Result(q)
    BY <1>0, <1>1, <2>1, <2>2 DEF Owns, SameJob, Result, JobSound
  <2>4. ~(pc[p] \in {"open", "write"} /\ job[p].task = t)
    BY <1>0, <2>2, <2>3 DEF OneOwnsEach, Owns, BusyAt
  <2>5. said'[t] = said[t]
    BY <1>0, <1>1, <2>3, <2>4 DEF TypeOK
  <2>6. Result(q) = Told(said[t], job[q].told)
    BY <1>0, <2>2, <2>3 DEF ResultCurrent
  <2>7. pc'[q] # "write" => job'[q].root = "active"
    BY <1>0, <1>1, <2>1, <2>2, <2>3 DEF ResultCurrent, RootMoves
  <2>8. ASSUME pc'[q] = "write", job'[q].root = "archive"
        PROVE  disk'.active[t] \in {Nothing, Bare}
    <3>1. CASE job[q].root = "archive"
      <4>1. disk.active[t] \in {Nothing, Bare}
        BY <1>0, <2>1, <2>2, <2>3, <2>8, <3>1 DEF ResultCurrent
      <4>2. QED
        BY <1>1, <2>3, <2>4, <4>1 DEF CurrentMoves
    <3>2. QED
      BY <1>1, <2>2, <2>8, <3>1 DEF RootMoves
  <2>9. QED
    BY <2>1, <2>2, <2>3, <2>5, <2>6, <2>7, <2>8 DEF SameJob
<1>3. ResultCurrent(p)'
  <2> SUFFICES ASSUME Owns(p)', job'[p].task \notin raced'
               PROVE  /\ Result(p)' = Told(said'[job'[p].task], job'[p].told)
                      /\ pc'[p] = "write" /\ job'[p].root = "archive" =>
                            disk'.active[job'[p].task] \in {Nothing, Bare}
                      /\ pc'[p] # "write" => job'[p].root = "active"
    BY DEF ResultCurrent
  <2>1. ASSUME NEW j, Holds(j), job'[p] = j, pc'[p] \in {"open", "merging"}, UNCHANGED said
        PROVE  Result(p)' = Told(said'[j.task], j.told) /\ job'[p].root = "active"
    <3>1. j.task \in Tasks \ raced /\ disk.active[j.task] \in Record
      BY <1>1, <2>1 DEF Holds
    <3>2. Current(j.task) = disk.active[j.task] /\ Current(j.task) \notin NoRecord
      BY <3>1, RecordIsContent DEF Current
    <3>3. disk.active[j.task] = said[j.task]
      BY <1>0, <3>1, <3>2 DEF ChangesKept
    <3>4. QED
      BY <2>1, <3>3 DEF Holds, Result
  <2>2. ASSUME NEW j, TakesNew(p, j), job'[p] = j, pc'[p] = "mkdir"
        PROVE  Result(p)' = Told(said'[j.task], j.told) /\ job'[p].root = "active"
    <3>1. said[j.task] \in Record /\ said[j.task].subtasks = {} /\ UNCHANGED said
      BY <1>0, <2>2 DEF TakesNew, NotBegunListsNothing, TypeOK
    <3>2. Result(p)' = New /\ j.told = New /\ job'[p].root = "active"
      BY <2>2, NewOverNothing DEF TakesNew, Result
    <3>3. Told(said[j.task], New) = New
      <4>1. New \in Record /\ New.subtasks = {} /\ DOMAIN New = FieldNames /\ PartOf(New)
        BY NewIsRecord, RecordFields, SetParts
      <4>2. /\ Told(said[j.task], New) \in Record
            /\ Told(said[j.task], New).status = New.status
            /\ Told(said[j.task], New).note = New.note
            /\ Told(said[j.task], New).subtasks = {}
        BY <3>1, <4>1, ToldFields DEF FieldNames
      <4>3. QED
        BY <4>1, <4>2, SameFields
    <3>4. QED
      BY <3>1, <3>2, <3>3
  <2>3. ASSUME pc[p] \in {"merging", "mkdir", "open"}, SameJob(p), UNCHANGED said
        PROVE  Result(p)' = Told(said'[job'[p].task], job'[p].told) /\ job'[p].root = "active"
    <3>1. Owns(p) /\ job[p].task \notin raced /\ pc[p] # "write"
      BY <1>1, <2>3 DEF Owns, BusyAt, SameJob
    <3>2. Result(p) = Told(said[job[p].task], job[p].told) /\ job[p].root = "active"
      BY <1>0, <3>1 DEF ResultCurrent
    <3>3. job'[p].root = "active"
      BY <1>1, <3>2 DEF RootMoves
    <3>4. QED
      BY <2>3, <3>2, <3>3 DEF SameJob, Result
  <2>4. QED
    BY <1>1, <2>1, <2>2, <2>3 DEF ProcsMove, Owns
<1>4. QED
  BY <1>2, <1>3

LEMMA KeptStep ==
    ASSUME KeptInv, NEW p \in Procs, Step(p)
    PROVE  KeptInv'
<1>0. /\ ListInv /\ ChangesKept /\ NotBegunListsNothing /\ TypeOK
      /\ JobSound(p) /\ ResultCurrent(p)
  BY DEF KeptInv, ListInv
<1>1. /\ DiskMoves(p) /\ CurrentMoves(p) /\ raced \subseteq raced'
      /\ \/ said' = said
         \/ /\ pc[p] = "write"
            /\ said' = [said EXCEPT ![job[p].task] = Told(@, job[p].told)]
  BY <1>0, SaidSteps, DiskSteps
<1>2. NotBegunListsNothing'
  <2> SUFFICES ASSUME NEW t \in Tasks, ~Begun(t)' PROVE said'[t].subtasks = {}
    BY DEF NotBegunListsNothing
  <2>1. ~Begun(t) /\ said[t].subtasks = {}
    BY <1>0, <1>1 DEF DiskMoves, NotBegunListsNothing
  <2>2. ~(pc[p] = "write" /\ job[p].task = t)
    BY <1>0, <2>1 DEF JobSound
  <2>3. QED
    BY <1>0, <1>1, <2>1, <2>2 DEF TypeOK
<1>3. ChangesKept'
  <2> SUFFICES ASSUME NEW t \in Tasks, t \notin raced', Current(t)' \notin NoRecord
               PROVE  Current(t)' = said'[t]
    BY DEF ChangesKept
  <2>1. CASE ~(pc[p] = "write" /\ t = job[p].task)
    BY <1>0, <1>1, <2>1 DEF CurrentMoves, ChangesKept, TypeOK
  <2>2. CASE pc[p] = "write" /\ t = job[p].task
    <3>1. CASE UNCHANGED <<disk, said>>
      BY <1>0, <1>1, <3>1 DEF ChangesKept, Current
    <3>2. CASE Write(p)
      <4>1. Owns(p) /\ t \notin raced
        BY <1>1, <2>2 DEF Owns, BusyAt
      <4>2. /\ Result(p) = Told(said[t], job[p].told) /\ Result(p) \in Record
            /\ job[p].root = "archive" => disk.active[t] \in {Nothing, Bare}
        BY <1>0, <2>2, <4>1 DEF ResultCurrent, JobSound
      <4>3. said'[t] = Result(p)
        BY <1>0, <2>2, <3>2, <4>2 DEF Write, TypeOK
      <4>4. PICK new \in {Garbled, Result(p)} :
               disk' = [disk EXCEPT ![job[p].root][job[p].task] = new]
        BY <3>2 DEF Write, Written, Result
      <4>5. new \notin {Nothing, Bare}
        BY <4>2, <4>4, Distinct, RecordIsContent
      <4>6. /\ job[p].root \in {"active", "archive"}
            /\ \A r \in {"active", "archive"} :
                  disk'[r][t] = IF r = job[p].root THEN new ELSE disk[r][t]
        BY <1>0, <2>2, <4>4 DEF TypeOK, JobTyped
      <4>7. Current(t)' = new
        BY <4>2, <4>5, <4>6 DEF Current
      <4>8. QED
        BY <4>3, <4>4, <4>7 DEF NoRecord
    <3>3. QED
      BY <1>0, <2>2, <3>1, <3>2, Kinds
         DEF Rests, TakesRecord, TakesNew, GoesOn, MakesDir, OpensFile, MovesOn, MakesArchive
  <2>3. QED
    BY <2>1, <2>2
<1>4. QED
  BY <1>0, <1>2, <1>3, ListStep, AloneStep, ResultStep DEF KeptInv

LEMMA KeptInit == ASSUME Init PROVE KeptInv
<1>1. ListInv /\ \A p \in Procs : ~Owns(p)
  BY ListInit DEF Owns, BusyAt
<1>2. \A t \in Tasks : said[t] = Listing(t)
  BY DEF Init
<1>3. NotBegunListsNothing
  <2> SUFFICES ASSUME NEW t \in Tasks, ~Begun(t) PROVE Listing(t).subtasks = {}
    BY <1>2 DEF NotBegunListsNothing
  <2>1. t \notin Existing /\ t # Root
    BY ListInit, TaskAssumption
  <2>2. QED
    BY <2>1, ListingIsRecord, TaskAssumption
<1>4. ChangesKept
  <2> SUFFICES ASSUME NEW t \in Tasks, Current(t) \notin NoRecord PROVE Current(t) = said[t]
    BY DEF ChangesKept
  <2>1. disk.archive[t] = Nothing
    BY ListInit
  <2>2. t \in Existing
    BY <2>1, ListInit, Distinct DEF Current
  <2>3. disk.active[t] = Listing(t) /\ Listing(t) \in Record
    BY <2>2, ListInit, ListingIsRecord
  <2>4. QED
    BY <1>2, <2>3, RecordIsContent DEF Current
<1>5. QED
  BY <1>1, <1>3, <1>4 DEF KeptInv, OneOwnsEach, ResultCurrent

LEMMA KeptStutters == ASSUME KeptInv, UNCHANGED vars PROVE KeptInv'
<1>1. ListInv'
  BY ListStutters DEF KeptInv
<1>2. QED
  BY <1>1 DEF KeptInv, vars, OneOwnsEach, NotBegunListsNothing, ResultCurrent, ChangesKept, Owns, Begun,
              Result, Current

\* The fields of a task that no two processes rewrote at the same time are those the
\* operations set, each the last one, however the reads, opens and writes of the others'
\* changes, the archive and kills come in between (UpdateTask, appendSubtask, MergeTask,
\* applyCommandTaskMetadata).
THEOREM NoChangeIsLost == Spec => []ChangesKept
<1>1. Init => KeptInv
  BY KeptInit
<1>2. KeptInv /\ [Next]_vars => KeptInv'
  BY KeptStep, KeptStutters DEF Next
<1>3. KeptInv => ChangesKept
  BY DEF KeptInv
<1>4. QED
  BY <1>1, <1>2, <1>3, PTL DEF Spec

-----------------------------------------------------------------------------
(* An archive moves everything it chose.                                   *)

\* Nothing of the task's is in the archive, and its directory can be moved there.
Clear(t) == disk.active[t] # Nothing /\ \A d \in Below(t) : disk.archive[d] = Nothing

\* What an undisturbed process has still to move can be moved, or has been moved along
\* with what it is nested in; shorter paths come first.
WayIsClear(p) ==
    pc[p] = "moving" /\ p \notin ruffled =>
        \A i \in DOMAIN queue[p] :
            Clear(queue[p][i]) \/ \E m \in moved[p] : Nested(queue[p][i], m)

ShorterFirst(p) ==
    pc[p] = "moving" =>
        \A i, j \in DOMAIN queue[p] : i < j => PathLength(queue[p][i]) <= PathLength(queue[p][j])

\* What a process was to move is in the tree or in the archive.
ChosenExist(p) ==
    pc[p] = "moving" =>
        \A i \in DOMAIN queue[p] :
            disk.active[queue[p][i]] # Nothing \/ disk.archive[queue[p][i]] # Nothing

\* A process holds open a file that is there; before that it means the active one.
OpenFileThere(p) ==
    /\ pc[p] = "write" => disk[job[p].root][job[p].task] # Nothing
    /\ pc[p] \in {"mkdir", "open", "merging"} => job[p].root = "active"

Archives(p) == WayIsClear(p) /\ ShorterFirst(p) /\ ChosenExist(p) /\ OpenFileThere(p)

ArchiveInv == ListInv /\ \A p \in Procs : Archives(p)

-----------------------------------------------------------------------------
(* The tree.                                                               *)

LEMMA PathBasics ==
    ASSUME NEW t \in Tasks
    PROVE  /\ Path[t] \subseteq Tasks /\ t \in Path[t]
           /\ \A S \in SUBSET Tasks :
                 t \in S /\ (\A x \in S : Up(x) \subseteq S) => Path[t] \subseteq S
           /\ \A m \in Path[t] : Up(m) \subseteq Path[t]
<1>1. Path[t] = {m \in Tasks : \A S \in SUBSET Tasks :
                    t \in S /\ (\A x \in S : Up(x) \subseteq S) => m \in S}
  BY DEF Path
<1>2. \A m \in Tasks : Up(m) \subseteq Tasks
  BY TaskAssumption DEF Up
<1>3. QED
  BY <1>1, <1>2

LEMMA PathTransitive ==
    ASSUME NEW t \in Tasks, NEW m \in Path[t]
    PROVE  Path[m] \subseteq Path[t]
  BY PathBasics

\* A path goes on with the path of the parent.
LEMMA PathGoesOn ==
    ASSUME NEW t \in Tasks, NEW m \in Path[t], m # t
    PROVE  \E u \in Up(t) : u \in Tasks /\ m \in Path[u]
<1> DEFINE S == {t} \cup {x \in Tasks : \E u \in Up(t) : u \in Tasks /\ x \in Path[u]}
<1>1. S \in SUBSET Tasks /\ t \in S
  OBVIOUS
<1>2. Up(t) \subseteq S
  BY PathBasics, TaskAssumption DEF Up
<1>3. \A x \in S \ {t} : Up(x) \subseteq S
  BY PathBasics
<1>4. m \in S
  <2> HIDE DEF S
  <2>1. \A x \in S : Up(x) \subseteq S
    BY <1>2, <1>3
  <2>2. QED
    BY <1>1, <2>1, PathBasics
<1>5. QED
  BY <1>4

LEMMA PathAntisymmetric ==
    ASSUME NEW t \in Tasks, NEW m \in Path[t], t \in Path[m]
    PROVE  t = m
<1> SUFFICES ASSUME t # m PROVE FALSE
  OBVIOUS
<1>1. m \in Tasks
  BY PathBasics
<1>2. PICK u \in Up(t) : u \in Tasks /\ m \in Path[u]
  BY PathGoesOn
<1>3. t \in Path[u]
  BY <1>1, <1>2, PathTransitive
<1>4. QED
  BY <1>2, <1>3, TreeAssumption

\* Of two tasks above a third one is above the other.
LEMMA PathIsChain ==
    ASSUME NEW d \in Tasks, NEW t \in Path[d], NEW h \in Path[d]
    PROVE  h \in Path[t] \/ t \in Path[h]
<1>1. t \in Tasks /\ h \in Tasks
  BY PathBasics
<1> DEFINE S == {x \in Tasks : t \in Path[x] \/ x \in Path[t]}
<1>2. d \in S
  OBVIOUS
<1>3. ASSUME NEW x \in S PROVE Up(x) \subseteq S
  <2>1. CASE x \in Path[t]
    BY <1>1, <2>1, PathBasics
  <2>2. CASE t \in Path[x] /\ x # t
    <3>1. PICK u \in Up(x) : u \in Tasks /\ t \in Path[u]
      BY <2>2, PathGoesOn
    <3>2. Up(x) = {u}
      BY <3>1 DEF Up
    <3>3. QED
      BY <3>1, <3>2
  <2>3. QED
    BY <1>1, <2>1, <2>2, PathBasics
<1>4. S \in SUBSET Tasks
  OBVIOUS
<1>5. h \in S
  <2> HIDE DEF S
  <2>1. \A x \in S : Up(x) \subseteq S
    BY <1>3
  <2>2. Path[d] \subseteq S
    BY <1>2, <1>4, <2>1, PathBasics
  <2>3. QED
    BY <2>2
<1>6. QED
  BY <1>5

LEMMA PathShorter ==
    ASSUME NEW t \in Tasks, NEW m \in Path[t], m # t
    PROVE  PathLength(m) < PathLength(t)
<1>1. m \in Tasks /\ Path[t] \subseteq Tasks /\ t \in Path[t]
  BY PathBasics
<1>2. IsFiniteSet(Path[t])
  BY <1>1, FS_Subset, TaskAssumption
<1>3. Path[m] \in SUBSET Path[t] /\ t \notin Path[m]
  BY PathTransitive, PathAntisymmetric
<1>4. /\ IsFiniteSet(Path[m]) /\ Cardinality(Path[m]) <= Cardinality(Path[t])
      /\ Cardinality(Path[m]) # Cardinality(Path[t])
  BY <1>1, <1>2, <1>3, FS_Subset
<1>5. Cardinality(Path[m]) \in Nat /\ Cardinality(Path[t]) \in Nat
  BY <1>2, <1>4, FS_CardinalityType
<1>6. QED
  BY <1>4, <1>5 DEF PathLength

\* A task whose path is not shorter and that is not inside h shares nothing with what
\* is in h or above it.
LEMMA Apart ==
    ASSUME NEW h \in Tasks, NEW t \in Tasks, PathLength(h) <= PathLength(t), ~Nested(t, h)
    PROVE  /\ \A d \in Below(t) : d \notin Below(h)
           /\ \A d \in Below(t) : \A u \in Up(h) : ~Nested(u, d)
<1>1. h \notin Path[t]
  BY DEF Nested
<1>2. PathLength(h) \in Nat /\ PathLength(t) \in Nat
  <2>1. Path[h] \subseteq Tasks /\ Path[t] \subseteq Tasks
    BY PathBasics
  <2>2. QED
    BY <2>1, FS_Subset, FS_CardinalityType, TaskAssumption DEF PathLength
<1>3. t \notin Path[h]
  <2>1. ASSUME t \in Path[h] PROVE FALSE
    <3>1. t # h
      BY <1>1, PathBasics
    <3>2. QED
      BY <1>2, <2>1, <3>1, PathShorter
  <2>2. QED
    BY <2>1
<1>4. ASSUME NEW d \in Below(t), d \in Below(h) PROVE FALSE
  BY <1>1, <1>3, <1>4, PathIsChain DEF Below, Nested
<1>5. ASSUME NEW d \in Below(t), NEW u \in Up(h), d \in Path[u] PROVE FALSE
  <2>1. u \in Tasks /\ u \in Path[h]
    BY TaskAssumption, PathBasics DEF Up
  <2>2. d \in Path[h] /\ d \in Tasks /\ t \in Path[d]
    BY <1>5, <2>1, PathTransitive DEF Below, Nested
  <2>3. QED
    BY <1>3, <2>2, PathTransitive
<1>6. QED
  BY <1>4, <1>5 DEF Nested

-----------------------------------------------------------------------------
(* What the steps do to an archive under way.                              *)

\* Only Archive makes a process move directories, and only Move keeps it at that.
LEMMA MovingSteps ==
    ASSUME ListInv, NEW p \in Procs, Step(p), ~Archive(p), ~Move(p)
    PROVE  pc'[p] # "moving"
<1>0. ProcsTyped /\ JobTyped(job[p])
  BY TypeParts DEF ListInv, ProcsTyped
<1>g. ASSUME NEW step, step # "moving", Goto(p, step) \/ \E j : Rewrite(p, j, step)
      PROVE  pc'[p] # "moving"
  BY <1>0, <1>g DEF Goto, Rewrite, ProcsTyped
<1>s. ASSUME NEW s, NEW next, next # "moving", SetStatus(p, s, next) PROVE pc'[p] # "moving"
  BY <1>g, <1>s DEF SetStatus
<1>1. CASE Update(p)
  <2>1. CASE UNCHANGED pc
    BY <1>1, <2>1 DEF Update, Free
  <2>2. CASE \E j : Rewrite(p, j, "open")
    BY <1>g, <2>2
  <2>3. QED
    BY <1>1, <2>1, <2>2 DEF Update
<1>2. CASE Create(p)
  BY <1>g, <1>2 DEF Create
<1>3. CASE MakeDir(p)
  BY <1>g, <1>3 DEF MakeDir
<1>4. CASE Link(p)
  BY <1>g, <1>4, FailedRests DEF Link
<1>5. CASE MergeTask(p)
  BY <1>g, <1>5 DEF MergeTask
<1>6. CASE MergeBranches(p)
  BY <1>g, <1>6, FailedRests DEF MergeBranches
<1>7. CASE Open(p)
  BY <1>g, <1>7, FailedRests DEF Open
<1>8. CASE Write(p)
  BY <1>0, <1>8, WriteSteps DEF JobTyped
<1>9. CASE RunTask(p)
  BY <1>0, <1>9 DEF RunTask, ProcsTyped
<1>10. CASE MarkRunning(p)
  BY <1>s, <1>10 DEF MarkRunning
<1>11. CASE SessionEnds(p)
  BY <1>g, <1>11 DEF SessionEnds
<1>12. CASE ApplyMetadata(p)
  BY <1>g, <1>12 DEF ApplyMetadata
<1>13. CASE FinalStatus(p)
  BY <1>g, <1>s, <1>13 DEF FinalStatus
<1>14. CASE MoveEnds(p) \/ Kill(p)
  BY <1>g, <1>14 DEF MoveEnds, Kill, Leave
<1>15. QED
  BY <1>1, <1>2, <1>3, <1>4, <1>5, <1>6, <1>7, <1>8, <1>9, <1>10, <1>11, <1>12, <1>13, <1>14 DEF Step

\* The others stay undisturbed only where the step says so.
LEMMA ArchivingSteps ==
    ASSUME ListInv, NEW p \in Procs, Step(p)
    PROVE  /\ \A q \in Procs \ {p} : queue'[q] = queue[q] /\ moved'[q] = moved[q]
           /\ \A q \in Procs \ {p} : q \in ruffled => q \in ruffled'
<1>0. queue \in [Procs -> Seq(Tasks)] /\ moved \in [Procs -> SUBSET Tasks]
  BY DEF ListInv, TypeOK
<1>1. ASSUME Leave(p)
      PROVE  \A q \in Procs \ {p} : queue'[q] = queue[q] /\ moved'[q] = moved[q]
  BY <1>0, <1>1 DEF Leave
<1>2. CASE Update(p) \/ Create(p) \/ MergeTask(p) \/ RunTask(p)
  <2>1. UNCHANGED archiving
    <3>1. ASSUME Update(p) PROVE UNCHANGED archiving
      BY <3>1 DEF Update, archiving
    <3>2. ASSUME RunTask(p) PROVE UNCHANGED archiving
      BY <3>2 DEF RunTask, archiving
    <3>3. ASSUME Create(p) PROVE UNCHANGED archiving
      BY <3>3 DEF Create, archiving
    <3>4. ASSUME MergeTask(p) PROVE UNCHANGED archiving
      BY <3>4 DEF MergeTask, archiving
    <3>5. QED
      BY <1>2, <3>1, <3>2, <3>3, <3>4
  <2>2. QED
    BY <2>1 DEF archiving
<1>3. CASE Link(p) \/ MergeBranches(p) \/ Open(p) \/ Write(p)
  BY <1>3 DEF Link, MergeBranches, Open, Write, archiving
<1>4. CASE MarkRunning(p) \/ SessionEnds(p) \/ ApplyMetadata(p) \/ FinalStatus(p)
  BY <1>4 DEF MarkRunning, SessionEnds, ApplyMetadata, FinalStatus, archiving
<1>5. CASE MakeDir(p)
  BY <1>5 DEF MakeDir
<1>6. CASE Archive(p)
  BY <1>0, <1>6 DEF Archive
<1>7. CASE Move(p)
  BY <1>0, <1>1, <1>7 DEF Move
<1>8. CASE MoveEnds(p) \/ Kill(p)
  BY <1>1, <1>8 DEF MoveEnds, Kill
<1>9. QED
  BY <1>2, <1>3, <1>4, <1>5, <1>6, <1>7, <1>8 DEF Step

\* The kinds of step of a process that is not moving directories.
LEMMA ElsewhereKinds ==
    ASSUME ListInv, NEW p \in Procs, Step(p), ~Move(p)
    PROVE  UNCHANGED disk \/ MakeDir(p) \/ OpensFile(p) \/ Write(p)
<1>1. CASE Update(p) \/ Create(p) \/ MergeTask(p) \/ RunTask(p) \/ Link(p) \/ MergeBranches(p)
  <2>1. ASSUME Update(p) PROVE UNCHANGED disk
    BY <2>1 DEF Update
  <2>2. ASSUME RunTask(p) PROVE UNCHANGED disk
    BY <2>2 DEF RunTask
  <2>3. ASSUME Create(p) PROVE UNCHANGED disk
    BY <2>3 DEF Create
  <2>4. ASSUME MergeTask(p) PROVE UNCHANGED disk
    BY <2>4 DEF MergeTask
  <2>5. ASSUME Link(p) \/ MergeBranches(p) PROVE UNCHANGED disk
    BY <2>5 DEF Link, MergeBranches
  <2>6. QED
    BY <1>1, <2>1, <2>2, <2>3, <2>4, <2>5
<1>2. CASE MarkRunning(p) \/ SessionEnds(p) \/ ApplyMetadata(p) \/ FinalStatus(p)
  BY <1>2 DEF MarkRunning, SessionEnds, ApplyMetadata, FinalStatus
<1>3. CASE Archive(p) \/ MoveEnds(p) \/ Kill(p)
  BY <1>3 DEF Archive, MoveEnds, Kill
<1>4. CASE Open(p)
  BY <1>4, OpenKind DEF Rests
<1>5. QED
  BY <1>1, <1>2, <1>3, <1>4 DEF Step

\* What a rename does to the two trees.
LEMMA Renamed ==
    ASSUME TypeOK, NEW m \in Tasks, Rename(m)
    PROVE  \A t \in Tasks :
              /\ disk'.active[t] = IF t \in Below(m) THEN Nothing ELSE disk.active[t]
              /\ t \in Below(m) => disk'.archive[t] = disk.active[t]
              /\ t \notin Below(m) /\ disk.archive[t] # Nothing =>
                    disk'.archive[t] = disk.archive[t]
              /\ t \notin Below(m) /\ disk.archive[t] = Nothing =>
                    disk'.archive[t] = IF \E u \in Up(m) : Nested(u, t) THEN Bare ELSE Nothing
<1> DEFINE up == MkdirAll(disk.archive, Up(m))
           act == [d \in Tasks |-> IF d \in Below(m) THEN Nothing ELSE disk.active[d]]
           arch == [d \in Tasks |-> IF d \in Below(m) THEN disk.active[d] ELSE up[d]]
<1>1. disk'.active = act /\ disk'.archive = arch
  BY DEF Rename
<1>2. \A t \in Tasks : up[t] = IF disk.archive[t] = Nothing /\ \E u \in Up(m) : Nested(u, t)
                               THEN Bare ELSE disk.archive[t]
  BY DEF MkdirAll
<1> HIDE DEF up
<1>3. QED
  BY <1>1, <1>2

\* Nothing that is there goes away: it is only moved to the archive.
LEMMA ThereStays ==
    ASSUME ListInv, NEW p \in Procs, OpenFileThere(p), Step(p), NEW t \in Tasks
    PROVE  /\ disk.archive[t] # Nothing => disk'.archive[t] # Nothing
           /\ disk.active[t] # Nothing => disk'.active[t] # Nothing \/ disk'.archive[t] # Nothing
           /\ ~MovesOn(p) => (disk.active[t] # Nothing => disk'.active[t] # Nothing)
<1>0. /\ disk \in [{"active", "archive"} -> [Tasks -> Content]] /\ TypeOK
      /\ disk.active \in [Tasks -> Content] /\ disk.archive \in [Tasks -> Content]
      /\ JobSound(p) /\ job[p].root \in {"active", "archive"}
  BY DEF ListInv, TypeOK, JobTyped
<1>1. CASE UNCHANGED disk
  BY <1>1
<1>2. CASE MakesDir(p) \/ MakesArchive(p)
  <2>0. PICK r \in {"active", "archive"} :
           \E made : disk' = [disk EXCEPT ![r] = MkdirAll(@, made)]
    BY <1>0, <1>2 DEF MakesDir, MakesArchive
  <2>1. PICK made : disk' = [disk EXCEPT ![r] = MkdirAll(@, made)]
    BY <2>0
  <2> DEFINE up == MkdirAll(disk[r], made)
  <2>2. disk[r] \in [Tasks -> Content]
    BY <1>0
  <2>3. up[t] = disk[r][t] \/ (disk[r][t] = Nothing /\ up[t] = Bare)
    BY <2>2, MkdirTyped
  <2>4. disk' = [disk EXCEPT ![r] = up]
    BY <2>1
  <2> HIDE DEF up
  <2>5. QED
    BY <1>0, <2>3, <2>4, Distinct
<1>3. CASE OpensFile(p)
  BY <1>0, <1>3, Distinct DEF OpensFile
<1>4. CASE Write(p)
  <2>1. PICK new \in Written(disk[job[p].root][job[p].task], Result(p)) :
           disk' = [disk EXCEPT ![job[p].root][job[p].task] = new]
    BY <1>4 DEF Write, Result
  <2>2. new # Nothing
    BY <1>0, <1>4, <2>1, Distinct, RecordIsContent DEF Written, Write, JobSound, Owns, BusyAt
  <2>3. QED
    BY <1>0, <2>1, <2>2
<1>5. CASE MovesOn(p)
  <2>1. PICK m \in Tasks : CanRename(m) /\ Rename(m)
    BY <1>5 DEF MovesOn
  <2>2. /\ disk.active[m] # Nothing
        /\ t \in Below(m) /\ t # m => disk.archive[t] = Nothing
    BY <2>1 DEF CanRename
  <2>3. QED
    BY <1>0, <1>5, <2>1, <2>2, Renamed, Distinct
<1>6. QED
  BY <1>1, <1>2, <1>3, <1>4, <1>5, Kinds DEF Rests, TakesRecord, TakesNew, GoesOn

\* A directory stays clear when no rename of another process comes in its way.
LEMMA ClearStays ==
    ASSUME ListInv, NEW p \in Procs, OpenFileThere(p), Step(p), ~Move(p),
           NEW t \in Tasks, Clear(t)
    PROVE  Clear(t)'
<1>0. /\ disk \in [{"active", "archive"} -> [Tasks -> Content]]
      /\ job[p].root \in {"active", "archive"} /\ Below(t) \subseteq Tasks
  BY DEF ListInv, TypeOK, JobTyped, Below
<1>1. disk'.active[t] # Nothing
  <2>1. ~MovesOn(p) \/ UNCHANGED disk
    BY ElsewhereKinds DEF MovesOn, MakeDir, OpensFile, Write
  <2>2. QED
    BY <2>1, ThereStays DEF Clear
<1>2. ASSUME NEW d \in Below(t) PROVE disk'.archive[d] = Nothing
  <2>1. disk.archive[d] = Nothing /\ d \in Tasks
    BY <1>0 DEF Clear
  <2>2. CASE UNCHANGED disk
    BY <2>1, <2>2
  <2>3. CASE MakeDir(p) \/ OpensFile(p)
    BY <1>0, <2>1, <2>3 DEF MakeDir, OpensFile
  <2>4. CASE Write(p)
    <3>1. job[p].root = "archive" => job[p].task # d
      BY <2>1, <2>4 DEF OpenFileThere, Write
    <3>2. PICK new : disk' = [disk EXCEPT ![job[p].root][job[p].task] = new]
      BY <2>4 DEF Write
    <3>3. QED
      BY <1>0, <2>1, <3>1, <3>2
  <2>5. QED
    BY <2>2, <2>3, <2>4, ElsewhereKinds
<1>3. QED
  BY <1>1, <1>2 DEF Clear

\* Where an undisturbed process could move h, it finds nothing in h's way, and a failed
\* move of another process makes only directories above what it tripped over.
LEMMA FailedMoveStaysAbove ==
    ASSUME ListInv, NEW h \in Tasks, ~CanRename(h),
           disk.active[h] # Nothing \/ disk.archive[h] # Nothing,
           disk' = [disk EXCEPT !.archive = MkdirAll(@, Up(h))],
           NEW t \in Tasks, Clear(t)
    PROVE  Clear(t)'
<1>0. /\ disk \in [{"active", "archive"} -> [Tasks -> Content]]
      /\ disk.archive \in [Tasks -> Content] /\ Below(t) \subseteq Tasks
  BY DEF ListInv, TypeOK, Below
<1>1. \E d \in Below(h) : disk.archive[d] # Nothing
  <2>1. h \in Below(h)
    BY PathBasics DEF Below, Nested
  <2>2. QED
    BY <2>1 DEF CanRename
<1>2. ASSUME NEW d \in Below(t), NEW u \in Up(h), Nested(u, d) PROVE FALSE
  <2>1. u \in Path[h] /\ u \in Tasks /\ d \in Path[u] /\ d \in Tasks /\ t \in Path[d]
    BY <1>2, PathBasics, TaskAssumption DEF Up, Below, Nested
  <2>2. t \in Path[h]
    BY <2>1, PathTransitive
  <2>3. PICK e \in Below(h) : disk.archive[e] # Nothing
    BY <1>1
  <2>4. e \in Below(t)
    BY <2>2, <2>3, PathTransitive DEF Below, Nested
  <2>5. QED
    BY <2>3, <2>4 DEF Clear
<1>3. \A d \in Below(t) : disk'.archive[d] = disk.archive[d]
  BY <1>0, <1>2 DEF MkdirAll
<1>4. disk'.active[t] = disk.active[t]
  BY <1>0
<1>5. QED
  BY <1>3, <1>4 DEF Clear

\* A rename of what comes first in the queue leaves the rest movable.
LEMMA OwnMoveKeepsClear ==
    ASSUME ListInv, NEW h \in Tasks, Rename(h), NEW t \in Tasks, Clear(t),
           PathLength(h) <= PathLength(t), ~Nested(t, h)
    PROVE  Clear(t)'
<1>1. TypeOK /\ Below(t) \subseteq Tasks /\ t \in Below(t)
  BY PathBasics DEF ListInv, Below, Nested
<1>2. /\ \A d \in Below(t) : d \notin Below(h)
      /\ \A d \in Below(t) : \A u \in Up(h) : ~Nested(u, d)
  BY Apart
<1>3. disk'.active[t] = disk.active[t]
  BY <1>1, <1>2, Renamed
<1>4. ASSUME NEW d \in Below(t) PROVE disk'.archive[d] = Nothing
  <2>1. d \in Tasks /\ disk.archive[d] = Nothing
    BY <1>1 DEF Clear
  <2>2. QED
    BY <1>1, <1>2, <2>1, Renamed
<1>5. QED
  BY <1>3, <1>4 DEF Clear

\* The queue of a move is that of before, less its head.
LEMMA ShorterQueue ==
    ASSUME NEW q \in Seq(Tasks), q # << >>
    PROVE  /\ Head(q) = q[1] /\ 1 \in DOMAIN q /\ Head(q) \in Tasks /\ Tail(q) \in Seq(Tasks)
           /\ \A i \in DOMAIN q : q[i] \in Tasks /\ i \in Nat
           /\ \A i \in DOMAIN Tail(q) :
                 i \in Nat /\ 1 < i + 1 /\ i + 1 \in DOMAIN q /\ Tail(q)[i] = q[i + 1]
  OBVIOUS

LEMMA OpenFileStep ==
    ASSUME ArchiveInv, NEW p \in Procs, Step(p), NEW q \in Procs
    PROVE  OpenFileThere(q)'
<1>0. /\ ListInv /\ OpenFileThere(p) /\ OpenFileThere(q) /\ ProcsTyped /\ TypeOK
      /\ JobSound(q) /\ disk \in [{"active", "archive"} -> [Tasks -> Content]]
      /\ job[q].root \in {"active", "archive"} /\ job[p].root \in {"active", "archive"}
  BY TypeParts DEF ArchiveInv, Archives, ListInv, TypeOK, JobTyped
<1>1. ASSUME pc[q] = "write", ~MovesOn(p) PROVE disk'[job[q].root][job[q].task] # Nothing
  <2>1. job[q].task \in Tasks
    BY <1>0, <1>1 DEF JobSound, Owns, BusyAt
  <2>2. QED
    BY <1>0, <1>1, <2>1, ThereStays DEF OpenFileThere
<1>2. ASSUME pc'[q] = pc[q], job'[q] = job[q], ~MovesOn(p) PROVE OpenFileThere(q)'
  BY <1>0, <1>1, <1>2 DEF OpenFileThere
<1>o. ASSUME OthersStay(p), ~MovesOn(p), q # p PROVE OpenFileThere(q)'
  BY <1>2, <1>o DEF OthersStay
<1>3. CASE Rests(p) /\ ~MovesOn(p)
  BY <1>3, <1>o DEF Rests, OpenFileThere, BusyAt
<1>4. ASSUME NEW j, NEW step, TakesRecord(p, j, step), ~MovesOn(p) PROVE OpenFileThere(q)'
  <2>1. ProcsTyped' /\ OthersStay(p) /\ pc'[p] = step /\ job'[p] = j
    BY <1>0, <1>4, RewriteSteps DEF TakesRecord, Holds
  <2>2. step \in {"open", "merging"} /\ j.root = "active"
    BY <1>4 DEF TakesRecord, Holds
  <2>3. QED
    BY <1>4, <1>o, <2>1, <2>2 DEF OpenFileThere
<1>5. ASSUME NEW j, TakesNew(p, j), ~MovesOn(p) PROVE OpenFileThere(q)'
  <2>1. ProcsTyped' /\ OthersStay(p) /\ pc'[p] = "mkdir" /\ job'[p] = j
    BY <1>0, <1>5, RewriteSteps DEF TakesNew
  <2>2. QED
    BY <1>5, <1>o, <2>1 DEF TakesNew, OpenFileThere
<1>6. CASE (GoesOn(p) \/ MakesDir(p)) /\ ~MovesOn(p)
  <2>1. pc[p] \in {"merging", "mkdir"} /\ Goto(p, "open")
    BY <1>6 DEF GoesOn, MakesDir
  <2>2. ProcsTyped' /\ OthersStay(p) /\ pc'[p] = "open" /\ job'[p] = job[p]
    BY <1>0, <2>1, GotoSteps
  <2>3. QED
    BY <1>0, <1>6, <1>o, <2>1, <2>2 DEF OpenFileThere
<1>7. CASE OpensFile(p) /\ ~MovesOn(p)
  <2>1. pc[p] = "open" /\ Goto(p, "write")
    BY <1>7 DEF OpensFile
  <2>2. ProcsTyped' /\ OthersStay(p) /\ pc'[p] = "write" /\ job'[p] = job[p]
    BY <1>0, <2>1, GotoSteps
  <2>3. job[p].root = "active" /\ disk.active[job[p].task] # Nothing
    BY <1>0, <1>7, <2>1 DEF OpenFileThere, OpensFile
  <2>4. job[p].task \in Tasks
    BY <1>0, <2>1 DEF ListInv, JobSound, Owns, BusyAt
  <2>5. disk'.active[job[p].task] # Nothing
    BY <1>0, <1>7, <2>3, <2>4, ThereStays
  <2>6. QED
    BY <1>7, <1>o, <2>2, <2>3, <2>5 DEF OpenFileThere
<1>8. CASE Write(p) /\ ~MovesOn(p)
  <2>1. /\ OthersStay(p) /\ pc'[p] = job[p].then
        /\ job[p].then \in {"idle", "session", "final", "link"}
    BY <1>0, <1>8, WriteSteps DEF ListInv, TypeOK, JobTyped
  <2>2. QED
    BY <1>8, <1>o, <2>1 DEF OpenFileThere
<1>9. CASE MakesArchive(p) /\ ~MovesOn(p)
  BY <1>9, <1>o DEF MakesArchive, OpenFileThere
<1>10. CASE MovesOn(p)
  <2>1. PICK m \in Tasks :
          /\ CanRename(m) /\ Rename(m)
          /\ job' = [r \in Procs |-> IF pc[r] = "write" /\ job[r].task \in Below(m)
                                     THEN [job[r] EXCEPT !.root = "archive"] ELSE job[r]]
    BY <1>10 DEF MovesOn
  <2>2. pc'[q] = pc[q]
    BY <1>10 DEF MovesOn
  <2>3. CASE pc[q] = "write" /\ job[q].task \in Below(m)
    <3> DEFINE t == job[q].task
    <3>1. t \in Tasks /\ t \in Below(m)
      BY <1>0, <2>3 DEF JobSound, Owns, BusyAt
    <3>2. job'[q] = [job[q] EXCEPT !.root = "archive"]
      BY <2>1, <2>3
    <3>3. job'[q].root = "archive" /\ job'[q].task = t
      BY <1>0, <3>2 DEF ProcsTyped, JobTyped, NoJob
    <3>4. disk[job[q].root][t] # Nothing
      BY <1>0, <2>3 DEF OpenFileThere
    <3>5. disk.active[t] # Nothing
      BY <1>0, <2>1, <3>1, <3>4 DEF CanRename
    <3>6. disk'.archive[t] = disk.active[t]
      BY <1>0, <2>1, <3>1, Renamed
    <3> HIDE DEF t
    <3>7. QED
      BY <2>2, <2>3, <3>3, <3>5, <3>6 DEF OpenFileThere
  <2>4. CASE pc[q] = "write" /\ job[q].task \notin Below(m)
    <3>1. job'[q] = job[q] /\ job[q].task \in Tasks
      BY <1>0, <2>1, <2>4 DEF JobSound, Owns, BusyAt
    <3>2. disk[job[q].root][job[q].task] # Nothing
      BY <1>0, <2>4 DEF OpenFileThere
    <3>3. disk'[job[q].root][job[q].task] # Nothing
      BY <1>0, <2>1, <2>4, <3>1, <3>2, Renamed
    <3>4. QED
      BY <2>2, <2>4, <3>1, <3>3 DEF OpenFileThere
  <2>5. CASE pc[q] # "write"
    <3>1. job'[q] = job[q]
      BY <2>1, <2>5
    <3>2. QED
      BY <1>0, <2>2, <2>5, <3>1 DEF OpenFileThere
  <2>6. QED
    BY <2>3, <2>4, <2>5
<1>11. QED
  BY <1>0, <1>3, <1>4, <1>5, <1>6, <1>7, <1>8, <1>9, <1>10, Kinds

\* An archive that begins is undisturbed only when nothing is in its way.
LEMMA ArchiveBegins ==
    ASSUME ListInv, NEW p \in Procs, Archive(p)
    PROVE  WayIsClear(p)' /\ ShorterFirst(p)' /\ ChosenExist(p)'
<1>0. queue \in [Procs -> Seq(Tasks)] /\ ruffled \subseteq Procs /\ UNCHANGED disk
  BY DEF ListInv, TypeOK, Archive
<1>1. PICK set \in {{t} : t \in Loaded} \cup {{t \in Loaded : Archivable(t)}}
                \cup {{t \in Loaded : disk.active[t].status = s} : s \in Statuses} :
       /\ \E s \in ByPathLength(set) : queue' = [queue EXCEPT ![p] = s]
       /\ ruffled' = IF \E t \in set : \E d \in Below(t) : disk.archive[d] # Nothing
                     THEN ruffled \cup {p} ELSE ruffled \ {p}
  BY DEF Archive
<1>2. set \subseteq Loaded
  BY <1>1
<1>3. PICK s \in ByPathLength(set) : queue' = [queue EXCEPT ![p] = s]
  BY <1>1
<1>4. queue'[p] = s
  BY <1>0, <1>3
<1>5. /\ \A i \in DOMAIN s : s[i] \in set
      /\ \A i, j \in DOMAIN s : i < j => PathLength(s[i]) <= PathLength(s[j])
  BY DEF ByPathLength
<1>6. \A t \in set : t \in Tasks /\ disk.active[t] # Nothing
  BY <1>2, Distinct DEF Loaded
<1>7. p \notin ruffled' => \A t \in set : \A d \in Below(t) : disk.archive[d] = Nothing
  BY <1>1
<1>8. WayIsClear(p)'
  <2>1. p \notin ruffled' => \A i \in DOMAIN s : Clear(s[i])
    BY <1>5, <1>6, <1>7 DEF Clear
  <2>2. \A i \in DOMAIN s : Clear(queue[p][i])' <=> Clear(s[i])
    BY <1>0, <1>4 DEF Clear, Below, Nested, Path
  <2>3. QED
    BY <1>4, <2>1, <2>2 DEF WayIsClear
<1>9. ShorterFirst(p)'
  BY <1>4, <1>5 DEF ShorterFirst, PathLength, Path
<1>10. ChosenExist(p)'
  BY <1>0, <1>4, <1>5, <1>6 DEF ChosenExist
<1>11. QED
  BY <1>8, <1>9, <1>10

LEMMA ArchiveGoesOn ==
    ASSUME ArchiveInv, NEW p \in Procs, Move(p)
    PROVE  WayIsClear(p)' /\ ShorterFirst(p)' /\ ChosenExist(p)'
<1>0. /\ queue \in [Procs -> Seq(Tasks)] /\ moved \in [Procs -> SUBSET Tasks] /\ ProcsTyped
      /\ ruffled \subseteq Procs
      /\ ListInv /\ WayIsClear(p) /\ ShorterFirst(p) /\ ChosenExist(p) /\ OpenFileThere(p)
  BY TypeParts DEF ArchiveInv, Archives, ListInv
<1> DEFINE q == queue[p]
           h == Head(q)
<1>1. q \in Seq(Tasks) /\ q # << >> /\ pc[p] = "moving" /\ Step(p)
  BY <1>0 DEF Move, Step
<1>2. /\ h = q[1] /\ 1 \in DOMAIN q /\ h \in Tasks
      /\ \A i \in DOMAIN q : q[i] \in Tasks /\ i \in Nat
      /\ \A i \in DOMAIN Tail(q) :
            i \in Nat /\ 1 < i + 1 /\ i + 1 \in DOMAIN q /\ Tail(q)[i] = q[i + 1]
  BY <1>1, ShorterQueue
<1>3. CASE Leave(p)
  <2>1. pc'[p] = "idle"
    BY <1>0, <1>3 DEF Leave, Goto, ProcsTyped
  <2>2. QED
    BY <2>1 DEF WayIsClear, ShorterFirst, ChosenExist
<1>4. ASSUME queue' = [queue EXCEPT ![p] = Tail(@)], UNCHANGED pc
      PROVE  queue'[p] = Tail(q) /\ ShorterFirst(p)' /\ ChosenExist(p)'
  <2>1. queue'[p] = Tail(q)
    BY <1>0, <1>4
  <2>2. ShorterFirst(p)'
    <3>1. ASSUME NEW i \in DOMAIN Tail(q), NEW j \in DOMAIN Tail(q), i < j
          PROVE  PathLength(Tail(q)[i]) <= PathLength(Tail(q)[j])
      <4>1. i + 1 \in DOMAIN q /\ j + 1 \in DOMAIN q /\ i + 1 < j + 1
        BY <1>2, <3>1
      <4>2. PathLength(q[i + 1]) <= PathLength(q[j + 1])
        BY <1>0, <1>1, <4>1 DEF ShorterFirst
      <4>3. QED
        BY <1>2, <4>2
    <3>2. QED
      BY <2>1, <3>1 DEF ShorterFirst, PathLength, Path
  <2>3. ChosenExist(p)'
    <3>1. ASSUME NEW i \in DOMAIN Tail(q)
          PROVE  disk'.active[Tail(q)[i]] # Nothing \/ disk'.archive[Tail(q)[i]] # Nothing
      <4>1. PICK t \in Tasks : t = Tail(q)[i] /\ t = q[i + 1] /\ i + 1 \in DOMAIN q
        BY <1>2
      <4>2. disk.active[t] # Nothing \/ disk.archive[t] # Nothing
        BY <1>0, <1>1, <4>1 DEF ChosenExist
      <4>3. QED
        BY <1>0, <1>1, <4>1, <4>2, ThereStays
    <3>2. QED
      BY <2>1, <3>1 DEF ChosenExist
  <2>4. QED
    BY <2>1, <2>2, <2>3
<1>5. CASE /\ \E m \in moved[p] : Nested(h, m)
           /\ queue' = [queue EXCEPT ![p] = Tail(@)]
           /\ UNCHANGED <<disk, pc, job, run, moved, ruffled>>
  <2>1. queue'[p] = Tail(q) /\ ShorterFirst(p)' /\ ChosenExist(p)'
    BY <1>4, <1>5
  <2>2. ASSUME p \notin ruffled, NEW i \in DOMAIN Tail(q)
        PROVE  Clear(Tail(q)[i]) \/ \E m \in moved[p] : Nested(Tail(q)[i], m)
    BY <1>0, <1>1, <1>2, <2>2 DEF WayIsClear
  <2>3. WayIsClear(p)'
    BY <1>5, <2>1, <2>2 DEF WayIsClear, Clear, Below, Nested, Path
  <2>4. QED
    BY <2>1, <2>3
<1>6. CASE /\ Rename(h)
           /\ queue' = [queue EXCEPT ![p] = Tail(@)]
           /\ moved' = [moved EXCEPT ![p] = @ \cup {h}]
           /\ ruffled' = ruffled \cup {r \in Procs \ {p} : pc[r] = "moving"}
           /\ UNCHANGED <<pc, run>>
  <2>1. queue'[p] = Tail(q) /\ ShorterFirst(p)' /\ ChosenExist(p)'
    BY <1>4, <1>6
  <2>2. moved'[p] = moved[p] \cup {h}
    BY <1>0, <1>6
  <2>3. ASSUME p \notin ruffled, NEW i \in DOMAIN Tail(q)
        PROVE  \/ /\ disk'.active[Tail(q)[i]] # Nothing
                  /\ \A d \in Below(Tail(q)[i]) : disk'.archive[d] = Nothing
               \/ \E m \in moved'[p] : Nested(Tail(q)[i], m)
    <3>1. PICK t \in Tasks : t = Tail(q)[i] /\ t = q[i + 1] /\ i + 1 \in DOMAIN q /\ 1 < i + 1
      BY <1>2
    <3>2. Clear(t) \/ \E m \in moved[p] : Nested(t, m)
      BY <1>0, <1>1, <2>3, <3>1 DEF WayIsClear
    <3>3. PathLength(h) <= PathLength(t)
      BY <1>0, <1>1, <1>2, <3>1 DEF ShorterFirst
    <3>4. CASE Clear(t) /\ ~Nested(t, h)
      <4>1. Clear(t)'
        <5> HIDE DEF h, q
        <5>1. QED
          BY <1>0, <1>2, <1>6, <3>3, <3>4, OwnMoveKeepsClear
      <4>2. QED
        BY <3>1, <4>1 DEF Clear, Below, Nested, Path
    <3>5. CASE Nested(t, h) \/ \E m \in moved[p] : Nested(t, m)
      BY <2>2, <3>1, <3>5
    <3>6. QED
      BY <3>2, <3>4, <3>5
  <2>4. WayIsClear(p)'
    BY <1>6, <2>1, <2>3 DEF WayIsClear, Clear, Below, Nested, Path
  <2>5. QED
    BY <2>1, <2>4
<1>7. QED
  BY <1>3, <1>5, <1>6 DEF Move

\* What another process does leaves the way clear, or is a disturbance that is noted.
LEMMA OthersGoOn ==
    ASSUME ArchiveInv, NEW p \in Procs, Step(p), NEW q \in Procs, q # p
    PROVE  WayIsClear(q)' /\ ShorterFirst(q)' /\ ChosenExist(q)'
<1>0. /\ queue'[q] = queue[q] /\ moved'[q] = moved[q] /\ pc'[q] = pc[q]
      /\ q \in ruffled => q \in ruffled'
  BY ArchivingSteps, ProcSteps DEF ProcsMove, ArchiveInv
<1>1. /\ ListInv /\ OpenFileThere(p) /\ WayIsClear(q) /\ ShorterFirst(q) /\ ChosenExist(q)
      /\ queue \in [Procs -> Seq(Tasks)]
  BY DEF ArchiveInv, Archives, ListInv, TypeOK
<1>2. \A i \in DOMAIN queue[q] : queue[q][i] \in Tasks
  BY <1>1
<1>3. ShorterFirst(q)'
  BY <1>0, <1>1 DEF ShorterFirst, PathLength, Path
<1>4. ChosenExist(q)'
  <2>1. ASSUME pc[q] = "moving", NEW i \in DOMAIN queue[q]
        PROVE  disk'.active[queue[q][i]] # Nothing \/ disk'.archive[queue[q][i]] # Nothing
    <3>1. PICK t \in Tasks : t = queue[q][i]
      BY <1>2
    <3>2. disk.active[t] # Nothing \/ disk.archive[t] # Nothing
      BY <1>1, <2>1, <3>1 DEF ChosenExist
    <3>3. QED
      BY <1>1, <3>1, <3>2, ThereStays
  <2>2. QED
    BY <1>0, <2>1 DEF ChosenExist
<1>5. WayIsClear(q)'
  <2> SUFFICES ASSUME pc[q] = "moving", q \notin ruffled', NEW i \in DOMAIN queue[q]
               PROVE  \/ /\ disk'.active[queue[q][i]] # Nothing
                         /\ \A d \in Below(queue[q][i]) : disk'.archive[d] = Nothing
                      \/ \E m \in moved[q] : Nested(queue[q][i], m)
    BY <1>0 DEF WayIsClear, Clear, Below, Nested, Path
  <2>1. PICK t \in Tasks : t = queue[q][i]
    BY <1>2
  <2>2. Clear(t) \/ \E m \in moved[q] : Nested(t, m)
    BY <1>0, <1>1, <2>1 DEF WayIsClear
  <2>3. ASSUME Clear(t) PROVE Clear(t)'
    <3>1. CASE ~Move(p)
      BY <1>1, <2>3, <3>1, ClearStays
    <3>2. CASE Move(p)
      <4> DEFINE h == Head(queue[p])
      <4>0. queue[p] \in Seq(Tasks) /\ queue[p] # << >> /\ pc[p] = "moving"
        BY <1>1, <3>2 DEF Move
      <4>1. h \in Tasks /\ h = queue[p][1] /\ 1 \in DOMAIN queue[p]
        BY <4>0
      <4>2. CASE UNCHANGED disk
        BY <2>3, <4>2 DEF Clear
      <4>3. CASE ruffled' = ruffled \cup {r \in Procs \ {p} : pc[r] = "moving"}
        BY <4>3
      <4>4. CASE ~CanRename(h) /\ disk' = [disk EXCEPT !.archive = MkdirAll(@, Up(h))]
        <5>1. disk.active[h] # Nothing \/ disk.archive[h] # Nothing
          BY <4>0, <4>1 DEF ArchiveInv, Archives, ChosenExist
        <5> HIDE DEF h
        <5>2. QED
          BY <1>1, <2>3, <4>1, <4>4, <5>1, FailedMoveStaysAbove
      <4>5. QED
        BY <3>2, <4>2, <4>3, <4>4 DEF Move
    <3>3. QED
      BY <3>1, <3>2
  <2>4. QED
    BY <2>1, <2>2, <2>3 DEF Clear, Below, Nested, Path
<1>6. QED
  BY <1>3, <1>4, <1>5

LEMMA ArchiveStep ==
    ASSUME ArchiveInv, NEW p \in Procs, Step(p)
    PROVE  ArchiveInv'
<1>1. ListInv'
  BY ListStep DEF ArchiveInv
<1>2. WayIsClear(p)' /\ ShorterFirst(p)' /\ ChosenExist(p)'
  <2>1. CASE Archive(p)
    BY <2>1, ArchiveBegins DEF ArchiveInv
  <2>2. CASE Move(p)
    BY <2>2, ArchiveGoesOn
  <2>3. CASE ~Archive(p) /\ ~Move(p)
    <3>1. pc'[p] # "moving"
      BY <2>3, MovingSteps DEF ArchiveInv
    <3>2. QED
      BY <3>1 DEF WayIsClear, ShorterFirst, ChosenExist
  <2>4. QED
    BY <2>1, <2>2, <2>3
<1>3. ASSUME NEW q \in Procs PROVE Archives(q)'
  BY <1>2, OthersGoOn, OpenFileStep DEF Archives
<1>4. QED
  BY <1>1, <1>3 DEF ArchiveInv

LEMMA ArchiveInit == Init => ArchiveInv
  BY ListInit DEF Init, ArchiveInv, Archives, WayIsClear, ShorterFirst, ChosenExist, OpenFileThere

LEMMA ArchiveNext == ArchiveInv /\ [Next]_vars => ArchiveInv'
<1>1. ASSUME ArchiveInv, UNCHANGED vars PROVE ArchiveInv'
  <2>1. ListInv'
    BY <1>1, ListStutters DEF ArchiveInv
  <2>2. UNCHANGED <<disk, pc, job, queue, moved, ruffled>>
    BY <1>1 DEF vars
  <2>3. QED
    BY <1>1, <2>1, <2>2 DEF ArchiveInv, Archives, WayIsClear, ShorterFirst, ChosenExist,
       OpenFileThere, Clear, Below, Nested, PathLength, Path
<1>2. QED
  BY <1>1, ArchiveStep DEF Next

\* An archive that stops before it has moved everything it chose was killed, or something
\* was in its way that it had not put there: in archiveTasksMatching shorter paths
\* come first, so that its own moves never are.
THEOREM ArchiveMovesAll == Spec => ArchivesAllChosen
<1>1. ArchiveInv /\ [Next]_vars =>
        [\A p \in Procs : pc[p] = "moving" /\ pc'[p] = "idle" /\ kills' = kills =>
            p \in ruffled \/ queue[p] = << >>]_vars
  <2> SUFFICES ASSUME ArchiveInv, NEW r \in Procs, Step(r), NEW p \in Procs,
                      pc[p] = "moving", pc'[p] = "idle", kills' = kills,
                      p \notin ruffled, queue[p] # << >>
               PROVE  FALSE
    BY DEF Next
  <2>0. ListInv /\ WayIsClear(p) /\ queue \in [Procs -> Seq(Tasks)] /\ ProcsTyped
    BY TypeParts DEF ArchiveInv, Archives, ListInv
  <2>1. r = p
    BY <2>0, ProcSteps DEF ProcsMove
  <2>2. Move(p)
    <3>1. ~Kill(p)
      BY DEF ArchiveInv, ListInv, TypeOK, Kill
    <3>2. Create(p) \/ Update(p) \/ MergeTask(p) => Free(p)
      BY Zenon DEF Create, Update, MergeTask
    <3>3. Archive(p) \/ RunTask(p) => pc[p] = "idle"
      BY Zenon DEF Archive, RunTask
    <3>4. Link(p) \/ MergeBranches(p) \/ Open(p) \/ Write(p) \/ MakeDir(p) =>
            pc[p] \in {"link", "merging", "open", "write", "mkdir"}
      BY DEF Link, MergeBranches, Open, Write, MakeDir
    <3>5. MarkRunning(p) \/ SessionEnds(p) \/ ApplyMetadata(p) \/ FinalStatus(p) =>
            pc[p] \in {"mark", "session", "metadata", "final"}
      BY DEF MarkRunning, SessionEnds, ApplyMetadata, FinalStatus
    <3>6. ~MoveEnds(p)
      BY DEF MoveEnds
    <3>7. QED
      BY <2>1, <3>1, <3>2, <3>3, <3>4, <3>5, <3>6 DEF Step, Free
  <2> DEFINE h == Head(queue[p])
  <2>3. h = queue[p][1] /\ 1 \in DOMAIN queue[p] /\ h \in Tasks
    BY <2>0
  <2>4. (\A m \in moved[p] : ~Nested(h, m)) /\ ~CanRename(h)
    BY <2>0, <2>2 DEF Move, ProcsTyped
  <2>5. Clear(h)
    BY <2>3, <2>4 DEF ArchiveInv, Archives, WayIsClear
  <2>6. h \in Below(h)
    <3> HIDE DEF h
    <3>1. QED
      BY <2>3, PathBasics DEF Below, Nested
  <2> HIDE DEF h
  <2>7. QED
    BY <2>4, <2>5, <2>6 DEF Clear, CanRename
<1>2. QED
  BY <1>1, ArchiveInit, ArchiveNext, PTL DEF Spec, ArchivesAllChosen

-----------------------------------------------------------------------------
(***************************************************************************)
(* The tools, for any number of goroutines, any answers of the model and   *)
(* any AGENTS.md files, any calls, rules of the role, directories and      *)
(* number of threads.                                                      *)
(***************************************************************************)

(* What the session, in memory and in session.json, always is.             *)

Id == Nat \X Nat
ToolCall == [id : Id, tool : DOMAIN FilesOf]

Message ==
    [is : {"prompt"}] \cup [is : {"calls"}, calls : Seq(ToolCall)]
    \cup [is : {"results"}, of : Seq(Id)] \cup [is : {"agents"}, file : AgentFiles]

\* CallsAnsweredInOrder and AgentFilesOnce of any conversation.
InOrder(ms) ==
    \A i \in 1 .. Len(ms) :
        /\ ms[i].is = "calls" /\ i < Len(ms) =>
              /\ ms[i + 1].is = "results"
              /\ ms[i + 1].of = [k \in DOMAIN ms[i].calls |-> ms[i].calls[k].id]
        /\ ms[i].is = "results" => i > 1 /\ ms[i - 1].is = "calls"

Once(ms) == \A i, k \in 1 .. Len(ms) : ms[i].is = "agents" /\ ms[k] = ms[i] => i = k

AllLoaded(ms, files) == \A i \in 1 .. Len(ms) : ms[i].is = "agents" => ms[i].file \in files

Good(ms, files) ==
    /\ ms \in Seq(Message) /\ ms # << >> /\ files \subseteq AgentFiles
    /\ InOrder(ms) /\ Once(ms) /\ AllLoaded(ms, files)

Sessions ==
    {s \in [messages : Seq(Message), todo : Nat, slugs : Nat, loaded : SUBSET AgentFiles] :
        Good(s.messages, s.loaded)}

Texts == [is : {"absent", "empty", "torn"}] \cup [is : {"whole"}, of : Sessions]

-----------------------------------------------------------------------------
(* The inductive invariant.                                                *)

Saving == [at : {"no", "open", "write", "rename"}, buf : Texts,
           inode : {"none", "tmp", "final", "gone"}]

Typed ==
    /\ todo \in Nat /\ slugs \in Nat
    /\ main \in {"chat", "pool", "agents", "failed", "dead"}
    /\ calls \in Seq(ToolCall) /\ jobs \subseteq 1 .. Len(calls)
    /\ results \in Seq(Id \cup {<< >>}) /\ Len(results) = Len(calls)
    /\ worker \in [Workers -> [at : {"free", "tool", "done"}, job : Nat]]
    /\ look \in [calls : Nat, files : Seq(AgentFiles)] /\ news \in Seq(AgentFiles)
    /\ mutex \in Workers \cup {"free"}
    /\ saving \in [Goroutines -> Saving]
    /\ \A g \in Goroutines : saving[g].at = "write" => saving[g].inode # "none"
    /\ file \in [tmp : Texts, final : Texts]
    /\ rounds \in 0 .. MaxRounds /\ crashes \in 0 .. MaxCrashes

\* Whose turn it is: calls are at the end of the conversation while they are executed.
Turns ==
    /\ main \in {"pool", "failed"} => messages[Len(messages)].is = "calls"
    /\ main = "pool" => calls = messages[Len(messages)].calls
    /\ main \in {"chat", "agents"} => messages[Len(messages)].is # "calls"

\* A goroutine of the pool is busy only while Run waits for it, and a call is to be
\* taken, being executed, or has its response.
Busy(w) == worker[w].at # "free"
PoolFits ==
    /\ \A w \in Workers :
          /\ Busy(w) => main = "pool" /\ Saved(Main) /\ worker[w].job \in 1 .. Len(calls)
          /\ ~Saved(w) => worker[w].at = "done"
    /\ main # "pool" => jobs = {}
    /\ main = "pool" =>
          \A i \in 1 .. Len(calls) :
              \/ i \in jobs \/ results[i] = calls[i].id
              \/ \E w \in Workers : Busy(w) /\ worker[w].job = i

\* The AGENTS.md files that wait to be appended are loaded, and none was appended.
NewsFit ==
    /\ \A i \in 1 .. Len(news) : news[i] \in loaded
    /\ \A i, k \in 1 .. Len(news) : news[i] = news[k] => i = k
    /\ \A i \in 1 .. Len(messages), k \in 1 .. Len(news) :
          messages[i].is = "agents" => messages[i].file # news[k]
    /\ main = "dead" => news = << >> /\ \A g \in Goroutines : Saved(g)

\* Run persists the session while nobody else does.
MainSaves ==
    ~Saved(Main) =>
        /\ main \in {"chat", "pool", "agents"}
        /\ saving[Main].buf = Whole(Snapshot)
        /\ saving[Main].at = "write" => saving[Main].inode = "tmp" /\ file.tmp = Empty
        /\ saving[Main].at = "rename" => file.tmp = Whole(Snapshot)

Inv == /\ Typed /\ Good(messages, loaded) /\ Turns /\ PoolFits /\ NewsFit
       /\ MainSaves /\ FileCurrentWhenIdle

-----------------------------------------------------------------------------
(* Conversations.                                                          *)

LEMMA MessageKinds ==
    ASSUME NEW m \in Message
    PROVE  /\ m.is = "calls" => m.calls \in Seq(ToolCall)
           /\ m.is = "agents" => m.file \in AgentFiles
  BY DEF Message

\* A message that may come next.
Follows(ms, files, m) ==
    LET last == ms[Len(ms)] IN
    /\ last.is = "calls" <=> m.is = "results"
    /\ m.is = "results" => m.of = [k \in DOMAIN last.calls |-> last.calls[k].id]
    /\ m.is = "agents" =>
          m.file \in files /\ \A i \in 1 .. Len(ms) : ms[i].is = "agents" => ms[i].file # m.file

LEMMA AppendGood ==
    ASSUME NEW ms, NEW files, NEW m \in Message, Good(ms, files), Follows(ms, files, m)
    PROVE  /\ Good(Append(ms, m), files)
           /\ Len(Append(ms, m)) = Len(ms) + 1 /\ Append(ms, m)[Len(ms) + 1] = m
           /\ \A i \in 1 .. Len(ms) : Append(ms, m)[i] = ms[i]
<1> DEFINE new == Append(ms, m)
<1>1. ms \in Seq(Message) /\ Len(ms) \in Nat \ {0}
  BY EmptySeq DEF Good
<1>2. /\ new \in Seq(Message) /\ new # << >> /\ Len(new) = Len(ms) + 1
      /\ new[Len(ms) + 1] = m /\ \A i \in 1 .. Len(ms) : new[i] = ms[i]
  BY <1>1, AppendProperties
<1> HIDE DEF new
<1>3. InOrder(new)
  <2> SUFFICES ASSUME NEW i \in 1 .. Len(new)
               PROVE  /\ new[i].is = "calls" /\ i < Len(new) =>
                            /\ new[i + 1].is = "results"
                            /\ new[i + 1].of = [k \in DOMAIN new[i].calls |-> new[i].calls[k].id]
                      /\ new[i].is = "results" => i > 1 /\ new[i - 1].is = "calls"
    BY DEF InOrder
  <2>1. CASE i < Len(ms)
    <3>1. i \in 1 .. Len(ms) /\ i + 1 \in 1 .. Len(ms) /\ (i > 1 => i - 1 \in 1 .. Len(ms))
      BY <1>1, <1>2, <2>1
    <3>2. new[i] = ms[i] /\ new[i + 1] = ms[i + 1] /\ (i > 1 => new[i - 1] = ms[i - 1])
      BY <1>2, <3>1
    <3>3. QED
      BY <2>1, <3>1, <3>2 DEF Good, InOrder
  <2>2. CASE i = Len(ms)
    <3>1. i \in 1 .. Len(ms) /\ i + 1 = Len(ms) + 1 /\ (i > 1 => i - 1 \in 1 .. Len(ms))
      BY <1>1, <1>2, <2>2
    <3>2. new[i] = ms[i] /\ new[i + 1] = m /\ (i > 1 => new[i - 1] = ms[i - 1])
      BY <1>2, <3>1
    <3>3. ms[i].is = "results" => i > 1 /\ ms[i - 1].is = "calls"
      BY <3>1 DEF Good, InOrder
    <3>4. ms[i].is = "calls" => m.is = "results" /\ m.of = [k \in DOMAIN ms[i].calls |-> ms[i].calls[k].id]
      BY <2>2 DEF Follows
    <3>5. QED
      BY <3>2, <3>3, <3>4
  <2>3. CASE i = Len(ms) + 1
    <3>1. i = Len(new) /\ i > 1 /\ i - 1 = Len(ms) /\ i - 1 \in 1 .. Len(ms)
      BY <1>1, <1>2, <2>3
    <3>2. new[i] = m /\ new[i - 1] = ms[Len(ms)]
      BY <1>2, <2>3, <3>1
    <3>3. m.is = "results" => ms[Len(ms)].is = "calls"
      BY DEF Follows
    <3>4. QED
      BY <3>1, <3>2, <3>3
  <2>4. QED
    BY <1>1, <1>2, <2>1, <2>2, <2>3
<1>4. Once(new)
  <2> SUFFICES ASSUME NEW i \in 1 .. Len(new), NEW k \in 1 .. Len(new),
                      new[i].is = "agents", new[k] = new[i]
               PROVE  i = k
    BY DEF Once
  <2>1. CASE i \in 1 .. Len(ms) /\ k \in 1 .. Len(ms)
    BY <1>2, <2>1 DEF Good, Once
  <2>2. CASE i = Len(ms) + 1 /\ k \in 1 .. Len(ms)
    BY <1>2, <2>2 DEF Follows
  <2>3. CASE i \in 1 .. Len(ms) /\ k = Len(ms) + 1
    BY <1>2, <2>3 DEF Follows
  <2>4. QED
    BY <1>1, <1>2, <2>1, <2>2, <2>3
<1>5. AllLoaded(new, files)
  <2> SUFFICES ASSUME NEW i \in 1 .. Len(new), new[i].is = "agents" PROVE new[i].file \in files
    BY DEF AllLoaded
  <2>1. CASE i \in 1 .. Len(ms)
    BY <1>2, <2>1 DEF Good, AllLoaded
  <2>2. CASE i = Len(ms) + 1
    BY <1>2, <2>2 DEF Follows
  <2>3. QED
    BY <1>1, <1>2, <2>1, <2>2
<1>6. QED
  BY <1>2, <1>3, <1>4, <1>5 DEF Good, new

LEMMA MoreLoaded ==
    ASSUME NEW ms, NEW files, NEW more, Good(ms, files), files \subseteq more, more \subseteq AgentFiles
    PROVE  Good(ms, more)
  BY DEF Good, AllLoaded

LEMMA LastMessage ==
    ASSUME NEW ms, NEW files, Good(ms, files)
    PROVE  Len(ms) \in Nat \ {0} /\ ms[Len(ms)] \in Message /\ Len(ms) \in 1 .. Len(ms)
  BY EmptySeq, ElementOfSeq DEF Good

-----------------------------------------------------------------------------
(* session.json.                                                           *)

LEMMA TextFacts ==
    /\ Absent \in Texts /\ Empty \in Texts /\ Torn \in Texts
    /\ \A s \in Sessions : Whole(s) \in Texts
    /\ \A x \in Texts : x.is = "whole" => x.of \in Sessions /\ x = Whole(x.of)
    /\ \A s : Whole(s) # Absent /\ Whole(s) # Empty /\ Whole(s).is = "whole" /\ Whole(s).of = s
  BY DEF Texts, Absent, Empty, Torn, Whole

LEMMA SessionFacts ==
    /\ \A ms, t, g, files :
          Good(ms, files) /\ t \in Nat /\ g \in Nat =>
              [messages |-> ms, todo |-> t, slugs |-> g, loaded |-> files] \in Sessions
    /\ \A s \in Sessions :
          /\ Good(s.messages, s.loaded) /\ s.todo \in Nat /\ s.slugs \in Nat
          /\ s = [messages |-> s.messages, todo |-> s.todo, slugs |-> s.slugs, loaded |-> s.loaded]
  BY DEF Sessions, Good

\* A goroutine that begins to persist a session it has changed.
LEMMA BeginSaveTyped ==
    ASSUME Typed, NEW g \in Goroutines, BeginSave(g),
           Good(messages', loaded'), todo' \in Nat, slugs' \in Nat
    PROVE  /\ saving' \in [Goroutines -> Saving]
           /\ saving'[g].at = "open" /\ saving'[g].buf = Whole(Snapshot')
           /\ \A h \in Goroutines \ {g} : saving'[h] = saving[h]
           /\ \A h \in Goroutines : saving'[h].at = "write" => saving'[h].inode # "none"
<1> DEFINE new == [at |-> "open", buf |-> Whole(Snapshot'), inode |-> "none"]
<1>1. Snapshot' \in Sessions
  BY SessionFacts DEF Snapshot
<1>2. new \in Saving /\ new.at = "open" /\ new.buf = Whole(Snapshot')
  BY <1>1, TextFacts DEF Saving
<1>3. saving' = [saving EXCEPT ![g] = new]
  BY DEF BeginSave
<1> HIDE DEF new
<1>4. QED
  BY <1>2, <1>3 DEF Typed

\* Calls that are about to be executed.
LEMMA StartPoolTyped ==
    ASSUME NEW list \in Seq(ToolCall), StartPool(list)
    PROVE  /\ calls' = list /\ jobs' = 1 .. Len(list)
           /\ results' \in Seq(Id \cup {<< >>}) /\ Len(results') = Len(list)
           /\ worker' \in [Workers -> [at : {"free", "tool", "done"}, job : Nat]]
           /\ \A w \in Workers : worker'[w].at = "free"
<1>1. DOMAIN list = 1 .. Len(list) /\ Len(list) \in Nat
  BY LenProperties
<1>2. results' = [i \in 1 .. Len(list) |-> << >>]
  BY <1>1 DEF StartPool
<1>3. results' \in Seq(Id \cup {<< >>}) /\ Len(results') = Len(list)
  BY <1>1, <1>2
<1>4. worker' = [w \in Workers |-> [at |-> "free", job |-> 0]]
  BY DEF StartPool, Resting
<1>5. QED
  BY <1>1, <1>3, <1>4 DEF StartPool

-----------------------------------------------------------------------------
(* The steps of a persist.                                                 *)

LEMMA MainIsNoWorker == Main \in Goroutines /\ Main \notin Workers /\ \A w \in Workers : w \in Goroutines /\ w # Main
  BY PoolAssumption DEF Goroutines

\* Who persists while Run does not is a busy goroutine of the pool.
LEMMA OneSaves ==
    ASSUME Inv, NEW g \in Goroutines, ~Saved(g), g # Main
    PROVE  g \in Workers /\ main = "pool" /\ Saved(Main) /\ worker[g].at = "done"
<1>1. g \in Workers
  BY DEF Goroutines
<1>2. QED
  BY <1>1 DEF Inv, PoolFits, Busy

\* A step of a persist changes neither the session nor the pool.
LEMMA SaveStep ==
    ASSUME Inv, UNCHANGED <<session, main, pool, instructions, mutex, rounds, crashes>>,
           saving' \in [Goroutines -> Saving],
           \A g \in Goroutines : saving'[g].at = "write" => saving'[g].inode # "none",
           file' \in [tmp : Texts, final : Texts],
           \A g \in Goroutines : Saved(g) => Saved(g)',
           MainSaves', FileCurrentWhenIdle'
    PROVE  Inv'
<1>1. UNCHANGED <<messages, todo, slugs, loaded, main, calls, jobs, worker, results, look, news>>
  BY DEF session, pool, instructions
<1>2. Typed'
  BY <1>1 DEF Inv, Typed
<1>3. Good(messages, loaded)' /\ Turns'
  BY <1>1 DEF Inv, Turns
<1>4. PoolFits'
  BY <1>1, MainIsNoWorker DEF Inv, PoolFits, Busy
<1>5. NewsFit'
  BY <1>1 DEF Inv, NewsFit
<1>6. QED
  BY <1>2, <1>3, <1>4, <1>5 DEF Inv

LEMMA OpenTmpPreserves ==
    ASSUME Inv, NEW g \in Goroutines, OpenTmp(g)
    PROVE  Inv'
<1>1. /\ ~Saved(g) /\ saving[g] \in Saving
      /\ file' = [file EXCEPT !.tmp = Empty]
      /\ saving' = [saving EXCEPT ![g].at = "write", ![g].inode = "tmp"]
      /\ UNCHANGED <<session, main, pool, instructions, mutex, rounds, crashes>>
  BY DEF OpenTmp, Saved, Inv, Typed
<1> DEFINE new == [saving[g] EXCEPT !.at = "write", !.inode = "tmp"]
<1>2. new \in Saving /\ new.at = "write" /\ new.inode = "tmp" /\ new.buf = saving[g].buf
  BY <1>1 DEF Saving
<1>3. saving' = [saving EXCEPT ![g] = new]
  BY <1>1 DEF Inv, Typed
<1> HIDE DEF new
<1>4. /\ saving' \in [Goroutines -> Saving] /\ saving'[g] = new
      /\ \A h \in Goroutines \ {g} : saving'[h] = saving[h]
  BY <1>2, <1>3 DEF Inv, Typed
<1>5. \A h \in Goroutines : saving'[h].at = "write" => saving'[h].inode # "none"
  BY <1>2, <1>4 DEF Inv, Typed
<1>6. file' \in [tmp : Texts, final : Texts] /\ file'.tmp = Empty
  BY <1>1, TextFacts DEF Inv, Typed
<1>7. \A h \in Goroutines : Saved(h) <=> Saved(h)'
  BY <1>1, <1>2, <1>4 DEF Saved
<1>8. MainSaves' /\ FileCurrentWhenIdle'
  <2>1. CASE g = Main
    <3>1. saving[Main].buf = Whole(Snapshot) /\ main \in {"chat", "pool", "agents"}
      BY <1>1, <2>1 DEF Inv, MainSaves
    <3>2. Snapshot' = Snapshot /\ main' = main
      BY <1>1 DEF Snapshot, session
    <3>3. saving'[Main].buf = Whole(Snapshot)' /\ saving'[Main].at = "write" /\ saving'[Main].inode = "tmp"
      BY <1>2, <1>4, <2>1, <3>1, <3>2 DEF Whole
    <3>4. QED
      BY <1>6, <3>1, <3>2, <3>3 DEF MainSaves, FileCurrentWhenIdle, Saved
  <2>2. CASE g # Main
    <3>1. main' = "pool" /\ Saved(Main)'
      BY <1>1, <1>7, <2>2, OneSaves, MainIsNoWorker
    <3>2. QED
      BY <3>1 DEF MainSaves, FileCurrentWhenIdle
  <2>3. QED
    BY <2>1, <2>2
<1>9. QED
  BY <1>1, <1>4, <1>5, <1>6, <1>7, <1>8, SaveStep

LEMMA WriteTmpPreserves ==
    ASSUME Inv, NEW g \in Goroutines, WriteTmp(g)
    PROVE  Inv'
<1>1. /\ ~Saved(g) /\ saving[g] \in Saving /\ saving[g].at = "write"
      /\ saving[g].inode \in {"tmp", "final", "gone"} /\ saving[g].buf \in Texts
      /\ saving' = [saving EXCEPT ![g].at = "rename", ![g].inode = "none"]
      /\ UNCHANGED <<session, main, pool, instructions, mutex, rounds, crashes>>
  BY DEF WriteTmp, Saved, Inv, Typed, Saving
<1>2. /\ saving[g].inode = "tmp" =>
            \E x \in Texts : /\ file' = [file EXCEPT !.tmp = x]
                             /\ file.tmp = Empty => x = saving[g].buf
      /\ saving[g].inode = "final" => \E x \in Texts : file' = [file EXCEPT !.final = x]
      /\ saving[g].inode = "gone" => file' = file
  <2>1. CASE saving[g].inode = "tmp"
    <3>1. PICK x \in {saving[g].buf} \cup (IF file.tmp = Empty THEN {} ELSE {Torn}) :
              file' = [file EXCEPT !.tmp = x]
      BY <2>1 DEF WriteTmp
    <3>2. x \in Texts
      BY <1>1, <3>1, TextFacts
    <3>3. QED
      BY <2>1, <3>1, <3>2
  <2>2. CASE saving[g].inode = "final"
    <3>1. PICK x \in {saving[g].buf} \cup (IF file.final = Empty THEN {} ELSE {Torn}) :
              file' = [file EXCEPT !.final = x]
      BY <2>2 DEF WriteTmp
    <3>2. x \in Texts
      BY <1>1, <3>1, TextFacts
    <3>3. QED
      BY <2>2, <3>1, <3>2
  <2>3. CASE saving[g].inode = "gone"
    BY <2>3 DEF WriteTmp
  <2>4. QED
    BY <1>1, <2>1, <2>2, <2>3
<1> DEFINE new == [saving[g] EXCEPT !.at = "rename", !.inode = "none"]
<1>3. new \in Saving /\ new.at = "rename" /\ new.buf = saving[g].buf
  BY <1>1 DEF Saving
<1>4. saving' = [saving EXCEPT ![g] = new]
  BY <1>1 DEF Inv, Typed
<1> HIDE DEF new
<1>5. /\ saving' \in [Goroutines -> Saving] /\ saving'[g] = new
      /\ \A h \in Goroutines \ {g} : saving'[h] = saving[h]
  BY <1>3, <1>4 DEF Inv, Typed
<1>6. \A h \in Goroutines : saving'[h].at = "write" => saving'[h].inode # "none"
  BY <1>3, <1>5 DEF Inv, Typed
<1>7. file' \in [tmp : Texts, final : Texts]
  BY <1>1, <1>2 DEF Inv, Typed
<1>8. \A h \in Goroutines : Saved(h) <=> Saved(h)'
  BY <1>1, <1>3, <1>5 DEF Saved
<1>9. MainSaves' /\ FileCurrentWhenIdle'
  <2>1. CASE g = Main
    <3>1. /\ saving[Main].buf = Whole(Snapshot) /\ main \in {"chat", "pool", "agents"}
          /\ saving[Main].inode = "tmp" /\ file.tmp = Empty
      BY <1>1, <2>1 DEF Inv, MainSaves
    <3>2. Snapshot' = Snapshot /\ main' = main
      BY <1>1 DEF Snapshot, session
    <3>3. saving'[Main].buf = Whole(Snapshot)' /\ saving'[Main].at = "rename"
      BY <1>3, <1>5, <2>1, <3>1, <3>2 DEF Whole
    <3>4. file'.tmp = Whole(Snapshot)'
      BY <1>2, <2>1, <3>1, <3>2 DEF Whole, Inv, Typed
    <3>5. QED
      BY <3>1, <3>2, <3>3, <3>4 DEF MainSaves, FileCurrentWhenIdle, Saved
  <2>2. CASE g # Main
    <3>1. main' = "pool" /\ Saved(Main)'
      BY <1>1, <1>8, <2>2, OneSaves, MainIsNoWorker
    <3>2. QED
      BY <3>1 DEF MainSaves, FileCurrentWhenIdle
  <2>3. QED
    BY <2>1, <2>2
<1>10. QED
  BY <1>1, <1>5, <1>6, <1>7, <1>8, <1>9, SaveStep

LEMMA RenameTmpPreserves ==
    ASSUME Inv, NEW g \in Goroutines, RenameTmp(g)
    PROVE  Inv'
<1>1. /\ ~Saved(g) /\ saving[g].at = "rename" /\ file \in [tmp : Texts, final : Texts]
      /\ saving \in [Goroutines -> Saving]
      /\ UNCHANGED <<session, main, pool, instructions, mutex, rounds, crashes>>
  BY DEF RenameTmp, Saved, Inv, Typed
<1>2. /\ file' = IF file.tmp = Absent THEN file ELSE [tmp |-> Absent, final |-> file.tmp]
      /\ saving' \in [Goroutines -> Saving] /\ saving'[g] = NotSaving
      /\ \A h \in Goroutines \ {g} :
            saving'[h].at = saving[h].at /\ (saving[h].inode # "none" => saving'[h].inode # "none")
  <2>1. NotSaving \in Saving
    BY TextFacts DEF NotSaving, Saving
  <2>2. CASE file.tmp = Absent
    BY <1>1, <2>1, <2>2 DEF RenameTmp
  <2>3. CASE file.tmp # Absent
    <3>1. saving' = [h \in Goroutines |->
                CASE h = g -> NotSaving
                  [] h # g /\ saving[h].inode = "tmp" -> [saving[h] EXCEPT !.inode = "final"]
                  [] h # g /\ saving[h].inode = "final" -> [saving[h] EXCEPT !.inode = "gone"]
                  [] OTHER -> saving[h]]
      BY <2>3 DEF RenameTmp
    <3>2. ASSUME NEW h \in Goroutines, h # g
          PROVE  /\ saving'[h] \in Saving /\ saving'[h].at = saving[h].at
                 /\ saving[h].inode # "none" => saving'[h].inode # "none"
      <4>1. saving[h] \in Saving
        BY <1>1
      <4>2. CASE saving[h].inode = "tmp"
        BY <3>1, <3>2, <4>1, <4>2 DEF Saving
      <4>3. CASE saving[h].inode = "final"
        BY <3>1, <3>2, <4>1, <4>3 DEF Saving
      <4>4. CASE saving[h].inode \notin {"tmp", "final"}
        BY <3>1, <3>2, <4>1, <4>4
      <4>5. QED
        BY <4>2, <4>3, <4>4
    <3>3. saving'[g] = NotSaving
      BY <3>1
    <3>4. \A h \in Goroutines : saving'[h] \in Saving
      BY <2>1, <3>2, <3>3
    <3>5. saving' \in [Goroutines -> Saving]
      BY <3>1, <3>4
    <3>6. QED
      BY <2>3, <3>2, <3>3, <3>5 DEF RenameTmp
  <2>4. QED
    BY <2>2, <2>3
<1>3. \A h \in Goroutines : saving'[h].at = "write" => saving'[h].inode # "none"
  <2>1. NotSaving.at = "no"
    BY DEF NotSaving
  <2>2. QED
    BY <1>2, <2>1 DEF Inv, Typed
<1>4. file' \in [tmp : Texts, final : Texts]
  BY <1>1, <1>2, TextFacts
<1>5. Saved(g)' /\ \A h \in Goroutines \ {g} : Saved(h) <=> Saved(h)'
  BY <1>2 DEF Saved, NotSaving
<1>6. MainSaves' /\ FileCurrentWhenIdle'
  <2>1. CASE g = Main
    <3>1. file.tmp = Whole(Snapshot)
      BY <1>1, <2>1 DEF Inv, MainSaves
    <3>2. Snapshot' = Snapshot
      BY <1>1 DEF Snapshot, session
    <3>3. file'.final = Whole(Snapshot)'
      BY <1>2, <3>1, <3>2, TextFacts DEF Whole
    <3>4. QED
      BY <1>5, <2>1, <3>3 DEF MainSaves, FileCurrentWhenIdle
  <2>2. CASE g # Main
    <3>1. main' = "pool" /\ Saved(Main)'
      BY <1>1, <1>5, <2>2, OneSaves, MainIsNoWorker
    <3>2. QED
      BY <3>1 DEF MainSaves, FileCurrentWhenIdle
  <2>3. QED
    BY <2>1, <2>2
<1>7. QED
  BY <1>1, <1>2, <1>3, <1>4, <1>5, <1>6, SaveStep

-----------------------------------------------------------------------------
(* The steps of the goroutines of the pool.                                *)

\* While the pool works Run has persisted, and waits.
LEMMA PoolStep ==
    ASSUME Inv, main = "pool", Saved(Main), main' = main, Saved(Main)',
           UNCHANGED <<messages, loaded, calls, look, news>>,
           Typed', PoolFits'
    PROVE  Inv'
<1>1. Good(messages, loaded)' /\ Turns'
  BY DEF Inv, Turns
<1>2. NewsFit'
  BY DEF Inv, NewsFit
<1>3. MainSaves' /\ FileCurrentWhenIdle'
  BY DEF MainSaves, FileCurrentWhenIdle
<1>4. QED
  BY <1>1, <1>2, <1>3 DEF Inv

\* A goroutine of the pool goes from one thing to the next.
Works(w, at, j) ==
    /\ worker' \in [Workers -> [at : {"free", "tool", "done"}, job : Nat]]
    /\ worker'[w].at = at /\ worker'[w].job = j
    /\ \A v \in Workers \ {w} : worker'[v] = worker[v]

LEMMA WorksTyped ==
    ASSUME Inv, NEW w \in Workers, NEW at \in {"free", "tool", "done"}, NEW j \in Nat,
           worker' = [worker EXCEPT ![w] = [at |-> at, job |-> j]]
    PROVE  Works(w, at, j)
  BY DEF Inv, Typed, Works

LEMMA BusyWorker ==
    ASSUME Inv, NEW w \in Workers, Busy(w)
    PROVE  /\ main = "pool" /\ Saved(Main) /\ worker[w].job \in 1 .. Len(calls)
           /\ worker[w].job \in Nat /\ Len(calls) \in Nat
           /\ calls[worker[w].job] \in ToolCall
<1>1. calls \in Seq(ToolCall) /\ Len(calls) \in Nat
  BY DEF Inv, Typed
<1>2. main = "pool" /\ Saved(Main) /\ worker[w].job \in 1 .. Len(calls)
  BY DEF Inv, PoolFits
<1>3. QED
  BY <1>1, <1>2, ElementOfSeq

\* A set of numbers has a first.
LEMMA FirstJob ==
    ASSUME NEW S \in SUBSET Nat, S # {}
    PROVE  (CHOOSE i \in S : \A k \in S : i <= k) \in S
<1> DEFINE R == {ss \in Nat \X Nat : ss[1] < ss[2]}
<1>1. IsWellFoundedOn(R, Nat)
  BY NatLessThanWellFounded DEF OpToRel
<1>2. \A a, b \in Nat : a < b => <<a, b>> \in R
  OBVIOUS
<1> HIDE DEF R
<1>3. PICK i \in S : \A k \in S : ~(<<k, i>> \in R)
  BY <1>1, WFMin
<1>4. ASSUME NEW k \in S PROVE i <= k
  <2>1. i \in Nat /\ k \in Nat /\ ~(k < i)
    BY <1>2, <1>3
  <2>2. QED
    BY <2>1
<1>5. QED
  BY <1>4

LEMMA TakePreserves ==
    ASSUME Inv, NEW w \in Workers, Take(w)
    PROVE  Inv'
<1>1. /\ main = "pool" /\ Saved(Main) /\ worker[w].at = "free" /\ jobs # {}
      /\ UNCHANGED <<session, main, calls, results, instructions, mutex, saving, file, rounds, crashes>>
  BY DEF Take
<1>2. Len(calls) \in Nat /\ jobs \subseteq 1 .. Len(calls)
  BY DEF Inv, Typed
<1>3. PICK i \in jobs : /\ worker' = [worker EXCEPT ![w] = [at |-> "tool", job |-> i]]
                        /\ jobs' = jobs \ {i}
  <2>1. (CHOOSE i \in jobs : \A k \in jobs : i <= k) \in jobs
    <3>1. PICK n, S : n = Len(calls) /\ S = jobs
      OBVIOUS
    <3>2. n \in Nat /\ S \subseteq 1 .. n /\ S # {}
      BY <1>1, <1>2, <3>1
    <3>3. (CHOOSE i \in S : \A k \in S : i <= k) \in S
      BY <3>2, FirstJob
    <3> QED BY <3>1, <3>3
  <2>2. QED
    BY <2>1 DEF Take
<1>4. i \in 1 .. Len(calls) /\ i \in Nat
  BY <1>2
<1>5. Works(w, "tool", i)
  BY <1>3, <1>4, WorksTyped
<1>6. UNCHANGED <<messages, todo, slugs, loaded, look, news, saving, main, calls, results>>
  BY <1>1 DEF session, instructions
<1>7. Typed'
  BY <1>1, <1>3, <1>5, <1>6 DEF Inv, Typed, Works
<1>8. PoolFits'
  <2>1. \A v \in Workers : Busy(v)' => main' = "pool" /\ Saved(Main)' /\ worker'[v].job \in 1 .. Len(calls')
    BY <1>1, <1>4, <1>5, <1>6 DEF Inv, PoolFits, Busy, Works, Saved
  <2>2. Saved(w)
    BY <1>1 DEF Inv, PoolFits
  <2>3. \A v \in Workers : ~Saved(v)' => worker'[v].at = "done"
    BY <1>5, <1>6, <2>2 DEF Inv, PoolFits, Works, Saved
  <2>4. ASSUME NEW k \in 1 .. Len(calls)
        PROVE  \/ k \in jobs' \/ results'[k] = calls'[k].id
               \/ \E v \in Workers : Busy(v)' /\ worker'[v].job = k
    <3>1. CASE k = i
      BY <1>5, <3>1 DEF Works, Busy
    <3>2. CASE k # i
      <4>1. \/ k \in jobs \/ results[k] = calls[k].id
            \/ \E v \in Workers : Busy(v) /\ worker[v].job = k
        BY <1>1 DEF Inv, PoolFits
      <4>2. \A v \in Workers : Busy(v) => v # w
        BY <1>1 DEF Busy
      <4>3. QED
        BY <1>3, <1>5, <1>6, <3>2, <4>1, <4>2 DEF Works, Busy
    <3>3. QED
      BY <3>1, <3>2
  <2>5. QED
    BY <1>1, <1>6, <2>1, <2>3, <2>4 DEF PoolFits
<1>9. QED
  BY <1>1, <1>6, <1>7, <1>8, PoolStep DEF Saved

\* A goroutine has executed its call, and may persist what it changed.
LEMMA ExecutedPreserves ==
    ASSUME Inv, NEW w \in Workers, worker[w].at = "tool", Executed(w),
           UNCHANGED <<messages, loaded, main, calls, jobs, results, look, news, file, rounds, crashes>>,
           todo' \in Nat, slugs' \in Nat, mutex' \in Workers \cup {"free"},
           saving' \in [Goroutines -> Saving],
           \A g \in Goroutines : saving'[g].at = "write" => saving'[g].inode # "none",
           \A g \in Goroutines \ {w} : saving'[g] = saving[g]
    PROVE  Inv'
<1>1. Busy(w)
  BY DEF Busy
<1>2. main = "pool" /\ Saved(Main) /\ worker[w].job \in 1 .. Len(calls) /\ worker[w].job \in Nat
  BY <1>1, BusyWorker
<1>3. worker' = [worker EXCEPT ![w] = [at |-> "done", job |-> worker[w].job]]
  <2>1. worker \in [Workers -> [at : {"free", "tool", "done"}, job : Nat]]
    BY DEF Inv, Typed
  <2>2. [worker[w] EXCEPT !.at = "done"] = [at |-> "done", job |-> worker[w].job]
    BY <2>1
  <2>3. QED
    BY <2>1, <2>2 DEF Executed
<1>4. PICK j \in Nat : j = worker[w].job
  BY <1>2
<1>5. Works(w, "done", j)
  BY <1>3, <1>4, WorksTyped
<1>6. Typed'
  BY <1>5 DEF Inv, Typed, Works
<1>7. Saved(Main)'
  BY <1>2, MainIsNoWorker DEF Saved
<1>8. PoolFits'
  <2>1. \A v \in Workers : worker'[v].job = worker[v].job /\ (Busy(v) <=> Busy(v)')
    BY <1>1, <1>4, <1>5 DEF Works, Busy
  <2>2. \A v \in Workers : Busy(v)' => main' = "pool" /\ Saved(Main)' /\ worker'[v].job \in 1 .. Len(calls')
    BY <1>2, <1>7, <2>1 DEF Inv, PoolFits
  <2>3. \A v \in Workers : ~Saved(v)' => worker'[v].at = "done"
    BY <1>5, MainIsNoWorker DEF Inv, PoolFits, Works, Saved
  <2>4. QED
    BY <1>2, <2>1, <2>2, <2>3 DEF Inv, PoolFits
<1>9. QED
  BY <1>2, <1>6, <1>7, <1>8, PoolStep

LEMMA SetTodoListPreserves ==
    ASSUME Inv, NEW w \in Workers, SetTodoList(w)
    PROVE  Inv'
<1>1. /\ worker[w].at = "tool" /\ todo' = todo + 1 /\ BeginSave(w) /\ Executed(w)
      /\ UNCHANGED <<messages, slugs, loaded, main, calls, jobs, results, look, news, mutex, file, rounds, crashes>>
  BY DEF SetTodoList, Executing, instructions
<1>2. Good(messages', loaded') /\ todo' \in Nat /\ slugs' \in Nat /\ mutex' \in Workers \cup {"free"}
  BY <1>1 DEF Inv, Typed
<1>3. QED
  BY <1>1, <1>2, BeginSaveTyped, ExecutedPreserves, MainIsNoWorker DEF Inv

LEMMA ReserveSlugPreserves ==
    ASSUME Inv, NEW w \in Workers, ReserveSlug(w)
    PROVE  Inv'
<1>1. /\ worker[w].at = "tool" /\ slugs' = slugs + 1 /\ BeginSave(w) /\ Executed(w) /\ mutex' = w
      /\ UNCHANGED <<messages, todo, loaded, main, calls, jobs, results, look, news, file, rounds, crashes>>
  BY DEF ReserveSlug, Executing, instructions
<1>2. Good(messages', loaded') /\ todo' \in Nat /\ slugs' \in Nat /\ mutex' \in Workers \cup {"free"}
  BY <1>1 DEF Inv, Typed
<1>3. QED
  BY <1>1, <1>2, BeginSaveTyped, ExecutedPreserves, MainIsNoWorker DEF Inv

LEMMA ReadPreserves ==
    ASSUME Inv, NEW w \in Workers, Read(w)
    PROVE  Inv'
<1>1. /\ worker[w].at = "tool" /\ Executed(w)
      /\ UNCHANGED <<messages, todo, slugs, loaded, main, calls, jobs, results, look, news, mutex, saving, file, rounds, crashes>>
  BY DEF Read, Executing, session, instructions
<1>2. todo' \in Nat /\ slugs' \in Nat /\ mutex' \in Workers \cup {"free"}
  BY <1>1 DEF Inv, Typed
<1>3. /\ saving' \in [Goroutines -> Saving]
      /\ \A g \in Goroutines : saving'[g].at = "write" => saving'[g].inode # "none"
  BY <1>1 DEF Inv, Typed
<1>4. QED
  BY <1>1, <1>2, <1>3, ExecutedPreserves

LEMMA RespondPreserves ==
    ASSUME Inv, NEW w \in Workers, Respond(w)
    PROVE  Inv'
<1>1. /\ worker[w].at = "done" /\ Saved(w)
      /\ results' = [results EXCEPT ![worker[w].job] = calls[worker[w].job].id]
      /\ worker' = [worker EXCEPT ![w] = [at |-> "free", job |-> 0]]
      /\ mutex' = IF mutex = w THEN "free" ELSE mutex
      /\ UNCHANGED <<messages, todo, slugs, loaded, main, calls, jobs, look, news, saving, file, rounds, crashes>>
  BY DEF Respond, Resting, session, instructions
<1>2. /\ main = "pool" /\ Saved(Main) /\ worker[w].job \in 1 .. Len(calls)
      /\ Len(calls) \in Nat /\ calls[worker[w].job] \in ToolCall
  BY <1>1, BusyWorker DEF Busy
<1>3. PICK j \in 1 .. Len(calls) : j = worker[w].job
  BY <1>2
<1>4. calls[j].id \in Id
  BY <1>2, <1>3 DEF ToolCall
<1>5. results' = [results EXCEPT ![j] = calls[j].id]
  BY <1>1, <1>3
<1>6. /\ results' \in Seq(Id \cup {<< >>}) /\ Len(results') = Len(calls)
      /\ \A k \in 1 .. Len(calls) : results'[k] = IF k = j THEN calls[j].id ELSE results[k]
  <2>1. results \in Seq(Id \cup {<< >>}) /\ j \in 1 .. Len(results) /\ Len(results) = Len(calls)
    BY DEF Inv, Typed
  <2>2. calls[j].id \in Id \cup {<< >>}
    BY <1>4
  <2>3. QED
    BY <1>5, <2>1, <2>2, ExceptSeq
<1>7. Works(w, "free", 0)
  BY <1>1, WorksTyped
<1>8. Typed'
  BY <1>1, <1>6, <1>7 DEF Inv, Typed, Works
<1>9. PoolFits'
  <2>1. \A v \in Workers : Busy(v)' => v # w /\ Busy(v) /\ worker'[v].job = worker[v].job
    BY <1>7 DEF Works, Busy
  <2>2. \A v \in Workers : Busy(v)' => main' = "pool" /\ Saved(Main)' /\ worker'[v].job \in 1 .. Len(calls')
    BY <1>1, <1>2, <2>1 DEF Inv, PoolFits, Saved
  <2>3. \A v \in Workers : ~Saved(v)' => worker'[v].at = "done"
    BY <1>1, <1>7 DEF Inv, PoolFits, Works, Saved
  <2>4. ASSUME NEW k \in 1 .. Len(calls)
        PROVE  \/ k \in jobs' \/ results'[k] = calls'[k].id
               \/ \E v \in Workers : Busy(v)' /\ worker'[v].job = k
    <3>1. CASE k = j
      BY <1>1, <1>6, <3>1
    <3>2. CASE k # j
      <4>1. \/ k \in jobs \/ results[k] = calls[k].id
            \/ \E v \in Workers : Busy(v) /\ worker[v].job = k
        BY <1>2 DEF Inv, PoolFits
      <4>2. \A v \in Workers : Busy(v) /\ worker[v].job = k => v # w
        BY <1>3, <3>2
      <4>3. QED
        BY <1>1, <1>6, <1>7, <3>2, <4>1, <4>2 DEF Works, Busy
    <3>3. QED
      BY <3>1, <3>2
  <2>5. QED
    BY <1>1, <1>2, <2>2, <2>3, <2>4 DEF PoolFits
<1>10. QED
  BY <1>1, <1>2, <1>8, <1>9, PoolStep DEF Saved

-----------------------------------------------------------------------------
(* The steps of Run.                                                       *)

\* When Run goes on, nobody else is at work and everybody has persisted.
LEMMA Alone ==
    ASSUME Inv, \/ main # "pool"
                \/ \A w \in Workers : worker[w].at = "free"
    PROVE  \A w \in Workers : ~Busy(w) /\ Saved(w)
  BY DEF Inv, PoolFits, Busy

\* A step of Run that does not persist.
LEMMA RunStep ==
    ASSUME Inv, Saved(Main), \A w \in Workers : Saved(w) /\ ~Busy(w)',
           UNCHANGED <<messages, saving, file>>,
           main' \in {"pool", "failed"}, messages[Len(messages)].is = "calls",
           main' = "pool" => calls' = messages[Len(messages)].calls,
           main' = "failed" => jobs' = {},
           main' = "pool" =>
               \A i \in 1 .. Len(calls') : i \in jobs' \/ results'[i] = calls'[i].id,
           Typed', Good(messages, loaded)', NewsFit'
    PROVE  Inv'
<1>1. Turns'
  BY DEF Turns
<1>2. Saved(Main)' /\ \A w \in Workers : Saved(w)'
  BY DEF Saved
<1>3. PoolFits'
  BY <1>2 DEF PoolFits
<1>4. MainSaves' /\ FileCurrentWhenIdle'
  BY <1>2 DEF MainSaves, FileCurrentWhenIdle
<1>5. QED
  BY <1>1, <1>3, <1>4 DEF Inv

\* A step of Run that persists.
LEMMA RunSaves ==
    ASSUME Inv, \A w \in Workers : Saved(w) /\ ~Busy(w)', BeginSave(Main),
           Good(messages, loaded)', todo' \in Nat, slugs' \in Nat,
           calls' \in Seq(ToolCall), jobs' \subseteq 1 .. Len(calls'),
           results' \in Seq(Id \cup {<< >>}), Len(results') = Len(calls'),
           worker' \in [Workers -> [at : {"free", "tool", "done"}, job : Nat]],
           look' \in [calls : Nat, files : Seq(AgentFiles)], news' \in Seq(AgentFiles),
           rounds' \in 0 .. MaxRounds, UNCHANGED <<mutex, file, crashes>>,
           main' \in {"chat", "pool", "agents"}, Turns',
           main' # "pool" => jobs' = {},
           main' = "pool" => jobs' = 1 .. Len(calls'),
           NewsFit'
    PROVE  Inv'
<1>1. /\ saving' \in [Goroutines -> Saving]
      /\ saving'[Main].at = "open" /\ saving'[Main].buf = Whole(Snapshot')
      /\ \A h \in Goroutines \ {Main} : saving'[h] = saving[h]
      /\ \A h \in Goroutines : saving'[h].at = "write" => saving'[h].inode # "none"
  BY MainIsNoWorker, BeginSaveTyped DEF Inv
<1>2. Typed'
  BY <1>1 DEF Inv, Typed
<1>3. ~Saved(Main)' /\ \A w \in Workers : Saved(w)'
  BY <1>1, MainIsNoWorker DEF Saved
<1>4. PoolFits'
  BY <1>3 DEF PoolFits
<1>5. MainSaves' /\ FileCurrentWhenIdle'
  <2>1. saving'[Main].buf = Whole(Snapshot)'
    BY <1>1 DEF Whole
  <2>2. QED
    BY <1>1, <1>3, <2>1 DEF MainSaves, FileCurrentWhenIdle
<1>6. QED
  BY <1>2, <1>4, <1>5 DEF Inv

\* The conversation, with a message that may follow.
LEMMA AppendMessageGood ==
    ASSUME Inv, NEW m \in Message, Follows(messages, loaded, m), AppendMessage(m)
    PROVE  /\ Good(messages, loaded)' /\ BeginSave(Main)
           /\ todo' \in Nat /\ slugs' \in Nat /\ loaded' = loaded
           /\ Len(messages') = Len(messages) + 1 /\ Len(messages) \in Nat
           /\ messages'[Len(messages')] = m
           /\ \A i \in 1 .. Len(messages) : messages'[i] = messages[i]
<1>1. Good(messages, loaded) /\ todo \in Nat /\ slugs \in Nat
  BY DEF Inv, Typed
<1>2. messages' = Append(messages, m) /\ BeginSave(Main) /\ UNCHANGED <<todo, slugs, loaded>>
  BY DEF AppendMessage
<1>3. Len(messages) \in Nat
  BY <1>1, LastMessage
<1>4. QED
  BY <1>1, <1>2, <1>3, AppendGood

LEMMA AnswerPreserves == ASSUME Inv, Answer PROVE Inv'
<1>1. /\ main = "chat" /\ Saved(Main) /\ rounds < MaxRounds /\ rounds' = rounds + 1
      /\ main' = "pool" /\ UNCHANGED <<look, news, mutex, file, crashes>>
  BY DEF Answer, instructions
<1>2. rounds' \in Nat /\ rounds' \in 0 .. MaxRounds
  BY <1>1, PoolAssumption DEF Inv, Typed
<1>3. PICK batch \in Batches :
          LET list == [i \in DOMAIN batch |-> [id |-> <<rounds', i>>, tool |-> batch[i]]]
          IN  AppendMessage([is |-> "calls", calls |-> list]) /\ StartPool(list)
  BY DEF Answer
<1>4. PICK r \in Nat : r = rounds'
  BY <1>2
<1> DEFINE list == [i \in DOMAIN batch |-> [id |-> <<r, i>>, tool |-> batch[i]]]
           m == [is |-> "calls", calls |-> list]
<1>5. AppendMessage(m) /\ StartPool(list)
  BY <1>3, <1>4
<1>6. list \in Seq(ToolCall)
  <2>1. batch \in Seq(DOMAIN FilesOf)
    BY PoolAssumption
  <2>2. DOMAIN batch = 1 .. Len(batch) /\ Len(batch) \in Nat
    BY <2>1, LenProperties
  <2>3. \A i \in 1 .. Len(batch) : batch[i] \in DOMAIN FilesOf
    BY <2>1, ElementOfSeq
  <2>4. \A i \in 1 .. Len(batch) : [id |-> <<r, i>>, tool |-> batch[i]] \in ToolCall
    BY <2>2, <2>3 DEF ToolCall, Id
  <2>5. QED
    BY <2>2, <2>4
<1>7. m \in Message /\ m.is = "calls" /\ m.calls = list
  BY <1>6 DEF Message
<1> HIDE DEF list, m
<1>8. Follows(messages, loaded, m)
  BY <1>1, <1>7 DEF Inv, Turns, Follows
<1>9. /\ Good(messages, loaded)' /\ BeginSave(Main)
      /\ todo' \in Nat /\ slugs' \in Nat /\ loaded' = loaded
      /\ Len(messages') = Len(messages) + 1 /\ Len(messages) \in Nat
      /\ messages'[Len(messages')] = m
      /\ \A i \in 1 .. Len(messages) : messages'[i] = messages[i]
  BY <1>5, <1>7, <1>8, AppendMessageGood
<1>10. /\ calls' = list /\ jobs' = 1 .. Len(list)
       /\ results' \in Seq(Id \cup {<< >>}) /\ Len(results') = Len(list)
       /\ worker' \in [Workers -> [at : {"free", "tool", "done"}, job : Nat]]
       /\ \A w \in Workers : worker'[w].at = "free"
  BY <1>5, <1>6, StartPoolTyped
<1>11. \A w \in Workers : Saved(w) /\ ~Busy(w)'
  BY <1>1, <1>10, Alone DEF Busy
<1>12. Turns'
  BY <1>1, <1>7, <1>9, <1>10 DEF Turns
<1>13. NewsFit'
  <2>1. \A i \in 1 .. Len(messages'), k \in 1 .. Len(news') :
            messages'[i].is = "agents" => messages'[i].file # news'[k]
    BY <1>1, <1>7, <1>9 DEF Inv, NewsFit
  <2>2. QED
    BY <1>1, <1>9, <2>1 DEF Inv, NewsFit
<1>14. look' \in [calls : Nat, files : Seq(AgentFiles)] /\ news' \in Seq(AgentFiles)
  BY <1>1 DEF Inv, Typed
<1>15. QED
  BY <1>1, <1>2, <1>6, <1>9, <1>10, <1>11, <1>12, <1>13, <1>14, RunSaves

LEMMA NoLookTyped == NoLook \in [calls : Nat, files : Seq(AgentFiles)]
  BY EmptySeq DEF NoLook

\* What Run knows when the goroutines are done.
LEMMA WaitedFor ==
    ASSUME Inv, Waited
    PROVE  /\ main = "pool" /\ Saved(Main) /\ jobs = {}
           /\ \A w \in Workers : Saved(w) /\ ~Busy(w)
           /\ messages[Len(messages)].is = "calls" /\ calls = messages[Len(messages)].calls
           /\ \A i \in 1 .. Len(calls) : results[i] = calls[i].id
<1>1. /\ main = "pool" /\ Saved(Main) /\ jobs = {}
      /\ \A w \in Workers : Saved(w) /\ ~Busy(w)
  BY Alone DEF Waited
<1>2. QED
  BY <1>1 DEF Inv, Turns, PoolFits

LEMMA LookAtCallPreserves == ASSUME Inv, LookAtCall PROVE Inv'
<1>1. /\ Waited /\ look.calls < Len(calls)
      /\ UNCHANGED <<messages, todo, slugs, loaded, calls, jobs, worker, results, mutex, saving, file, rounds, crashes>>
  BY DEF LookAtCall, session, pool
<1>2. /\ main = "pool" /\ Saved(Main) /\ jobs = {}
      /\ \A w \in Workers : Saved(w) /\ ~Busy(w)
      /\ messages[Len(messages)].is = "calls" /\ calls = messages[Len(messages)].calls
      /\ \A i \in 1 .. Len(calls) : results[i] = calls[i].id
  BY <1>1, WaitedFor
<1>3. look.calls + 1 \in Nat /\ FilesOf[calls[look.calls + 1].tool] \in Seq(AgentFiles)
  <2>1. look.calls \in Nat /\ calls \in Seq(ToolCall) /\ Len(calls) \in Nat
    BY DEF Inv, Typed
  <2>2. calls[look.calls + 1] \in ToolCall
    BY <1>1, <2>1, ElementOfSeq
  <2>3. QED
    BY <2>1, <2>2, PoolAssumption DEF ToolCall
<1>4. \A w \in Workers : ~Busy(w)'
  BY <1>1, <1>2 DEF Busy
<1>5. CASE main' = "failed"
  <2>1. look' = NoLook /\ news' = << >>
    BY <1>2, <1>5 DEF LookAtCall
  <2>2. Typed'
    BY <1>1, <1>5, <2>1, NoLookTyped DEF Inv, Typed
  <2>3. NewsFit'
    BY <1>5, <2>1, EmptySeq DEF NewsFit
  <2>4. Good(messages, loaded)'
    BY <1>1 DEF Inv
  <2>5. QED
    BY <1>1, <1>2, <1>4, <1>5, <2>2, <2>3, <2>4, RunStep
<1>6. CASE main' # "failed"
  <2>1. main' = main /\ news' = news
        /\ look' = [calls |-> look.calls + 1, files |-> FilesOf[calls[look.calls + 1].tool]]
    BY <1>6 DEF LookAtCall
  <2>2. Typed'
    BY <1>1, <1>3, <2>1 DEF Inv, Typed
  <2>3. NewsFit'
    BY <1>1, <1>2, <2>1 DEF Inv, NewsFit
  <2>4. Good(messages, loaded)'
    BY <1>1 DEF Inv
  <2>5. QED
    BY <1>1, <1>2, <1>4, <2>1, <2>2, <2>3, <2>4, RunStep
<1>7. QED
  BY <1>5, <1>6

LEMMA LoadFilePreserves == ASSUME Inv, LoadFile PROVE Inv'
<1>1. /\ Waited /\ look.files # << >> /\ look' = [look EXCEPT !.files = Tail(look.files)]
      /\ UNCHANGED <<messages, todo, slugs, main, calls, jobs, worker, results, mutex, saving, file, rounds, crashes>>
  BY DEF LoadFile, pool
<1>2. /\ main = "pool" /\ Saved(Main) /\ jobs = {}
      /\ \A w \in Workers : Saved(w) /\ ~Busy(w)
      /\ messages[Len(messages)].is = "calls" /\ calls = messages[Len(messages)].calls
      /\ \A i \in 1 .. Len(calls) : results[i] = calls[i].id
  BY <1>1, WaitedFor
<1>3. look.files \in Seq(AgentFiles) /\ Good(messages, loaded) /\ news \in Seq(AgentFiles) /\ Len(news) \in Nat
  BY DEF Inv, Typed
<1>4. PICK f \in AgentFiles : f = Head(look.files)
  BY <1>1, <1>3, HeadTailProperties
<1>5. loaded' = loaded \cup {f} /\ news' = IF f \in loaded THEN news ELSE Append(news, f)
  BY <1>4 DEF LoadFile
<1>6. Good(messages, loaded)'
  <2>1. loaded \cup {f} \subseteq AgentFiles
    BY <1>3 DEF Good
  <2>2. QED
    BY <1>1, <1>3, <1>5, <2>1, MoreLoaded
<1>7. /\ news' \in Seq(AgentFiles)
      /\ f \in loaded => news' = news
      /\ f \notin loaded => /\ Len(news') = Len(news) + 1 /\ news'[Len(news) + 1] = f
                            /\ \A i \in 1 .. Len(news) : news'[i] = news[i]
  BY <1>3, <1>5, AppendProperties
<1>8. NewsFit'
  <2>1. CASE f \in loaded
    BY <1>1, <1>2, <1>5, <1>7, <2>1 DEF Inv, NewsFit
  <2>2. CASE f \notin loaded
    <3>1. \A i \in 1 .. Len(news) : news[i] # f /\ news[i] \in loaded
      BY <2>2 DEF Inv, NewsFit
    <3>2. \A i \in 1 .. Len(messages) : messages[i].is = "agents" => messages[i].file # f
      BY <1>3, <2>2 DEF Good, AllLoaded
    <3>3. \A i \in 1 .. Len(news') : i \in 1 .. Len(news) \/ i = Len(news) + 1
      BY <1>3, <1>7, <2>2
    <3>4. \A i \in 1 .. Len(news') : news'[i] \in loaded'
      BY <1>5, <1>7, <2>2, <3>1, <3>3
    <3>5. \A i, k \in 1 .. Len(news') : news'[i] = news'[k] => i = k
      BY <1>7, <2>2, <3>1, <3>3 DEF Inv, NewsFit
    <3>6. \A i \in 1 .. Len(messages'), k \in 1 .. Len(news') :
              messages'[i].is = "agents" => messages'[i].file # news'[k]
      BY <1>1, <1>7, <2>2, <3>2, <3>3 DEF Inv, NewsFit
    <3>7. QED
      BY <1>1, <1>2, <3>4, <3>5, <3>6 DEF NewsFit
  <2>3. QED
    BY <2>1, <2>2
<1>9. Typed'
  <2>1. look' \in [calls : Nat, files : Seq(AgentFiles)]
    <3>1. Tail(look.files) \in Seq(AgentFiles)
      BY <1>1, <1>3, HeadTailProperties
    <3>2. QED
      BY <1>1, <3>1 DEF Inv, Typed
  <2>2. QED
    BY <1>1, <1>7, <2>1 DEF Inv, Typed
<1>10. \A w \in Workers : ~Busy(w)'
  BY <1>1, <1>2 DEF Busy
<1>11. QED
  BY <1>1, <1>2, <1>6, <1>8, <1>9, <1>10, RunStep

LEMMA CollectPreserves == ASSUME Inv, Collect PROVE Inv'
<1>1. /\ Waited /\ AppendMessage([is |-> "results", of |-> results])
      /\ look' = NoLook /\ main' = "agents"
      /\ UNCHANGED <<calls, jobs, worker, results, news, mutex, file, rounds, crashes>>
  BY DEF Collect, Looked, pool
<1>2. /\ main = "pool" /\ jobs = {}
      /\ \A w \in Workers : Saved(w) /\ ~Busy(w)
      /\ messages[Len(messages)].is = "calls" /\ calls = messages[Len(messages)].calls
      /\ \A i \in 1 .. Len(calls) : results[i] = calls[i].id
  BY <1>1, WaitedFor
<1>3. PICK rs \in Seq(Id \cup {<< >>}) : rs = results
  BY DEF Inv, Typed
<1>4. /\ calls \in Seq(ToolCall) /\ Len(calls) \in Nat /\ DOMAIN calls = 1 .. Len(calls)
      /\ Len(rs) = Len(calls) /\ DOMAIN rs = 1 .. Len(calls)
  BY <1>3, LenProperties DEF Inv, Typed
<1>5. rs = [k \in DOMAIN calls |-> calls[k].id]
  BY <1>2, <1>3, <1>4
<1>6. rs \in Seq(Id)
  <2>1. \A k \in 1 .. Len(calls) : calls[k].id \in Id
    <3>1. \A k \in 1 .. Len(calls) : calls[k] \in ToolCall
      BY <1>4, ElementOfSeq
    <3>2. QED
      BY <3>1 DEF ToolCall
  <2>2. QED
    BY <1>4, <1>5, <2>1
<1> DEFINE m == [is |-> "results", of |-> rs]
<1>7. m \in Message /\ m.is = "results" /\ m.of = rs
  BY <1>6 DEF Message
<1>8. AppendMessage(m)
  BY <1>1, <1>3
<1> HIDE DEF m
<1>9. Follows(messages, loaded, m)
  BY <1>2, <1>5, <1>7 DEF Follows
<1>10. /\ Good(messages, loaded)' /\ BeginSave(Main)
       /\ todo' \in Nat /\ slugs' \in Nat /\ loaded' = loaded
       /\ Len(messages') = Len(messages) + 1 /\ Len(messages) \in Nat
       /\ messages'[Len(messages')] = m
       /\ \A i \in 1 .. Len(messages) : messages'[i] = messages[i]
  BY <1>7, <1>8, <1>9, AppendMessageGood
<1>11. Turns'
  BY <1>1, <1>7, <1>10 DEF Turns
<1>12. NewsFit'
  <2>1. \A i \in 1 .. Len(messages'), k \in 1 .. Len(news') :
            messages'[i].is = "agents" => messages'[i].file # news'[k]
    BY <1>1, <1>7, <1>10 DEF Inv, NewsFit
  <2>2. QED
    BY <1>1, <1>10, <2>1 DEF Inv, NewsFit
<1>13. \A w \in Workers : Saved(w) /\ ~Busy(w)'
  BY <1>1, <1>2 DEF Busy
<1>14. /\ calls' \in Seq(ToolCall) /\ jobs' \subseteq 1 .. Len(calls')
       /\ results' \in Seq(Id \cup {<< >>}) /\ Len(results') = Len(calls')
       /\ worker' \in [Workers -> [at : {"free", "tool", "done"}, job : Nat]]
       /\ look' \in [calls : Nat, files : Seq(AgentFiles)] /\ news' \in Seq(AgentFiles)
       /\ rounds' \in 0 .. MaxRounds
  BY <1>1, NoLookTyped DEF Inv, Typed
<1>15. QED
  BY <1>1, <1>2, <1>10, <1>11, <1>12, <1>13, <1>14, RunSaves

LEMMA AppendAgentsPreserves == ASSUME Inv, AppendAgents PROVE Inv'
<1>1. /\ main = "agents" /\ Saved(Main) /\ news # << >> /\ news' = Tail(news)
      /\ AppendMessage([is |-> "agents", file |-> Head(news)])
      /\ UNCHANGED <<main, calls, jobs, worker, results, look, mutex, file, rounds, crashes>>
  BY DEF AppendAgents, pool
<1>2. news \in Seq(AgentFiles)
  BY DEF Inv, Typed
<1>3. /\ news' \in Seq(AgentFiles) /\ Len(news) \in Nat /\ Len(news') \in Nat
      /\ Len(news') = Len(news) - 1 /\ 1 \in 1 .. Len(news)
      /\ \A k \in 1 .. Len(news') : news'[k] = news[k + 1] /\ k + 1 \in 1 .. Len(news) /\ k + 1 # 1
  BY <1>1, <1>2, HeadTailProperties, EmptySeq
<1>4. PICK f \in AgentFiles : f = news[1] /\ f = Head(news)
  BY <1>1, <1>2, HeadTailProperties
<1>5. /\ f \in loaded
      /\ \A i \in 1 .. Len(messages) : messages[i].is = "agents" => messages[i].file # f
  BY <1>3, <1>4 DEF Inv, NewsFit
<1> DEFINE m == [is |-> "agents", file |-> f]
<1>6. m \in Message /\ m.is = "agents" /\ m.file = f
  BY DEF Message
<1>7. AppendMessage(m)
  BY <1>1, <1>4
<1> HIDE DEF m
<1>8. Follows(messages, loaded, m)
  BY <1>1, <1>5, <1>6 DEF Inv, Turns, Follows
<1>9. /\ Good(messages, loaded)' /\ BeginSave(Main)
      /\ todo' \in Nat /\ slugs' \in Nat /\ loaded' = loaded
      /\ Len(messages') = Len(messages) + 1 /\ Len(messages) \in Nat
      /\ messages'[Len(messages')] = m
      /\ \A i \in 1 .. Len(messages) : messages'[i] = messages[i]
  BY <1>6, <1>7, <1>8, AppendMessageGood
<1>10. Turns'
  BY <1>1, <1>6, <1>9 DEF Turns
<1>11. NewsFit'
  <2>1. \A k \in 1 .. Len(news') : news'[k] \in loaded /\ news'[k] # f
    BY <1>3, <1>4 DEF Inv, NewsFit
  <2>2. \A i, k \in 1 .. Len(news') : news'[i] = news'[k] => i = k
    <3>1. ASSUME NEW i \in 1 .. Len(news'), NEW k \in 1 .. Len(news'), news'[i] = news'[k]
          PROVE  i + 1 = k + 1
      BY <1>3, <3>1 DEF Inv, NewsFit
    <3>2. QED
      BY <3>1
  <2>3. ASSUME NEW i \in 1 .. Len(messages'), NEW k \in 1 .. Len(news'), messages'[i].is = "agents"
        PROVE  messages'[i].file # news'[k]
    <3>1. CASE i \in 1 .. Len(messages)
      <4>1. messages[i].is = "agents" /\ messages'[i] = messages[i]
        BY <1>9, <2>3, <3>1
      <4>2. messages[i].file # news[k + 1]
        BY <1>3, <3>1, <4>1 DEF Inv, NewsFit
      <4>3. QED
        BY <1>3, <4>1, <4>2
    <3>2. CASE i = Len(messages')
      BY <1>6, <1>9, <2>1, <3>2
    <3>3. QED
      BY <1>9, <3>1, <3>2
  <2>4. QED
    BY <1>1, <1>9, <2>1, <2>2, <2>3 DEF NewsFit
<1>12. \A w \in Workers : Saved(w) /\ ~Busy(w)'
  BY <1>1, Alone DEF Busy
<1>13. /\ calls' \in Seq(ToolCall) /\ jobs' \subseteq 1 .. Len(calls')
       /\ results' \in Seq(Id \cup {<< >>}) /\ Len(results') = Len(calls')
       /\ worker' \in [Workers -> [at : {"free", "tool", "done"}, job : Nat]]
       /\ look' \in [calls : Nat, files : Seq(AgentFiles)] /\ rounds' \in 0 .. MaxRounds
  BY <1>1 DEF Inv, Typed
<1>14. jobs' = {}
  BY <1>1 DEF Inv, PoolFits
<1>15. QED
  BY <1>1, <1>3, <1>9, <1>10, <1>11, <1>12, <1>13, <1>14, RunSaves

LEMMA EndCallsPreserves == ASSUME Inv, EndCalls PROVE Inv'
<1>1. /\ main = "agents" /\ main' = "chat" /\ BeginSave(Main) /\ calls' = << >> /\ results' = << >>
      /\ UNCHANGED <<messages, todo, slugs, loaded, jobs, worker, look, news, mutex, file, rounds, crashes>>
  BY DEF EndCalls, session, instructions
<1>2. jobs = {} /\ \A w \in Workers : Saved(w) /\ ~Busy(w)'
  BY <1>1, Alone DEF Inv, PoolFits, Busy
<1>3. Turns' /\ NewsFit'
  BY <1>1 DEF Inv, Turns, NewsFit
<1>4. Good(messages, loaded)' /\ todo' \in Nat /\ slugs' \in Nat
  BY <1>1 DEF Inv, Typed
<1>5. /\ calls' \in Seq(ToolCall) /\ results' \in Seq(Id \cup {<< >>}) /\ Len(results') = Len(calls')
  BY <1>1, EmptySeq
<1>6. /\ worker' \in [Workers -> [at : {"free", "tool", "done"}, job : Nat]]
      /\ look' \in [calls : Nat, files : Seq(AgentFiles)] /\ news' \in Seq(AgentFiles)
      /\ rounds' \in 0 .. MaxRounds
  BY <1>1 DEF Inv, Typed
<1>7. QED
  BY <1>1, <1>2, <1>3, <1>4, <1>5, <1>6, RunSaves

LEMMA RunAgainPreserves == ASSUME Inv, RunAgain PROVE Inv'
<1>1. /\ main = "failed" /\ main' = "pool" /\ rounds < MaxRounds /\ rounds' = rounds + 1
      /\ StartPool(messages[Len(messages)].calls)
      /\ UNCHANGED <<messages, todo, slugs, loaded, look, news, mutex, saving, file, crashes>>
  BY DEF RunAgain, Last, session, instructions
<1>2. Saved(Main) /\ \A w \in Workers : Saved(w)
  BY <1>1, Alone DEF Inv, MainSaves
<1>3. messages[Len(messages)].is = "calls" /\ messages[Len(messages)] \in Message
  BY <1>1, LastMessage DEF Inv, Turns
<1>4. PICK list \in Seq(ToolCall) : list = messages[Len(messages)].calls
  BY <1>3, MessageKinds
<1>5. /\ calls' = list /\ jobs' = 1 .. Len(list)
      /\ results' \in Seq(Id \cup {<< >>}) /\ Len(results') = Len(list)
      /\ worker' \in [Workers -> [at : {"free", "tool", "done"}, job : Nat]]
      /\ \A w \in Workers : worker'[w].at = "free"
  BY <1>1, <1>4, StartPoolTyped
<1>6. rounds' \in 0 .. MaxRounds
  BY <1>1, PoolAssumption DEF Inv, Typed
<1>7. Typed'
  BY <1>1, <1>5, <1>6 DEF Inv, Typed
<1>8. Good(messages, loaded)' /\ NewsFit'
  BY <1>1 DEF Inv, NewsFit
<1>9. QED
  BY <1>1, <1>2, <1>3, <1>4, <1>5, <1>7, <1>8, RunStep DEF Busy

-----------------------------------------------------------------------------
(* A kill, and what is restored.                                           *)

LEMMA RestingTyped ==
    /\ [w \in Workers |-> Resting] \in [Workers -> [at : {"free", "tool", "done"}, job : Nat]]
    /\ [g \in Goroutines |-> NotSaving] \in [Goroutines -> Saving]
    /\ Resting.at = "free" /\ NotSaving.at = "no"
<1>1. Resting \in [at : {"free", "tool", "done"}, job : Nat] /\ Resting.at = "free"
  BY DEF Resting
<1>2. NotSaving \in Saving /\ NotSaving.at = "no"
  BY TextFacts DEF NotSaving, Saving
<1>3. QED
  BY <1>1, <1>2

LEMMA CrashPreserves == ASSUME Inv, Crash PROVE Inv'
<1>1. /\ main' = "dead" /\ crashes < MaxCrashes /\ crashes' = crashes + 1
      /\ calls' = << >> /\ jobs' = {} /\ results' = << >> /\ worker' = [w \in Workers |-> Resting]
      /\ look' = NoLook /\ news' = << >> /\ mutex' = "free"
      /\ saving' = [g \in Goroutines |-> NotSaving]
      /\ UNCHANGED <<messages, todo, slugs, loaded, file, rounds>>
  BY DEF Crash, session
<1>2. crashes' \in 0 .. MaxCrashes
  BY <1>1, PoolAssumption DEF Inv, Typed
<1>3. /\ calls' \in Seq(ToolCall) /\ results' \in Seq(Id \cup {<< >>}) /\ Len(results') = Len(calls')
      /\ news' \in Seq(AgentFiles) /\ Len(news') = 0
  BY <1>1, EmptySeq
<1>4. /\ \A g \in Goroutines : saving'[g].at = "no"
      /\ \A w \in Workers : worker'[w].at = "free"
  BY <1>1, RestingTyped
<1>5. Typed'
  <2>1. /\ worker' \in [Workers -> [at : {"free", "tool", "done"}, job : Nat]]
        /\ saving' \in [Goroutines -> Saving] /\ look' \in [calls : Nat, files : Seq(AgentFiles)]
    BY <1>1, RestingTyped, NoLookTyped
  <2>2. QED
    BY <1>1, <1>2, <1>3, <1>4, <2>1 DEF Inv, Typed
<1>6. \A g \in Goroutines : Saved(g)'
  BY <1>4 DEF Saved
<1>7. PoolFits'
  BY <1>1, <1>4, <1>6, MainIsNoWorker DEF PoolFits, Busy
<1>8. NewsFit'
  BY <1>1, <1>3, <1>6 DEF NewsFit
<1>9. Turns' /\ MainSaves' /\ FileCurrentWhenIdle'
  BY <1>1, <1>6, MainIsNoWorker DEF Turns, MainSaves, FileCurrentWhenIdle
<1>10. QED
  BY <1>1, <1>5, <1>7, <1>8, <1>9 DEF Inv

LEMMA RestorePreserves == ASSUME Inv, Restore PROVE Inv'
<1>1. /\ main = "dead" /\ file.final.is = "whole"
      /\ UNCHANGED <<look, news, mutex, saving, file, rounds, crashes>>
  BY DEF Restore, instructions
<1>2. PICK s \in Sessions : s = file.final.of /\ file.final = Whole(s)
  BY <1>1, TextFacts DEF Inv, Typed
<1>3. /\ messages' = s.messages /\ todo' = s.todo /\ slugs' = s.slugs /\ loaded' = s.loaded
      /\ \/ /\ messages'[Len(messages')].is = "calls"
            /\ StartPool(messages'[Len(messages')].calls) /\ main' = "pool"
         \/ /\ messages'[Len(messages')].is # "calls"
            /\ UNCHANGED <<calls, jobs, worker, results>> /\ main' = "chat"
  BY <1>2 DEF Restore, Last, pool
<1>4. /\ Good(messages, loaded)' /\ todo' \in Nat /\ slugs' \in Nat
      /\ s = [messages |-> s.messages, todo |-> s.todo, slugs |-> s.slugs, loaded |-> s.loaded]
  BY <1>3, SessionFacts
<1>5. news = << >> /\ jobs = {} /\ (\A g \in Goroutines : Saved(g) /\ Saved(g)')
      /\ \A w \in Workers : ~Busy(w)
  BY <1>1, Alone DEF Inv, NewsFit, PoolFits, Saved
<1>6. NewsFit'
  <2>1. main' # "dead" /\ Len(news') = 0
    BY <1>1, <1>3, <1>5, EmptySeq
  <2>2. QED
    BY <2>1 DEF NewsFit
<1>7. FileCurrentWhenIdle' /\ MainSaves'
  <2>1. Snapshot' = s
    BY <1>3, <1>4 DEF Snapshot
  <2>2. file'.final = Whole(Snapshot)'
    BY <1>1, <1>2, <2>1 DEF Whole
  <2>3. QED
    BY <1>5, <2>2, MainIsNoWorker DEF FileCurrentWhenIdle, MainSaves
<1>8. CASE main' = "pool"
  <2>1. messages'[Len(messages')].is = "calls" /\ messages'[Len(messages')] \in Message
    BY <1>3, <1>4, <1>8, LastMessage
  <2>2. PICK list \in Seq(ToolCall) : list = messages'[Len(messages')].calls
    BY <2>1, MessageKinds
  <2>3. /\ calls' = list /\ jobs' = 1 .. Len(list)
        /\ results' \in Seq(Id \cup {<< >>}) /\ Len(results') = Len(list)
        /\ worker' \in [Workers -> [at : {"free", "tool", "done"}, job : Nat]]
        /\ \A w \in Workers : worker'[w].at = "free"
    BY <1>3, <1>8, <2>2, StartPoolTyped
  <2>4. Typed'
    BY <1>1, <1>4, <1>8, <2>3 DEF Inv, Typed
  <2>5. Turns'
    BY <1>8, <2>1, <2>2, <2>3 DEF Turns
  <2>6. PoolFits'
    BY <1>5, <1>8, <2>3, MainIsNoWorker DEF PoolFits, Busy
  <2>7. QED
    BY <1>4, <1>6, <1>7, <2>4, <2>5, <2>6 DEF Inv
<1>9. CASE main' = "chat"
  <2>1. messages'[Len(messages')].is # "calls" /\ UNCHANGED <<calls, jobs, worker, results>>
    BY <1>3, <1>9
  <2>2. Typed'
    BY <1>1, <1>4, <1>9, <2>1 DEF Inv, Typed
  <2>3. Turns'
    BY <1>9, <2>1 DEF Turns
  <2>4. PoolFits'
    BY <1>5, <1>9, <2>1, MainIsNoWorker DEF PoolFits, Busy
  <2>5. QED
    BY <1>4, <1>6, <1>7, <2>2, <2>3, <2>4 DEF Inv
<1>10. QED
  BY <1>3, <1>8, <1>9

-----------------------------------------------------------------------------
(* The invariant of the specification, and what it says.                   *)

LEMMA InvInit == ASSUME PoolInit PROVE Inv
<1>1. /\ messages = <<[is |-> "prompt"]>> /\ todo = 0 /\ slugs = 0 /\ loaded = {} /\ main = "chat"
      /\ calls = << >> /\ jobs = {} /\ results = << >> /\ worker = [w \in Workers |-> Resting]
      /\ look = NoLook /\ news = << >> /\ mutex = "free" /\ saving = [g \in Goroutines |-> NotSaving]
      /\ file = [tmp |-> Absent, final |-> Whole(Snapshot)] /\ rounds = 0 /\ crashes = 0
  BY DEF PoolInit
<1>2. /\ messages \in Seq(Message) /\ Len(messages) = 1 /\ messages[1].is = "prompt" /\ messages # << >>
  <2>1. [is |-> "prompt"] \in Message
    BY DEF Message
  <2>2. QED
    BY <1>1, <2>1
<1>3. Good(messages, loaded)
  <2>1. \A i \in 1 .. Len(messages) : messages[i].is = "prompt"
    BY <1>2
  <2>2. QED
    BY <1>1, <1>2, <2>1 DEF Good, InOrder, Once, AllLoaded
<1>4. Snapshot \in Sessions
  BY <1>1, <1>3, SessionFacts DEF Snapshot
<1>5. Typed
  <2>1. /\ worker \in [Workers -> [at : {"free", "tool", "done"}, job : Nat]]
        /\ saving \in [Goroutines -> Saving] /\ look \in [calls : Nat, files : Seq(AgentFiles)]
        /\ \A g \in Goroutines : saving[g].at = "no"
    BY <1>1, RestingTyped, NoLookTyped
  <2>2. file \in [tmp : Texts, final : Texts]
    BY <1>1, <1>4, TextFacts
  <2>3. calls \in Seq(ToolCall) /\ results \in Seq(Id \cup {<< >>}) /\ Len(results) = Len(calls) /\ news \in Seq(AgentFiles)
    BY <1>1, EmptySeq
  <2>4. QED
    BY <1>1, <2>1, <2>2, <2>3, PoolAssumption DEF Typed
<1>6. /\ \A g \in Goroutines : Saved(g)
      /\ \A w \in Workers : worker[w].at = "free"
  BY <1>1, RestingTyped DEF Saved
<1>7. PoolFits
  BY <1>1, <1>6, MainIsNoWorker DEF PoolFits, Busy
<1>8. NewsFit
  <2>1. Len(news) = 0
    BY <1>1, EmptySeq
  <2>2. QED
    BY <1>1, <2>1 DEF NewsFit
<1>9. Turns /\ MainSaves /\ FileCurrentWhenIdle
  BY <1>1, <1>2, <1>6, MainIsNoWorker DEF Turns, MainSaves, FileCurrentWhenIdle
<1>10. QED
  BY <1>3, <1>5, <1>7, <1>8, <1>9 DEF Inv

LEMMA InvStep == ASSUME Inv, [PoolNext]_poolVars PROVE Inv'
<1>1. ASSUME NEW w \in Workers, Take(w) \/ SetTodoList(w) \/ ReserveSlug(w) \/ Read(w) \/ Respond(w)
      PROVE  Inv'
  BY <1>1, TakePreserves, SetTodoListPreserves, ReserveSlugPreserves, ReadPreserves, RespondPreserves
<1>2. ASSUME NEW g \in Goroutines, OpenTmp(g) \/ WriteTmp(g) \/ RenameTmp(g)
      PROVE  Inv'
  BY <1>2, OpenTmpPreserves, WriteTmpPreserves, RenameTmpPreserves
<1>3. CASE Answer \/ LookAtCall \/ LoadFile \/ Collect \/ AppendAgents \/ EndCalls \/ RunAgain
  BY <1>3, AnswerPreserves, LookAtCallPreserves, LoadFilePreserves, CollectPreserves,
     AppendAgentsPreserves, EndCallsPreserves, RunAgainPreserves
<1>4. CASE Crash \/ Restore
  BY <1>4, CrashPreserves, RestorePreserves
<1>5. CASE UNCHANGED poolVars
  <2>1. UNCHANGED <<messages, todo, slugs, loaded, main, calls, jobs, worker, results, look, news,
                    mutex, saving, file, rounds, crashes>>
    BY <1>5 DEF poolVars, session, pool, instructions
  <2>2. Typed' /\ Good(messages, loaded)' /\ Turns' /\ NewsFit'
    BY <2>1 DEF Inv, Typed, Turns, NewsFit, Saved
  <2>3. PoolFits'
    BY <2>1 DEF Inv, PoolFits, Busy, Saved
  <2>4. Snapshot' = Snapshot
    BY <2>1 DEF Snapshot
  <2>5. MainSaves' /\ FileCurrentWhenIdle'
    BY <2>1, <2>4 DEF Inv, MainSaves, FileCurrentWhenIdle, Saved, Whole
  <2>6. QED
    BY <2>2, <2>3, <2>5 DEF Inv
<1>6. QED
  BY <1>1, <1>2, <1>3, <1>4, <1>5 DEF PoolNext

LEMMA InvAlways == PoolSpec => []Inv
<1>1. PoolInit => Inv
  BY InvInit
<1>2. Inv /\ [PoolNext]_poolVars => Inv'
  BY InvStep
<1>3. QED
  BY <1>1, <1>2, PTL DEF PoolSpec

\* Whatever the persists of the tools did to each other's session.json.tmp, when the
\* session waits for the model session.json holds it as it is, for any number of
\* goroutines and any calls (persistSessionStateFile, executeToolCalls).
THEOREM FileStaysCurrent == PoolSpec => []FileCurrentWhenIdle
<1>1. Inv => FileCurrentWhenIdle
  BY DEF Inv
<1>2. QED
  BY <1>1, InvAlways, PTL

\* Every call has one response, in its place, and the instructions of an AGENTS.md are
\* in the conversation once, whatever the pool does and however often the session is
\* killed and restored (executeToolCalls, buildAdditionalAgentMessageForDir).
THEOREM ResultsStayInPlace == PoolSpec => []ToolResultsInPlace
<1>1. ASSUME Inv PROVE PoolTypeOK
  <2>1. DOMAIN calls = 1 .. Len(calls)
    BY <1>1, LenProperties DEF Inv, Typed
  <2>2. \A w \in Workers : worker[w] \in [at : {"free", "tool", "done"}, job : Nat]
    BY <1>1 DEF Inv, Typed
  <2>3. \A w \in Workers : worker[w].at # "free" => worker[w].job \in DOMAIN calls
    BY <1>1, <2>1 DEF Inv, PoolFits, Busy
  <2>4. \A g \in Goroutines : saving[g].at \in {"no", "open", "write", "rename"}
    BY <1>1 DEF Inv, Typed, Saving
  <2>5. QED
    BY <1>1, <2>2, <2>3, <2>4 DEF Inv, Typed, PoolTypeOK
<1>2. ASSUME Inv PROVE CallsAnsweredInOrder /\ AgentFilesOnce
  <2>1. DOMAIN messages = 1 .. Len(messages)
    BY <1>2, LenProperties DEF Inv, Good
  <2>2. InOrder(messages) /\ Once(messages)
    BY <1>2 DEF Inv, Good
  <2>3. QED
    BY <2>1, <2>2 DEF InOrder, Once, CallsAnsweredInOrder, AgentFilesOnce
<1>3. Inv => ToolResultsInPlace
  BY <1>1, <1>2 DEF ToolResultsInPlace
<1>4. QED
  BY <1>3, InvAlways, PTL
-----------------------------------------------------------------------------
(* FileTools: the names of a path, and what is in what.                    *)

Names == Seq(STRING)

LEMMA UnderMeans ==
  ASSUME NEW q \in Names, NEW top \in Names
  PROVE  Under(q, top) <=> Len(top) <= Len(q) /\ \A i \in 1 .. Len(top) : q[i] = top[i]
<1>1. ASSUME Len(top) <= Len(q)
      PROVE  /\ SubSeq(q, 1, Len(top)) \in Names /\ Len(SubSeq(q, 1, Len(top))) = Len(top)
             /\ \A i \in 1 .. Len(top) : SubSeq(q, 1, Len(top))[i] = q[i]
  BY <1>1, SubSeqProperties DEF Names
<1>2. SubSeq(top, 1, Len(top)) = top
  BY SubSeqFull DEF Names
<1>3. ASSUME Len(top) <= Len(q), \A i \in 1 .. Len(top) : q[i] = top[i]
      PROVE  SubSeq(q, 1, Len(top)) = top
  BY <1>1, <1>3, SeqEqual DEF Names
<1> QED BY <1>1, <1>2, <1>3 DEF Under, IsPrefix

LEMMA UnderItself == \A q \in Names : Under(q, q)
  BY UnderMeans DEF Names

LEMMA UnderOfUnder ==
  \A q, a, b \in Names : Under(q, a) /\ Under(a, b) => Under(q, b)
<1> SUFFICES ASSUME NEW q \in Names, NEW a \in Names, NEW b \in Names, Under(q, a), Under(a, b)
             PROVE  Under(q, b)
  OBVIOUS
<1>1. Len(q) \in Nat /\ Len(a) \in Nat /\ Len(b) \in Nat
  BY DEF Names
<1>2. /\ Len(a) <= Len(q) /\ \A i \in 1 .. Len(a) : q[i] = a[i]
      /\ Len(b) <= Len(a) /\ \A i \in 1 .. Len(b) : a[i] = b[i]
  BY UnderMeans
<1>3. \A i \in 1 .. Len(b) : i \in 1 .. Len(a)
  BY <1>1, <1>2
<1>4. Len(b) <= Len(q) /\ \A i \in 1 .. Len(b) : q[i] = b[i]
  BY <1>1, <1>2, <1>3
<1> QED BY <1>4, UnderMeans

\* Of two directories something is in, one is in the other.
LEMMA UnderBoth ==
  \A q, a, b \in Names : Under(q, a) /\ Under(q, b) => Under(a, b) \/ Under(b, a)
<1> SUFFICES ASSUME NEW q \in Names, NEW a \in Names, NEW b \in Names, Under(q, a), Under(q, b)
             PROVE  Under(a, b) \/ Under(b, a)
  OBVIOUS
<1>1. Len(q) \in Nat /\ Len(a) \in Nat /\ Len(b) \in Nat
  BY DEF Names
<1>2. /\ Len(a) <= Len(q) /\ \A i \in 1 .. Len(a) : q[i] = a[i]
      /\ Len(b) <= Len(q) /\ \A i \in 1 .. Len(b) : q[i] = b[i]
  BY UnderMeans
<1>3. CASE Len(a) <= Len(b)
  <2>1. \A i \in 1 .. Len(a) : i \in 1 .. Len(b)
    BY <1>1, <1>3
  <2> QED BY <1>2, <1>3, <2>1, UnderMeans
<1>4. CASE Len(b) <= Len(a)
  <2>1. \A i \in 1 .. Len(b) : i \in 1 .. Len(a)
    BY <1>1, <1>4
  <2> QED BY <1>2, <1>4, <2>1, UnderMeans
<1> QED BY <1>1, <1>3, <1>4

\* The parents are the directories it is in, but for itself.
LEMMA ParentsMeans ==
  ASSUME NEW q \in Names, NEW r
  PROVE  r \in Parents(q) <=> r \in Names /\ Under(q, r) /\ r # q
<1>0. Len(q) \in Nat
  BY DEF Names
<1>1. ASSUME NEW n \in 0 .. Len(q) - 1
      PROVE  /\ SubSeq(q, 1, n) \in Names /\ Len(SubSeq(q, 1, n)) = n /\ SubSeq(q, 1, n) # q
             /\ Under(q, SubSeq(q, 1, n))
  <2>1. n \in Nat /\ n < Len(q)
    BY <1>0
  <2>2. \A i \in 1 .. n : q[i] \in STRING
    BY <1>0, <2>1 DEF Names
  <2>3. /\ SubSeq(q, 1, n) \in Names /\ Len(SubSeq(q, 1, n)) = n
        /\ \A i \in 1 .. n : SubSeq(q, 1, n)[i] = q[i]
    BY <2>1, <2>2, SubSeqProperties DEF Names
  <2> DEFINE start == SubSeq(q, 1, n)
  <2> HIDE DEF start
  <2>4. start \in Names /\ Len(start) = n /\ \A i \in 1 .. n : start[i] = q[i]
    BY <2>3 DEF start
  <2>5. start # q
    BY <1>0, <2>1, <2>4
  <2>6. Under(q, start)
    BY <1>0, <2>1, <2>4, UnderMeans
  <2> QED BY <2>3, <2>5, <2>6 DEF start
<1>2. ASSUME r \in Names, Under(q, r), r # q
      PROVE  r = SubSeq(q, 1, Len(r)) /\ Len(r) \in 0 .. Len(q) - 1
  <2>1. /\ Len(r) \in Nat /\ Len(r) <= Len(q) /\ \A i \in 1 .. Len(r) : q[i] = r[i]
    BY <1>2, UnderMeans DEF Names
  <2>2. Len(r) # Len(q)
    BY <1>2, <2>1, SeqEqual DEF Names
  <2>3. SubSeq(r, 1, Len(r)) = r
    BY <1>2, SubSeqFull DEF Names
  <2> QED BY <1>0, <1>2, <2>1, <2>2, <2>3 DEF Under, IsPrefix
<1> QED BY <1>1, <1>2 DEF Parents

LEMMA UnderEachOther ==
  \A a, b \in Names : Under(a, b) /\ Under(b, a) => a = b
<1> SUFFICES ASSUME NEW a \in Names, NEW b \in Names, Under(a, b), Under(b, a) PROVE a = b
  OBVIOUS
<1>1. Len(a) \in Nat /\ Len(b) \in Nat /\ Len(a) <= Len(b) /\ Len(b) <= Len(a)
      /\ \A i \in 1 .. Len(b) : a[i] = b[i]
  BY UnderMeans DEF Names
<1> QED BY <1>1, SeqEqual DEF Names

\* Where what is in a directory goes when the directory moves, and back.
TargetWell(m, from, to, q) ==
    /\ q \in Names /\ Len(q) = Len(to) + (Len(m) - Len(from)) /\ Len(m) - Len(from) \in Nat
    /\ \A i \in 1 .. Len(to) : q[i] = to[i]
    /\ \A i \in 1 .. Len(m) - Len(from) : q[Len(to) + i] = m[Len(from) + i]

LEMMA TargetMeans ==
  ASSUME NEW m \in Names, NEW from \in Names, NEW to \in Names, Under(m, from)
  PROVE  TargetWell(m, from, to, Target(m, from, to))
<1>1. Len(m) \in Nat /\ Len(from) \in Nat /\ Len(to) \in Nat /\ Len(from) <= Len(m)
  BY UnderMeans DEF Names
<1> DEFINE tail == SubSeq(m, Len(from) + 1, Len(m))
<1>2. \A i \in Len(from) + 1 .. Len(m) : m[i] \in STRING
  BY <1>1 DEF Names
<1>3. /\ tail \in Names /\ Len(tail) = Len(m) - Len(from)
      /\ \A i \in 1 .. Len(m) - Len(from) : tail[i] = m[Len(from) + i]
  <2>1. /\ tail \in Seq(STRING)
        /\ Len(tail) = IF Len(from) + 1 <= Len(m) THEN Len(m) - (Len(from) + 1) + 1 ELSE 0
        /\ \A i \in 1 .. Len(m) - (Len(from) + 1) + 1 : tail[i] = m[(Len(from) + 1) + i - 1]
    BY <1>1, <1>2, SubSeqProperties
  <2> HIDE DEF tail
  <2> QED BY <1>1, <2>1 DEF Names
<1> HIDE DEF tail
<1>4. /\ to \o tail \in Names /\ Len(to \o tail) = Len(to) + Len(tail)
      /\ \A i \in 1 .. Len(to) + Len(tail) :
             (to \o tail)[i] = IF i <= Len(to) THEN to[i] ELSE tail[i - Len(to)]
  BY <1>3, ConcatProperties DEF Names
<1>5. \A i \in 1 .. Len(to) : (to \o tail)[i] = to[i]
  BY <1>1, <1>3, <1>4
<1>6. \A i \in 1 .. Len(m) - Len(from) : (to \o tail)[Len(to) + i] = m[Len(from) + i]
  BY <1>1, <1>3, <1>4
<1> QED BY <1>1, <1>3, <1>4, <1>5, <1>6 DEF TargetWell, Target, tail

LEMMA TargetUnder ==
  ASSUME NEW m \in Names, NEW from \in Names, NEW to \in Names, Under(m, from)
  PROVE  Under(Target(m, from, to), to)
<1>1. Len(m) \in Nat /\ Len(from) \in Nat /\ Len(to) \in Nat
  BY DEF Names
<1> DEFINE q == Target(m, from, to)
<1>2. /\ q \in Names /\ Len(q) = Len(to) + (Len(m) - Len(from)) /\ Len(m) - Len(from) \in Nat
      /\ \A i \in 1 .. Len(to) : q[i] = to[i]
  BY TargetMeans DEF TargetWell
<1> HIDE DEF q
<1>3. Under(q, to)
  BY <1>1, <1>2, UnderMeans
<1> QED BY <1>3 DEF q

LEMMA TargetBack ==
  ASSUME NEW m \in Names, NEW from \in Names, NEW to \in Names, Under(m, from)
  PROVE  Target(Target(m, from, to), to, from) = m
<1> DEFINE q == Target(m, from, to)
           back == Target(q, to, from)
<1>1. /\ q \in Names /\ Under(q, to) /\ Len(q) = Len(to) + (Len(m) - Len(from))
      /\ \A i \in 1 .. Len(m) - Len(from) : q[Len(to) + i] = m[Len(from) + i]
  <2>1. Under(q, to)
    BY TargetUnder
  <2> QED BY <2>1, TargetMeans DEF TargetWell
<1> HIDE DEF q
<1>2. /\ back \in Names /\ Len(back) = Len(from) + (Len(q) - Len(to))
      /\ \A i \in 1 .. Len(from) : back[i] = from[i]
      /\ \A i \in 1 .. Len(q) - Len(to) : back[Len(from) + i] = q[Len(to) + i]
  BY <1>1, TargetMeans DEF TargetWell
<1>3. /\ Len(m) \in Nat /\ Len(from) \in Nat /\ Len(to) \in Nat /\ Len(from) <= Len(m)
      /\ \A i \in 1 .. Len(from) : m[i] = from[i]
  BY UnderMeans DEF Names
<1> HIDE DEF back
<1>4. Len(back) = Len(m)
  BY <1>1, <1>2, <1>3
<1>5. ASSUME NEW i \in 1 .. Len(m) PROVE back[i] = m[i]
  <2>1. CASE i <= Len(from)
    BY <1>2, <1>3, <2>1
  <2>2. CASE i > Len(from)
    <3>1. i - Len(from) \in 1 .. Len(m) - Len(from) /\ Len(from) + (i - Len(from)) = i
          /\ Len(q) - Len(to) = Len(m) - Len(from)
      BY <1>1, <1>3, <2>2
    <3> QED BY <1>1, <1>2, <3>1
  <2> QED BY <1>3, <2>1, <2>2
<1>6. back = m
  BY <1>2, <1>4, <1>5, SeqEqual DEF Names
<1> QED BY <1>6 DEF back, q

\* What is in a directory stays in it when both move.
LEMMA TargetKeeps ==
  ASSUME NEW m \in Names, NEW k \in Names, NEW from \in Names, NEW to \in Names,
         Under(m, k), Under(k, from)
  PROVE  Under(Target(m, from, to), Target(k, from, to))
<1> DEFINE q == Target(m, from, to)
           r == Target(k, from, to)
<1>0. Under(m, from)
  BY UnderOfUnder
<1>1. /\ q \in Names /\ Len(q) = Len(to) + (Len(m) - Len(from))
      /\ \A i \in 1 .. Len(to) : q[i] = to[i]
      /\ \A i \in 1 .. Len(m) - Len(from) : q[Len(to) + i] = m[Len(from) + i]
  <2>1. TargetWell(m, from, to, q)
    BY <1>0, TargetMeans
  <2> HIDE DEF q
  <2> QED BY <2>1 DEF TargetWell
<1>2. /\ r \in Names /\ Len(r) = Len(to) + (Len(k) - Len(from))
      /\ \A i \in 1 .. Len(to) : r[i] = to[i]
      /\ \A i \in 1 .. Len(k) - Len(from) : r[Len(to) + i] = k[Len(from) + i]
  BY TargetMeans DEF TargetWell
<1>3. /\ Len(m) \in Nat /\ Len(from) \in Nat /\ Len(to) \in Nat /\ Len(k) \in Nat
      /\ Len(from) <= Len(k) /\ Len(k) <= Len(m)
      /\ \A i \in 1 .. Len(k) : m[i] = k[i]
  BY UnderMeans DEF Names
<1> HIDE DEF q, r
<1>4. ASSUME NEW i \in 1 .. Len(r) PROVE q[i] = r[i]
  <2>1. CASE i <= Len(to)
    BY <1>1, <1>2, <1>3, <2>1
  <2>2. CASE i > Len(to)
    <3> DEFINE j == i - Len(to)
    <3>1. /\ j \in 1 .. Len(k) - Len(from) /\ j \in 1 .. Len(m) - Len(from) /\ Len(to) + j = i
          /\ Len(from) + j \in 1 .. Len(k)
      BY <1>2, <1>3, <2>2
    <3> HIDE DEF j
    <3>2. q[Len(to) + j] = m[Len(from) + j] /\ r[Len(to) + j] = k[Len(from) + j]
      BY <1>1, <1>2, <3>1
    <3> QED BY <1>3, <3>1, <3>2
  <2> QED BY <1>2, <1>3, <2>1, <2>2
<1>5. Len(r) <= Len(q)
  BY <1>1, <1>2, <1>3
<1>6. Under(q, r)
  BY <1>1, <1>2, <1>4, <1>5, UnderMeans
<1> QED BY <1>6 DEF q, r

-----------------------------------------------------------------------------
(* Directories stay directories.                                           *)

IsNode(n) == DOMAIN n = {"dir", "lines"}

LEMMA Nodes ==
  /\ IsNode(Directory) /\ Directory.dir
  /\ \A lines : IsNode(File(lines)) /\ ~File(lines).dir
  BY DEF IsNode, Directory, File

LEMMA DirectoryMeans ==
  ASSUME NEW d
  PROVE  IsDirectory(d) <=>
            /\ \A q \in DOMAIN d : q \in Names /\ IsNode(d[q])
            /\ \A q \in DOMAIN d : \A r \in Parents(q) : r \in DOMAIN d /\ d[r].dir
  BY DEF IsDirectory, IsNode, Names

LEMMA ParentsOfParents ==
  ASSUME NEW names \in Names, NEW q \in Parents(names), NEW r \in Parents(q)
  PROVE  r \in Parents(names)
<1>1. q \in Names /\ Under(names, q) /\ q # names
  BY ParentsMeans
<1>2. r \in Names /\ Under(q, r) /\ r # q
  BY <1>1, ParentsMeans
<1>3. Under(names, r)
  BY <1>1, <1>2, UnderOfUnder
<1>4. r # names
  BY <1>1, <1>2, UnderEachOther
<1> QED BY <1>2, <1>3, <1>4, ParentsMeans

LEMMA MakeParentsDirectory ==
  ASSUME NEW d, IsDirectory(d), NEW names \in Names, MkdirAllOK(d, names)
  PROVE  /\ IsDirectory(MakeParents(d, names))
         /\ DOMAIN MakeParents(d, names) = DOMAIN d \cup Parents(names)
         /\ \A q \in DOMAIN d : MakeParents(d, names)[q] = d[q]
         /\ \A q \in Parents(names) : MakeParents(d, names)[q].dir
<1> DEFINE new == MakeParents(d, names)
<1>1. /\ DOMAIN new = DOMAIN d \cup Parents(names)
      /\ \A q \in DOMAIN d : new[q] = d[q]
      /\ \A q \in Parents(names) \ DOMAIN d : new[q] = Directory
  BY DEF MakeParents
<1> HIDE DEF new
<1>2. /\ \A q \in DOMAIN d : q \in Names /\ IsNode(d[q])
      /\ \A q \in DOMAIN d : \A r \in Parents(q) : r \in DOMAIN d /\ d[r].dir
  BY DirectoryMeans
<1>3. \A q \in Parents(names) : q \in Names /\ new[q].dir /\ IsNode(new[q])
  BY <1>1, <1>2, ParentsMeans, Nodes DEF MkdirAllOK
<1>4. \A q \in DOMAIN new : q \in Names /\ IsNode(new[q])
  BY <1>1, <1>2, <1>3
<1>5. \A q \in DOMAIN new : \A r \in Parents(q) : r \in DOMAIN new /\ new[r].dir
  BY <1>1, <1>2, <1>3, ParentsOfParents
<1>7. IsDirectory(new)
  BY <1>4, <1>5, DirectoryMeans
<1> QED BY <1>1, <1>3, <1>7 DEF new

PutWell(d, names, new) ==
    /\ IsDirectory(new) /\ DOMAIN new = DOMAIN d \cup Parents(names) \cup {names}
    /\ \A q \in DOMAIN d \ {names} : new[q] = d[q]
    /\ \A q \in Parents(names) \ DOMAIN d : new[q] = Directory

LEMMA PutDirectory ==
  ASSUME NEW d, IsDirectory(d), NEW names \in Names, NEW lines,
         MkdirAllOK(d, names), names \in DOMAIN d => ~d[names].dir
  PROVE  PutWell(d, names, Put(d, names, lines))
<1> DEFINE e == MakeParents(d, names)
           new == Put(d, names, lines)
<1>1. /\ IsDirectory(e) /\ DOMAIN e = DOMAIN d \cup Parents(names)
      /\ \A q \in DOMAIN d : e[q] = d[q]
      /\ \A q \in Parents(names) : e[q].dir
  BY MakeParentsDirectory
<1>2. \A q \in Parents(names) \ DOMAIN d : e[q] = Directory
  BY DEF MakeParents
<1>3. /\ DOMAIN new = DOMAIN e \cup {names} /\ new[names] = File(lines)
      /\ \A q \in DOMAIN e \ {names} : new[q] = e[q]
  BY DEF Put
<1> HIDE DEF e, new
<1>4. /\ \A q \in DOMAIN e : q \in Names /\ IsNode(e[q])
      /\ \A q \in DOMAIN e : \A r \in Parents(q) : r \in DOMAIN e /\ e[r].dir
  BY <1>1, DirectoryMeans
<1>5. names \notin Parents(names)
  BY ParentsMeans
<1>6. names \in DOMAIN e => ~e[names].dir
  BY <1>1, <1>5
<1>8. \A q \in DOMAIN new : q \in Names /\ IsNode(new[q])
  BY <1>3, <1>4, Nodes
<1>9. \A q \in DOMAIN new : \A r \in Parents(q) : r \in DOMAIN e /\ e[r].dir
  BY <1>1, <1>3, <1>4
<1>10. \A q \in DOMAIN new : \A r \in Parents(q) : r \in DOMAIN new /\ new[r].dir
  BY <1>3, <1>6, <1>9
<1>11. IsDirectory(new)
  BY <1>8, <1>10, DirectoryMeans
<1>12. \A q \in Parents(names) \ DOMAIN d : new[q] = Directory
  BY <1>1, <1>2, <1>3, <1>5
<1>13. \A q \in DOMAIN d \ {names} : new[q] = d[q]
  BY <1>1, <1>3
<1> QED BY <1>1, <1>3, <1>11, <1>12, <1>13 DEF PutWell, new

LEMMA WithoutDirectory ==
  ASSUME NEW d, IsDirectory(d), NEW names, names \in DOMAIN d, ~d[names].dir
  PROVE  IsDirectory(Without(d, names))
<1> DEFINE new == Without(d, names)
<1>1. DOMAIN new = DOMAIN d \ {names} /\ \A q \in DOMAIN new : new[q] = d[q]
  BY DEF Without
<1> HIDE DEF new
<1>2. /\ \A q \in DOMAIN d : q \in Names /\ IsNode(d[q])
      /\ \A q \in DOMAIN d : \A r \in Parents(q) : r \in DOMAIN d /\ d[r].dir
  BY DirectoryMeans
<1>3. /\ \A q \in DOMAIN new : q \in Names /\ IsNode(new[q])
      /\ \A q \in DOMAIN new : \A r \in Parents(q) : r \in DOMAIN new /\ new[r].dir
  BY <1>1, <1>2
<1>4. IsDirectory(new)
  BY <1>3, DirectoryMeans
<1> QED BY <1>4 DEF new

LEMMA FilledDirectory ==
  ASSUME NEW d, IsDirectory(d), NEW names, NEW text
  PROVE  LET new == [d EXCEPT ![names].lines = text]
         IN /\ IsDirectory(new) /\ DOMAIN new = DOMAIN d
            /\ \A q \in DOMAIN d \ {names} : new[q] = d[q]
<1> DEFINE new == [d EXCEPT ![names].lines = text]
<1>1. /\ \A q \in DOMAIN d : q \in Names /\ IsNode(d[q])
      /\ \A q \in DOMAIN d : \A r \in Parents(q) : r \in DOMAIN d /\ d[r].dir
  BY DirectoryMeans
<1>2. DOMAIN new = DOMAIN d /\ \A q \in DOMAIN d \ {names} : new[q] = d[q]
  OBVIOUS
<1>3. names \in DOMAIN d => new[names] = [d[names] EXCEPT !.lines = text]
  OBVIOUS
<1>4. names \in DOMAIN d => IsNode(new[names]) /\ new[names].dir = d[names].dir
  <2> HIDE DEF new
  <2> QED BY <1>1, <1>3 DEF IsNode
<1> HIDE DEF new
<1>5. \A q \in DOMAIN d : IsNode(new[q]) /\ new[q].dir = d[q].dir
  BY <1>1, <1>2, <1>4
<1>6. IsDirectory(new)
  <2>2. \A q \in DOMAIN new : q \in Names /\ IsNode(new[q])
    BY <1>1, <1>2, <1>5
  <2>3. \A q \in DOMAIN new : \A r \in Parents(q) : r \in DOMAIN new /\ new[r].dir
    BY <1>1, <1>2, <1>5
  <2> QED BY <2>2, <2>3, DirectoryMeans
<1> QED BY <1>2, <1>6 DEF new

\* What stays where a directory is moved away.
LEMMA RestDirectory ==
  ASSUME NEW d, IsDirectory(d), NEW names \in Names
  PROVE  LET rest == [q \in DOMAIN d \ {p \in DOMAIN d : Under(p, names)} |-> d[q]]
         IN IsDirectory(rest)
<1> DEFINE gone == {p \in DOMAIN d : Under(p, names)}
           rest == [q \in DOMAIN d \ gone |-> d[q]]
<1>1. DOMAIN rest = DOMAIN d \ gone /\ \A q \in DOMAIN rest : rest[q] = d[q]
  OBVIOUS
<1>2. /\ \A q \in DOMAIN d : q \in Names /\ IsNode(d[q])
      /\ \A q \in DOMAIN d : \A r \in Parents(q) : r \in DOMAIN d /\ d[r].dir
  BY DirectoryMeans
<1>4. ASSUME NEW q \in DOMAIN d \ gone, NEW r \in Parents(q) PROVE r \notin gone
  <2>1. q \in Names /\ r \in Names /\ Under(q, r)
    BY <1>2, ParentsMeans
  <2> QED BY <2>1, UnderOfUnder
<1> HIDE DEF rest
<1>6. \A q \in DOMAIN rest : q \in Names /\ IsNode(rest[q])
  BY <1>1, <1>2
<1>7. \A q \in DOMAIN rest : \A r \in Parents(q) : r \in DOMAIN rest /\ rest[r].dir
  <2> HIDE DEF gone
  <2> QED BY <1>1, <1>2, <1>4
<1>8. IsDirectory(rest)
  BY <1>6, <1>7, DirectoryMeans
<1> QED BY <1>8 DEF rest

\* What was in names of d comes into a, where there is nothing of the name to.
Come(d, names, to) == {Target(m, names, to) : m \in {q \in DOMAIN d : Under(q, names)}}

LEMMA ComeUnder ==
  ASSUME NEW d, IsDirectory(d), NEW names \in Names, NEW to \in Names, NEW q
  PROVE  q \in Come(d, names, to) <=>
             /\ q \in Names /\ Under(q, to)
             /\ Target(q, to, names) \in DOMAIN d
<1>1. \A m \in DOMAIN d : m \in Names
  BY DirectoryMeans
<1>2. ASSUME NEW m \in DOMAIN d, Under(m, names), q = Target(m, names, to)
      PROVE  q \in Names /\ Under(q, to) /\ Target(q, to, names) \in DOMAIN d
  BY <1>1, <1>2, TargetMeans, TargetUnder, TargetBack DEF TargetWell
<1>3. ASSUME q \in Names, Under(q, to), Target(q, to, names) \in DOMAIN d
      PROVE  q \in Come(d, names, to)
  <2>1. Under(Target(q, to, names), names) /\ Target(Target(q, to, names), names, to) = q
    BY <1>3, TargetUnder, TargetBack
  <2> QED BY <1>3, <2>1 DEF Come
<1> QED BY <1>2, <1>3 DEF Come

Arrived(d, names, a, to) ==
    [q \in Come(d, names, to) \cup DOMAIN MakeParents(a, to) |->
        IF q \in Come(d, names, to) THEN d[Target(q, to, names)] ELSE MakeParents(a, to)[q]]

ArrivedWell(d, names, a, to) ==
    /\ IsDirectory(Arrived(d, names, a, to))
    /\ DOMAIN Arrived(d, names, a, to) = Come(d, names, to) \cup DOMAIN a \cup Parents(to)
    /\ \A q \in Come(d, names, to) : q \notin DOMAIN a
    /\ \A q \in DOMAIN a : Arrived(d, names, a, to)[q] = a[q]
    /\ \A q \in Parents(to) \ DOMAIN a : Arrived(d, names, a, to)[q] = Directory

LEMMA ArrivedDirectory ==
  ASSUME NEW d, IsDirectory(d), NEW names \in Names, NEW to \in Names,
         NEW a, IsDirectory(a), to \notin DOMAIN a, MkdirAllOK(a, to)
  PROVE  ArrivedWell(d, names, a, to)
<1> DEFINE come == Come(d, names, to)
           there == MakeParents(a, to)
           new == Arrived(d, names, a, to)
<1>1. /\ IsDirectory(there) /\ DOMAIN there = DOMAIN a \cup Parents(to)
      /\ \A q \in DOMAIN a : there[q] = a[q]
  BY MakeParentsDirectory
<1>2. \A q \in Parents(to) \ DOMAIN a : there[q] = Directory
  BY DEF MakeParents
<1>3. /\ DOMAIN new = come \cup DOMAIN there
      /\ \A q \in come : new[q] = d[Target(q, to, names)]
      /\ \A q \in DOMAIN there \ come : new[q] = there[q]
  BY DEF Arrived
<1>4. \A q : q \in come <=> q \in Names /\ Under(q, to) /\ Target(q, to, names) \in DOMAIN d
  BY ComeUnder
<1> HIDE DEF come, there, new
<1>5. /\ \A q \in DOMAIN d : q \in Names /\ IsNode(d[q])
      /\ \A q \in DOMAIN d : \A r \in Parents(q) : r \in DOMAIN d /\ d[r].dir
  BY DirectoryMeans
<1>6. /\ \A q \in DOMAIN a : q \in Names
      /\ \A q \in DOMAIN a : \A r \in Parents(q) : r \in DOMAIN a
  BY DirectoryMeans
<1>7. /\ \A q \in DOMAIN there : q \in Names /\ IsNode(there[q])
      /\ \A q \in DOMAIN there : \A r \in Parents(q) : r \in DOMAIN there /\ there[r].dir
  BY <1>1, DirectoryMeans
<1>8. ASSUME NEW q \in come PROVE q \notin DOMAIN there
  <2>1. q \in Names /\ Under(q, to)
    BY <1>4
  <2>2. q \notin DOMAIN a
    BY <1>6, <2>1, ParentsMeans
  <2>3. q \notin Parents(to)
    BY <2>1, ParentsMeans, UnderEachOther
  <2> QED BY <1>1, <2>2, <2>3
<1>10. \A q \in DOMAIN new : q \in Names /\ IsNode(new[q])
  BY <1>3, <1>4, <1>5, <1>7, <1>8
<1>11. ASSUME NEW q \in come, NEW r \in Parents(q) PROVE r \in DOMAIN new /\ new[r].dir
  <2>1. /\ q \in Names /\ Under(q, to) /\ Target(q, to, names) \in DOMAIN d
        /\ r \in Names /\ Under(q, r) /\ r # q
    BY <1>4, ParentsMeans
  <2>2. CASE Under(r, to)
    <3> DEFINE m == Target(q, to, names)
               k == Target(r, to, names)
    <3>1. m \in Names /\ k \in Names /\ Under(m, k)
      BY <2>1, <2>2, TargetMeans, TargetKeeps DEF TargetWell
    <3>2. Target(m, names, to) = q /\ Target(k, names, to) = r
      BY <2>1, <2>2, TargetBack
    <3>3. m # k
      BY <2>1, <3>2
    <3> HIDE DEF m, k
    <3>4. k \in Parents(m)
      BY <3>1, <3>3, ParentsMeans
    <3>5. k \in DOMAIN d /\ d[k].dir
      BY <1>5, <2>1, <3>4 DEF m
    <3>6. r \in come
      BY <1>4, <2>1, <2>2, <3>5 DEF k
    <3> QED BY <1>3, <3>5, <3>6 DEF k
  <2>3. CASE Under(to, r) /\ r # to
    <3>1. r \in Parents(to)
      BY <2>1, <2>3, ParentsMeans
    <3>2. r \in DOMAIN there /\ there[r].dir
      BY <1>1, <3>1, MakeParentsDirectory DEF there
    <3> QED BY <1>3, <1>8, <3>2
  <2>4. Under(to, to)
    BY UnderItself
  <2> QED BY <2>1, <2>2, <2>3, <2>4, UnderBoth
<1>12. ASSUME NEW q \in DOMAIN there, NEW r \in Parents(q) PROVE r \in DOMAIN new /\ new[r].dir
  BY <1>3, <1>7, <1>8
<1>13. IsDirectory(new)
  BY <1>3, <1>10, <1>11, <1>12, DirectoryMeans
<1>14. /\ \A q \in come : q \notin DOMAIN a
       /\ \A q \in DOMAIN a : new[q] = a[q]
       /\ \A q \in Parents(to) \ DOMAIN a : new[q] = Directory
       /\ DOMAIN new = come \cup DOMAIN a \cup Parents(to)
  BY <1>1, <1>2, <1>3, <1>8
<1> QED BY <1>13, <1>14 DEF ArrivedWell, new, come

-----------------------------------------------------------------------------
(* What the calls have yet to do, and the state they do it in.             *)

Dirs == {"base", "shadow", "out"}

IsOperation(o) ==
    /\ o.op \in {"write", "delete", "move"} /\ o.path \in Paths
    /\ o.op = "move" => o.to \in Paths
IsPlan(q) == q \in Seq(ToSet(q)) /\ \A o \in ToSet(q) : IsOperation(o)

LEMMA PlanOf ==
  ASSUME NEW X, NEW q \in Seq(X), \A o \in X : IsOperation(o)
  PROVE  IsPlan(q)
<1>1. Len(q) \in Nat /\ DOMAIN q = 1 .. Len(q) /\ \A i \in 1 .. Len(q) : q[i] \in X
  OBVIOUS
<1>2. ToSet(q) = {q[i] : i \in DOMAIN q}
  BY DEF ToSet
<1>3. q \in Seq(ToSet(q))
  BY <1>1, <1>2
<1>4. \A o \in ToSet(q) : IsOperation(o)
  BY <1>1, <1>2
<1> QED BY <1>3, <1>4 DEF IsPlan

LEMMA PlanNone == IsPlan(<< >>)
<1>1. PICK X : X = {}
  OBVIOUS
<1>2. << >> \in Seq(X) /\ \A o \in X : IsOperation(o)
  BY <1>1, EmptySeq
<1> QED BY <1>2, PlanOf

LEMMA PlanOne ==
  ASSUME NEW o, IsOperation(o) PROVE IsPlan(<<o>>)
<1>1. PICK X : X = {o}
  OBVIOUS
<1>2. <<o>> \in Seq(X) /\ \A x \in X : IsOperation(x)
  BY <1>1
<1>3. PICK q : q = <<o>>
  OBVIOUS
<1>4. IsPlan(q)
  BY <1>2, <1>3, PlanOf
<1> QED BY <1>3, <1>4

LEMMA PlanTwo ==
  ASSUME NEW o, IsOperation(o), NEW n, IsOperation(n) PROVE IsPlan(<<o, n>>)
<1>1. PICK X : X = {o, n}
  OBVIOUS
<1>2. <<o, n>> \in Seq(X) /\ \A x \in X : IsOperation(x)
  BY <1>1
<1>3. PICK q : q = <<o, n>>
  OBVIOUS
<1>4. IsPlan(q)
  BY <1>2, <1>3, PlanOf
<1> QED BY <1>3, <1>4

LEMMA PlanBoth ==
  ASSUME NEW a, NEW b, IsPlan(a), IsPlan(b) PROVE IsPlan(a \o b)
<1> DEFINE X == ToSet(a) \cup ToSet(b)
<1>1. a \in Seq(X) /\ b \in Seq(X) /\ \A o \in X : IsOperation(o)
  BY DEF IsPlan
<1> HIDE DEF X
<1>2. a \o b \in Seq(X)
  BY <1>1, ConcatProperties
<1> QED BY <1>1, <1>2, PlanOf

LEMMA PlanFirst ==
  ASSUME NEW a, IsPlan(a), a # << >>
  PROVE  IsOperation(a[1]) /\ IsPlan(Tail(a)) /\ 1 \in DOMAIN a
<1> DEFINE X == ToSet(a)
<1>1. a \in Seq(X) /\ \A o \in X : IsOperation(o)
  BY DEF IsPlan
<1> HIDE DEF X
<1>2. Tail(a) \in Seq(X) /\ a[1] \in X /\ 1 \in DOMAIN a
  BY <1>1
<1> QED BY <1>1, <1>2, PlanOf

LEMMA PathNames ==
  \A p \in Paths : p.names \in Names /\ Place(p) \in Dirs /\ p # NoPath
  BY DEF Paths, Names, Place, Dirs, NoPath

\* The directories are directories; the calls are an agent's; the plans hold
\* operations; a file that is truncated is in one of the directories; a patch
\* that is read can be, and who fills a file has its text.
TreeTyped == DOMAIN tree = Dirs /\ \A d \in Dirs : IsDirectory(tree[d])
CallsTyped == call \in [Threads -> Requests] /\ hunk \in [Threads -> Nat \ {0}] /\ DOMAIN phase = Threads
PlansTyped == DOMAIN plan = Threads /\ \A t \in Threads : IsPlan(plan[t])
TruncatedTyped == truncated \in [Threads -> [root : Dirs \cup {"none"}, names : Names]]
PatchWhole ==
    \A t \in Threads : phase[t] = "read" /\ call[t].tool = "vfsPatch" => WellMarked(call[t].text)
TextKept == \A t \in Threads : phase[t] = "fill" => plan[t] # << >>
FilesInv ==
    TreeTyped /\ CallsTyped /\ PlansTyped /\ TruncatedTyped /\ PatchWhole /\ TextKept

LEMMA FilesStart == FilesInit => FilesInv
<1> SUFFICES ASSUME FilesInit PROVE FilesInv
  OBVIOUS
<1>1. TreeTyped
  BY FilesAssumption DEF FilesInit, TreeTyped, Dirs
<1>2. CallsTyped
  <2>1. 1 \in Nat \ {0}
    OBVIOUS
  <2>2. hunk = [t \in Threads |-> 1] /\ call \in [Threads -> Requests] /\ DOMAIN phase = Threads
    BY DEF FilesInit
  <2> QED BY <2>1, <2>2 DEF CallsTyped
<1>3. PlansTyped
  BY PlanNone DEF FilesInit, PlansTyped
<1>4. TruncatedTyped
  <2>1. NoPath \in [root : Dirs \cup {"none"}, names : Names]
    BY EmptySeq DEF NoPath, Names
  <2> QED BY <2>1 DEF FilesInit, TruncatedTyped
<1>5. PatchWhole /\ TextKept
  BY DEF FilesInit, PatchWhole, TextKept
<1> QED BY <1>1, <1>2, <1>3, <1>4, <1>5 DEF FilesInv

\* A step that only says how a call ended.
LEMMA DoneKeeps ==
  ASSUME NEW t \in Threads, NEW how, FilesInv, Done(t, how) PROVE FilesInv' /\ UNCHANGED tree
<1> USE DEF FilesInv
<1>1. TreeTyped'
  BY DEF Done, TreeTyped
<1>2. CallsTyped'
  BY DEF Done, setting, CallsTyped
<1>3. PlansTyped'
  <2>1. \A u \in Threads : plan'[u] = IF u = t THEN << >> ELSE plan[u]
    BY DEF Done, PlansTyped
  <2>2. DOMAIN plan' = Threads
    BY DEF Done, PlansTyped
  <2> QED BY <2>1, <2>2, PlanNone DEF PlansTyped
<1>4. TruncatedTyped'
  BY DEF Done, TruncatedTyped
<1>5. \A u \in Threads : phase'[u] = (IF u = t THEN "done" ELSE phase[u])
  BY DEF Done, CallsTyped
<1>6. PatchWhole'
  BY <1>5 DEF Done, setting, PatchWhole
<1>7. TextKept'
  BY <1>5 DEF Done, TextKept, PlansTyped
<1> QED BY <1>1, <1>2, <1>3, <1>4, <1>6, <1>7 DEF Done

LEMMA StartKeeps ==
  ASSUME NEW t \in Threads, FilesInv, Start(t) PROVE FilesInv' /\ UNCHANGED tree
<1> USE DEF FilesInv
<1>0. UNCHANGED <<tree, truncated, hunk, call>>
  BY DEF Start, setting
<1>1. TreeTyped'
  BY <1>0 DEF TreeTyped
<1>2. CallsTyped'
  BY <1>0 DEF Start, CallsTyped
<1>3. PlansTyped'
  <2> PICK q : /\ plan' = [plan EXCEPT ![t] = q]
               /\ q = CASE call[t].tool = "vfsWrite" -> <<Writing(call[t].path, call[t].lines)>>
                     [] call[t].tool = "vfsDelete" -> <<Deleting(call[t].path)>>
                     [] call[t].tool = "vfsMove" -> <<Moving(call[t].path, call[t].to)>>
                     [] OTHER -> <<>>
    BY DEF Start
  <2>1. call[t] \in Requests
    BY DEF CallsTyped
  <2>2. CASE call[t].tool = "vfsWrite"
    <3>1. IsOperation(Writing(call[t].path, call[t].lines))
      BY <2>1, <2>2, FilesAssumption DEF IsOperation, Writing
    <3> QED BY <2>2, <3>1, PlanOne DEF PlansTyped
  <2>3. CASE call[t].tool = "vfsDelete"
    <3>1. IsOperation(Deleting(call[t].path))
      BY <2>1, <2>3, FilesAssumption DEF IsOperation, Deleting
    <3> QED BY <2>3, <3>1, PlanOne DEF PlansTyped
  <2>4. CASE call[t].tool = "vfsMove"
    <3>1. IsOperation(Moving(call[t].path, call[t].to))
      BY <2>1, <2>4, FilesAssumption DEF IsOperation, Moving
    <3> QED BY <2>4, <3>1, PlanOne DEF PlansTyped
  <2>5. CASE call[t].tool \notin {"vfsWrite", "vfsDelete", "vfsMove"}
    BY <2>5, PlanNone DEF PlansTyped
  <2> QED BY <2>2, <2>3, <2>4, <2>5
<1>4. TruncatedTyped'
  BY <1>0 DEF TruncatedTyped
<1>5. /\ \A u \in Threads \ {t} : phase'[u] = phase[u] /\ plan'[u] = plan[u]
      /\ phase'[t] # "fill"
  BY DEF Start, CallsTyped, PlansTyped
<1>6. PatchWhole'
  BY <1>0, <1>5 DEF Start, PatchWhole
<1>7. TextKept'
  BY <1>5 DEF TextKept
<1> QED BY <1>0, <1>1, <1>2, <1>3, <1>4, <1>6, <1>7

LEMMA ReadFileKeeps ==
  ASSUME NEW t \in Threads, FilesInv, ReadFile(t) PROVE FilesInv' /\ UNCHANGED tree
<1> DEFINE c == call[t]
           new == <<Writing(c.path, NewText(c, Text(c.path)))>>
<1>1. CASE \E how : Done(t, how)
  BY <1>1, DoneKeeps
<1>2. CASE /\ plan' = [plan EXCEPT ![t] = IF Edits(c) THEN new ELSE << >>]
           /\ phase' = [phase EXCEPT ![t] = "write"]
           /\ UNCHANGED <<tree, setting, truncated, hunk>>
  <2> USE DEF FilesInv
  <2>0. UNCHANGED <<tree, truncated, hunk, call>>
    BY <1>2 DEF setting
  <2>1. TreeTyped'
    BY <2>0 DEF TreeTyped
  <2>2. CallsTyped'
    BY <2>0, <1>2 DEF CallsTyped
  <2>3. PlansTyped'
    <3>1. c \in Requests /\ c.tool # "vfsPatch"
      BY DEF CallsTyped, ReadFile, Reads
    <3>2. IsOperation(Writing(c.path, NewText(c, Text(c.path))))
      BY <3>1, FilesAssumption DEF IsOperation, Writing
    <3>3. IsPlan(new)
      BY <3>2, PlanOne
    <3> HIDE DEF new
    <3> QED BY <1>2, <3>3, PlanNone DEF PlansTyped
  <2>4. TruncatedTyped'
    BY <2>0 DEF TruncatedTyped
  <2>5. /\ \A u \in Threads \ {t} : phase'[u] = phase[u] /\ plan'[u] = plan[u]
        /\ phase'[t] = "write"
    BY <1>2 DEF CallsTyped, PlansTyped
  <2>6. PatchWhole'
    BY <2>0, <2>5 DEF PatchWhole
  <2>7. TextKept'
    BY <2>5 DEF TextKept
  <2> QED BY <2>0, <2>1, <2>2, <2>3, <2>4, <2>6, <2>7
<1> QED BY <1>1, <1>2 DEF ReadFile

\* What a hunk comes to are operations.
LEMMA HunkPlan ==
  ASSUME NEW h \in Hunks, NEW lines PROVE IsPlan(Changes(h, lines))
<1> DEFINE new == ApplyReplacements(lines, ComputeReplacements(lines, h.chunks).done)
<1>1. h.path \in Paths /\ h.kind \in {"add", "delete", "update"} /\ h.to \in Paths \cup {NoPath}
  BY DEF Hunks
<1>2. \A text : IsPlan(<<Writing(h.path, text)>>)
  BY <1>1, PlanOne DEF IsOperation, Writing
<1>3. IsPlan(<<Deleting(h.path)>>)
  BY <1>1, PlanOne DEF IsOperation, Deleting
<1>4. ASSUME h.to \in Paths PROVE \A text : IsPlan(<<Writing(h.to, text), Deleting(h.path)>>)
  <2> TAKE text
  <2>2. IsOperation(Writing(h.to, text)) /\ IsOperation(Deleting(h.path))
    BY <1>1, <1>4 DEF IsOperation, Writing, Deleting
  <2> QED BY <2>2, PlanTwo
<1>5. CASE h.kind = "add"
  BY <1>2, <1>5 DEF Changes
<1>6. CASE h.kind = "delete"
  BY <1>3, <1>6 DEF Changes
<1>7. CASE h.kind = "update"
  <2> HIDE DEF new
  <2>1. Changes(h, lines) \in {<< >>, <<Writing(h.path, new)>>, <<Writing(h.to, new), Deleting(h.path)>>}
    BY <1>7 DEF Changes, new
  <2>2. h.to = NoPath => Changes(h, lines) # <<Writing(h.to, new), Deleting(h.path)>>
                         \/ Changes(h, lines) = << >> \/ Changes(h, lines) = <<Writing(h.path, new)>>
    BY <1>7 DEF Changes, new
  <2> QED BY <1>1, <1>2, <1>4, <2>1, <2>2, PlanNone
<1> QED BY <1>1, <1>5, <1>6, <1>7

LEMMA ReadHunkKeeps ==
  ASSUME NEW t \in Threads, FilesInv, ReadHunk(t) PROVE FilesInv' /\ UNCHANGED tree
<1> DEFINE hunks == ParsePatch(call[t].text)
           h == hunks[hunk[t]]
<1>1. CASE \E how : Done(t, how)
  BY <1>1, DoneKeeps
<1>2. CASE /\ \E text : plan' = [plan EXCEPT ![t] = plan[t] \o Changes(h, text)]
           /\ hunk' = [hunk EXCEPT ![t] = hunk[t] + 1]
           /\ \E where \in {"write", "read"} : phase' = [phase EXCEPT ![t] = where]
           /\ UNCHANGED <<tree, setting, truncated>>
  <2> USE DEF FilesInv
  <2>0. UNCHANGED <<tree, truncated, call>>
    BY <1>2 DEF setting
  <2>1. TreeTyped'
    BY <2>0 DEF TreeTyped
  <2>2. CallsTyped'
    <3>1. hunk[t] + 1 \in Nat \ {0}
      BY DEF CallsTyped
    <3> QED BY <2>0, <1>2, <3>1 DEF CallsTyped
  <2>3. call[t] \in Requests /\ call[t].tool = "vfsPatch" /\ WellMarked(call[t].text) /\ phase[t] = "read"
    BY DEF CallsTyped, ReadHunk, PatchWhole
  <2>4. h \in Hunks
    <3>1. hunks \in Seq(Hunks)
      BY <2>3, FilesAssumption
    <3>2. hunk[t] <= Len(hunks) /\ hunk[t] \in Nat \ {0}
      BY DEF ReadHunk, CallsTyped
    <3> HIDE DEF hunks
    <3> QED BY <3>1, <3>2
  <2>5. PlansTyped'
    <3> HIDE DEF h
    <3> PICK text : plan' = [plan EXCEPT ![t] = plan[t] \o Changes(h, text)]
      BY <1>2
    <3>1. IsPlan(plan[t] \o Changes(h, text))
      BY <2>4, HunkPlan, PlanBoth DEF PlansTyped
    <3> QED BY <3>1 DEF PlansTyped
  <2>6. TruncatedTyped'
    BY <2>0 DEF TruncatedTyped
  <2>7. /\ \A u \in Threads \ {t} : phase'[u] = phase[u] /\ plan'[u] = plan[u]
        /\ phase'[t] # "fill"
    BY <1>2 DEF CallsTyped, PlansTyped
  <2>8. PatchWhole'
    BY <2>0, <2>3, <2>7 DEF PatchWhole
  <2>9. TextKept'
    BY <2>7 DEF TextKept
  <2> QED BY <2>0, <2>1, <2>2, <2>5, <2>6, <2>8, <2>9
<1> QED BY <1>1, <1>2 DEF ReadHunk, RejectHunk

-----------------------------------------------------------------------------
(* What a file is written, deleted or moved to.                            *)

\* A directory that moves takes what is in it along, and nothing else changes but for
\* the directories that are made to hold it.
MovedWell(p, to, new) ==
    /\ DOMAIN new = Dirs /\ \A x \in Dirs : IsDirectory(new[x])
    /\ p.names \in DOMAIN tree[Place(p)] /\ p.names \notin DOMAIN new[Place(p)]
    /\ to.names \notin DOMAIN tree[Place(to)] /\ to.names \in DOMAIN new[Place(to)]
    /\ \A x \in Dirs : \A q \in DOMAIN tree[x] \ DOMAIN new[x] : x = Place(p) /\ Under(q, p.names)
    /\ \A x \in Dirs : \A q \in DOMAIN new[x] :
          \/ q \in DOMAIN tree[x] /\ new[x][q] = tree[x][q]
          \/ q \notin DOMAIN tree[x] /\ new[x][q] = Directory
          \/ x = Place(to) /\ Under(q, to.names) /\ q \notin DOMAIN tree[x]

LEMMA MovedMeans ==
  ASSUME TreeTyped, NEW p \in Paths, NEW to \in Paths, MayMove(p, to)
  PROVE  MovedWell(p, to, Moved(Place(p), p.names, Place(to), to.names))
<1> PICK new : new = Moved(Place(p), p.names, Place(to), to.names)
  OBVIOUS
<1> PICK d, e, names, there : d = Place(p) /\ e = Place(to) /\ names = p.names /\ there = to.names
  OBVIOUS
<1>1. names \in Names /\ there \in Names /\ d \in Dirs /\ e \in Dirs
  BY PathNames
<1>2. /\ names \in DOMAIN tree[d] /\ there \notin DOMAIN tree[e]
      /\ MkdirAllOK(tree[e], there) /\ ~(e = d /\ Under(there, names))
  BY DEF MayMove
<1>3. DOMAIN tree = Dirs /\ IsDirectory(tree[d]) /\ IsDirectory(tree[e])
      /\ \A x \in Dirs : IsDirectory(tree[x])
  BY <1>1 DEF TreeTyped
<1> DEFINE gone == {q \in DOMAIN tree[d] : Under(q, names)}
           rest == [q \in DOMAIN tree[d] \ gone |-> tree[d][q]]
           a == IF e = d THEN rest ELSE tree[e]
           arrived == Arrived(tree[d], names, a, there)
           come == Come(tree[d], names, there)
<1>4. new = [tree EXCEPT ![d] = rest, ![e] = arrived]
  BY DEF Moved, Arrived, Come
<1>5. DOMAIN rest = DOMAIN tree[d] \ gone /\ (\A q \in DOMAIN rest : rest[q] = tree[d][q])
      /\ IsDirectory(rest)
  BY <1>1, <1>3, RestDirectory
<1>6. /\ \A q : q \in gone <=> q \in DOMAIN tree[d] /\ Under(q, names)
      /\ \A x \in Dirs : \A q \in DOMAIN tree[x] : q \in Names
      /\ \A q \in DOMAIN tree[e] : \A r \in Parents(q) : r \in DOMAIN tree[e]
  BY <1>3, DirectoryMeans
<1> HIDE DEF gone, rest
<1>7. IsDirectory(a) /\ there \notin DOMAIN a /\ MkdirAllOK(a, there)
  BY <1>2, <1>3, <1>5 DEF MkdirAllOK
<1>8. \A q \in DOMAIN a : q \in DOMAIN tree[e] /\ a[q] = tree[e][q]
  BY <1>5
<1> HIDE DEF a
<1>9. /\ IsDirectory(arrived) /\ DOMAIN arrived = come \cup DOMAIN a \cup Parents(there)
      /\ \A q \in come : q \notin DOMAIN a
      /\ \A q \in DOMAIN a : arrived[q] = a[q]
      /\ \A q \in Parents(there) \ DOMAIN a : arrived[q] = Directory
  <2>1. PICK f, g : f = tree[d] /\ g = a
    OBVIOUS
  <2>2. IsDirectory(f) /\ IsDirectory(g) /\ there \notin DOMAIN g /\ MkdirAllOK(g, there)
    BY <1>3, <1>7, <2>1
  <2>3. ArrivedWell(f, names, g, there)
    BY <1>1, <2>2, ArrivedDirectory
  <2> QED BY <2>1, <2>3 DEF ArrivedWell, arrived, come
<1>10. \A q : q \in come <=> q \in Names /\ Under(q, there) /\ Target(q, there, names) \in DOMAIN tree[d]
  BY <1>1, <1>3, ComeUnder
<1> HIDE DEF arrived, come
<1>11. new[e] = arrived /\ DOMAIN new = Dirs /\ (d # e => new[d] = rest)
       /\ \A x \in Dirs \ {d, e} : new[x] = tree[x]
  BY <1>1, <1>3, <1>4
<1>12. there \in come
  <2>1. Under(there, there) /\ Under(names, names)
    BY <1>1, UnderItself
  <2>2. Target(names, names, there) \in Come(tree[d], names, there)
    BY <1>2, <2>1 DEF Come
  <2>3. SubSeq(names, Len(names) + 1, Len(names)) = << >>
    BY <1>1, SubSeqEmpty DEF Names
  <2>4. there \o << >> = there
    BY <1>1, ConcatEmptySeq DEF Names
  <2> QED BY <2>2, <2>3, <2>4 DEF Target, come
<1>13. \A q \in come : q \notin DOMAIN tree[e]
  <2> SUFFICES ASSUME NEW q \in come, q \in DOMAIN tree[e] PROVE FALSE
    OBVIOUS
  <2>1. q \in Names /\ Under(q, there)
    BY <1>10
  <2>2. q = there \/ there \in Parents(q)
    BY <1>1, <2>1, ParentsMeans
  <2> QED BY <1>2, <1>6, <2>2
<1>14. \A q \in Parents(there) \ DOMAIN a : q \notin DOMAIN tree[e]
  <2> SUFFICES ASSUME NEW q \in Parents(there), q \notin DOMAIN a, q \in DOMAIN tree[e] PROVE FALSE
    OBVIOUS
  <2>1. e = d /\ q \in gone
    BY <1>5 DEF a
  <2>2. Under(q, names) /\ Under(there, q) /\ q \in Names
    BY <1>1, <1>6, <2>1, ParentsMeans
  <2> QED BY <1>1, <1>2, <2>1, <2>2, UnderOfUnder
<1>15. names \notin DOMAIN new[d]
  <2>1. names \in gone
    BY <1>1, <1>2, <1>6, UnderItself
  <2>2. CASE e # d
    BY <1>5, <1>11, <2>1, <2>2
  <2>3. CASE e = d
    <3>1. names \notin come
      BY <1>2, <1>13, <2>3
    <3>2. names \notin DOMAIN a
      BY <1>5, <2>1, <2>3 DEF a
    <3>3. names \notin Parents(there)
      BY <1>1, <1>2, <2>3, ParentsMeans
    <3> QED BY <1>9, <1>11, <2>3, <3>1, <3>2, <3>3
  <2> QED BY <2>2, <2>3
<1>16. \A x \in Dirs : IsDirectory(new[x])
  BY <1>3, <1>5, <1>9, <1>11
<1>17. \A x \in Dirs : \A q \in DOMAIN tree[x] \ DOMAIN new[x] : x = d /\ Under(q, names)
  <2> SUFFICES ASSUME NEW x \in Dirs, NEW q \in DOMAIN tree[x], q \notin DOMAIN new[x]
               PROVE  x = d /\ Under(q, names)
    OBVIOUS
  <2>1. x = d
    BY <1>9, <1>11 DEF a
  <2>2. q \in gone
    BY <1>5, <1>9, <1>11, <2>1 DEF a
  <2> QED BY <1>6, <2>1, <2>2
<1>18. \A x \in Dirs : \A q \in DOMAIN new[x] :
               \/ q \in DOMAIN tree[x] /\ new[x][q] = tree[x][q]
               \/ q \notin DOMAIN tree[x] /\ new[x][q] = Directory
               \/ x = e /\ Under(q, there) /\ q \notin DOMAIN tree[x]
  <2> SUFFICES ASSUME NEW x \in Dirs, NEW q \in DOMAIN new[x]
               PROVE  \/ q \in DOMAIN tree[x] /\ new[x][q] = tree[x][q]
                      \/ q \notin DOMAIN tree[x] /\ new[x][q] = Directory
                      \/ x = e /\ Under(q, there) /\ q \notin DOMAIN tree[x]
    OBVIOUS
  <2>1. CASE x = e
    <3>1. CASE q \in come
      BY <1>10, <1>13, <2>1, <3>1
    <3>2. CASE q \in DOMAIN a
      BY <1>8, <1>9, <1>11, <2>1, <3>2
    <3>3. CASE q \in Parents(there) \ DOMAIN a
      BY <1>9, <1>11, <1>14, <2>1, <3>3
    <3> QED BY <1>9, <1>11, <2>1, <3>1, <3>2, <3>3
  <2>2. CASE x # e
    BY <1>5, <1>11, <2>2
  <2> QED BY <2>1, <2>2
<1>19. there \in DOMAIN new[e]
  BY <1>9, <1>11, <1>12
<1> QED BY <1>2, <1>11, <1>15, <1>16, <1>17, <1>18, <1>19 DEF MovedWell

-----------------------------------------------------------------------------
(* Each change is one a rule of the role allows.                           *)

AllowedAt(d, q) ==
    \/ \E t \in Threads : truncated[t] = [root |-> d, names |-> q]
    \/ \E t \in Threads : plan[t] # << >> /\ \E p \in {plan[t][1].path, plan[t][1].to} : LetChange(p, d, q)

LEMMA ChangeMeans ==
  ASSUME \A d \in DOMAIN tree : \A q \in DOMAIN tree[d] \cup DOMAIN tree'[d] :
             Node(tree[d], q) # Node(tree'[d], q) => AllowedAt(d, q)
  PROVE  ChangeAllowed
  BY DEF ChangeAllowed, AllowedAt

LEMMA NothingChanges == ASSUME UNCHANGED tree PROVE ChangeAllowed
  BY ChangeMeans

LEMMA TruncateKeeps ==
  ASSUME NEW t \in Threads, FilesInv, Truncate(t) PROVE FilesInv' /\ ChangeAllowed
<1> PICK o, p, names, x : o = plan[t][1] /\ p = o.path /\ names = p.names /\ x = Place(p)
  OBVIOUS
<1> USE DEF FilesInv
<1>1. IsOperation(o) /\ o.op = "write" /\ MayPass(o) /\ Possible(o) /\ plan[t] # << >>
      /\ 1 \in DOMAIN plan[t]
  BY PlanFirst DEF Truncate, PlansTyped
<1>2. p \in Paths /\ names \in Names /\ x \in Dirs /\ p # NoPath
  BY <1>1, PathNames DEF IsOperation
<1>3. DOMAIN tree = Dirs /\ IsDirectory(tree[x])
  BY <1>2 DEF TreeTyped
<1>4. MkdirAllOK(tree[x], names) /\ (names \in DOMAIN tree[x] => ~tree[x][names].dir)
  BY <1>1 DEF Possible, MayWrite
<1>5. PICK new : new = Put(tree[x], names, << >>)
  OBVIOUS
<1>6. /\ IsDirectory(new) /\ DOMAIN new = DOMAIN tree[x] \cup Parents(names) \cup {names}
      /\ \A q \in DOMAIN tree[x] \ {names} : new[q] = tree[x][q]
      /\ \A q \in Parents(names) \ DOMAIN tree[x] : new[q] = Directory
  <2>1. PICK f, text : f = tree[x] /\ text = << >>
    OBVIOUS
  <2>2. IsDirectory(f) /\ MkdirAllOK(f, names) /\ (names \in DOMAIN f => ~f[names].dir)
    BY <1>3, <1>4, <2>1
  <2>3. PutWell(f, names, Put(f, names, text))
    BY <1>2, <2>2, PutDirectory
  <2> QED BY <1>5, <2>1, <2>3 DEF PutWell
<1>7. tree' = [tree EXCEPT ![x] = new] /\ UNCHANGED <<call, hunk, plan>>
      /\ phase' = [phase EXCEPT ![t] = "fill"]
      /\ truncated' = [truncated EXCEPT ![t] = [root |-> x, names |-> names]]
  BY <1>5 DEF Truncate, Changed, setting
<1>8. DOMAIN tree' = Dirs /\ tree'[x] = new /\ \A d \in Dirs \ {x} : tree'[d] = tree[d]
  BY <1>2, <1>3, <1>7
<1>9. TreeTyped'
  BY <1>6, <1>8 DEF TreeTyped
<1>10. CallsTyped' /\ PlansTyped'
  BY <1>7 DEF CallsTyped, PlansTyped
<1>11. TruncatedTyped'
  BY <1>2, <1>7 DEF TruncatedTyped
<1>12. \A u \in Threads : phase'[u] = IF u = t THEN "fill" ELSE phase[u]
  BY <1>7 DEF CallsTyped
<1>13. PatchWhole' /\ TextKept'
  BY <1>1, <1>7, <1>12 DEF PatchWhole, TextKept
<1>14. TRUE \in Access(p, "write")
  BY <1>1 DEF MayPass, Needs
<1>15. ASSUME NEW d \in Dirs, NEW q \in DOMAIN tree[d] \cup DOMAIN tree'[d], Node(tree[d], q) # Node(tree'[d], q)
       PROVE  AllowedAt(d, q)
  <2>1. d = x
    BY <1>8, <1>15
  <2>2. q = names
    BY <1>6, <1>8, <1>15, <2>1 DEF Node
  <2>3. q \in DOMAIN tree'[d]
    BY <1>6, <1>8, <2>1, <2>2
  <2>4. LetChange(p, d, q)
    BY <1>2, <1>14, <2>1, <2>2, <2>3, UnderItself DEF LetChange
  <2> QED BY <1>1, <2>4 DEF AllowedAt
<1>16. ChangeAllowed
  BY <1>3, <1>15, ChangeMeans
<1> QED BY <1>9, <1>10, <1>11, <1>13, <1>16

LEMMA FillKeeps ==
  ASSUME NEW t \in Threads, FilesInv, Fill(t) PROVE FilesInv' /\ ChangeAllowed
<1> PICK p : p = truncated[t]
  OBVIOUS
<1> USE DEF FilesInv
<1>1. /\ plan' = [plan EXCEPT ![t] = Tail(plan[t])] /\ UNCHANGED <<call, hunk>>
      /\ truncated' = [truncated EXCEPT ![t] = NoPath] /\ phase' = [phase EXCEPT ![t] = "write"]
  BY DEF Fill, Changed, setting
<1>2. p \in [root : Dirs \cup {"none"}, names : Names]
  BY DEF TruncatedTyped
<1>3. IsPlan(Tail(plan[t]))
  BY PlanFirst DEF Fill, PlansTyped, TextKept
<1>4. CallsTyped' /\ PlansTyped'
  BY <1>1, <1>3 DEF CallsTyped, PlansTyped
<1>5. TruncatedTyped'
  <2>1. NoPath \in [root : Dirs \cup {"none"}, names : Names]
    BY EmptySeq DEF NoPath, Names
  <2> QED BY <1>1, <2>1 DEF TruncatedTyped
<1>6. \A u \in Threads : phase'[u] = IF u = t THEN "write" ELSE phase[u]
  BY <1>1 DEF CallsTyped
<1>7. \A u \in Threads \ {t} : plan'[u] = plan[u]
  BY <1>1 DEF PlansTyped
<1>8. PatchWhole' /\ TextKept'
  BY <1>1, <1>6, <1>7 DEF PatchWhole, TextKept
<1>9. CASE p = NoPath
  <2>1. UNCHANGED tree
    BY <1>9 DEF Fill
  <2>2. TreeTyped'
    BY <2>1 DEF TreeTyped
  <2> QED BY <1>4, <1>5, <1>8, <2>1, <2>2, NothingChanges
<1>10. CASE p # NoPath
  <2> PICK text : text = Over(plan[t][1].lines, tree[p.root][p.names].lines)
    OBVIOUS
  <2>1. tree' = [tree EXCEPT ![p.root] = [tree[p.root] EXCEPT ![p.names].lines = text]]
    BY <1>10 DEF Fill, Changed
  <2>2. DOMAIN tree = Dirs
    BY DEF TreeTyped
  <2>3. CASE p.root \notin Dirs
    <3>1. DOMAIN tree' = Dirs /\ \A d \in Dirs : tree'[d] = tree[d]
      BY <2>1, <2>2, <2>3
    <3>2. TreeTyped'
      BY <3>1 DEF TreeTyped
    <3>3. ChangeAllowed
      BY <2>2, <3>1, ChangeMeans
    <3> QED BY <1>4, <1>5, <1>8, <3>2, <3>3
  <2>4. CASE p.root \in Dirs
    <3>0. PICK f, names, new : f = tree[p.root] /\ names = p.names /\ new = [f EXCEPT ![names].lines = text]
      OBVIOUS
    <3>1. IsDirectory(f)
      BY <2>4, <3>0 DEF TreeTyped
    <3>2. IsDirectory(new) /\ DOMAIN new = DOMAIN f /\ \A q \in DOMAIN f \ {names} : new[q] = f[q]
      BY <3>0, <3>1, FilledDirectory
    <3>3. DOMAIN tree' = Dirs /\ tree'[p.root] = new /\ \A d \in Dirs \ {p.root} : tree'[d] = tree[d]
      BY <2>1, <2>2, <2>4, <3>0
    <3>4. TreeTyped'
      BY <3>2, <3>3 DEF TreeTyped
    <3>5. ASSUME NEW d \in Dirs, NEW q \in DOMAIN tree[d] \cup DOMAIN tree'[d], Node(tree[d], q) # Node(tree'[d], q)
          PROVE  AllowedAt(d, q)
      <4>1. d = p.root
        BY <3>3, <3>5
      <4>2. q = names
        <5>1. f = tree[d] /\ new = tree'[d] /\ q \in DOMAIN f
          BY <3>0, <3>2, <3>3, <4>1
        <5>2. Node(f, q) # Node(new, q)
          BY <3>5, <5>1
        <5> QED BY <3>2, <5>1, <5>2 DEF Node
      <4>3. p = [root |-> d, names |-> q]
        BY <1>2, <3>0, <4>1, <4>2
      <4> QED BY <4>3 DEF AllowedAt
    <3>6. ChangeAllowed
      BY <2>2, <3>5, ChangeMeans
    <3> QED BY <1>4, <1>5, <1>8, <3>4, <3>6
  <2> QED BY <2>3, <2>4
<1> QED BY <1>9, <1>10

\* A file another thread has truncated is where it was, gone, or moved along.
LEMMA FollowTyped ==
  ASSUME NEW u \in Threads, TruncatedTyped, NEW o, IsOperation(o), o.op # "write"
  PROVE  Follow(u, o) \in [root : Dirs \cup {"none"}, names : Names]
<1> PICK p : p = truncated[u]
  OBVIOUS
<1>1. p \in [root : Dirs \cup {"none"}, names : Names]
  BY DEF TruncatedTyped
<1>2. NoPath \in [root : Dirs \cup {"none"}, names : Names]
  BY EmptySeq DEF NoPath, Names
<1>3. CASE p = NoPath \/ p.root # Place(o.path) \/ ~Under(p.names, o.path.names)
  BY <1>1, <1>3 DEF Follow
<1>4. CASE ~(p = NoPath \/ p.root # Place(o.path) \/ ~Under(p.names, o.path.names))
  <2>1. CASE o.op = "delete"
    BY <1>2, <1>4, <2>1 DEF Follow
  <2>2. CASE o.op = "move"
    <3>1. o.path.names \in Names /\ o.to.names \in Names /\ Place(o.to) \in Dirs /\ p.names \in Names
      BY <1>1, <2>2, PathNames DEF IsOperation
    <3>2. Target(p.names, o.path.names, o.to.names) \in Names
      BY <1>4, <3>1, TargetMeans DEF TargetWell
    <3>3. Follow(u, o) = [root |-> Place(o.to), names |-> Target(p.names, o.path.names, o.to.names)]
      BY <1>4, <2>2 DEF Follow, Target
    <3> QED BY <3>1, <3>2, <3>3
  <2> QED BY <2>1, <2>2 DEF IsOperation
<1> QED BY <1>3, <1>4

LEMMA DeleteOrMoveKeeps ==
  ASSUME NEW t \in Threads, FilesInv, DeleteOrMove(t) PROVE FilesInv' /\ ChangeAllowed
<1>0. PICK o, p, names, x : o = plan[t][1] /\ p = o.path /\ names = p.names /\ x = Place(p)
  OBVIOUS
<1> USE DEF FilesInv
<1>1. IsOperation(o) /\ o.op # "write" /\ MayPass(o) /\ Possible(o) /\ plan[t] # << >>
      /\ IsPlan(Tail(plan[t]))
  BY <1>0, PlanFirst DEF DeleteOrMove, PlansTyped
<1>2. p \in Paths /\ names \in Names /\ x \in Dirs /\ p # NoPath
  BY <1>0, <1>1, PathNames DEF IsOperation
<1>3. DOMAIN tree = Dirs /\ \A d \in Dirs : IsDirectory(tree[d])
  BY DEF TreeTyped
<1>4. /\ plan' = [plan EXCEPT ![t] = Tail(plan[t])] /\ UNCHANGED <<call, hunk, phase>>
      /\ truncated' = [u \in Threads |-> Follow(u, o)]
      /\ tree' = IF o.op = "delete" THEN [tree EXCEPT ![x] = Without(tree[x], names)]
                 ELSE Moved(x, names, Place(o.to), o.to.names)
  BY <1>0 DEF DeleteOrMove, Changed, setting
<1>5. CallsTyped' /\ PlansTyped'
  BY <1>1, <1>4 DEF CallsTyped, PlansTyped
<1>6. TruncatedTyped'
  BY <1>1, <1>4, FollowTyped DEF TruncatedTyped
<1>7. phase[t] = "write" /\ \A u \in Threads \ {t} : plan'[u] = plan[u]
  BY <1>4 DEF DeleteOrMove, PlansTyped
<1>8. PatchWhole' /\ TextKept'
  BY <1>4, <1>7 DEF PatchWhole, TextKept
<1>9. CASE o.op = "delete"
  <2>1. PICK f, new : f = tree[x] /\ new = Without(f, names)
    OBVIOUS
  <2>2. names \in DOMAIN f /\ ~f[names].dir
    BY <1>0, <1>1, <1>9, <2>1 DEF Possible, MayDelete, MayRead, IsFile
  <2>3. IsDirectory(new)
    BY <1>2, <1>3, <2>1, <2>2, WithoutDirectory
  <2>4. DOMAIN new = DOMAIN f \ {names} /\ \A q \in DOMAIN new : new[q] = f[q]
    BY <2>1 DEF Without
  <2>5. DOMAIN tree' = Dirs /\ tree'[x] = new /\ \A d \in Dirs \ {x} : tree'[d] = tree[d]
    BY <1>2, <1>3, <1>4, <1>9, <2>1
  <2>6. TreeTyped'
    BY <1>3, <2>3, <2>5 DEF TreeTyped
  <2>7. TRUE \in Access(p, "delete")
    BY <1>0, <1>1, <1>9 DEF MayPass, Needs
  <2>8. ASSUME NEW d \in Dirs, NEW q \in DOMAIN tree[d] \cup DOMAIN tree'[d], Node(tree[d], q) # Node(tree'[d], q)
        PROVE  AllowedAt(d, q)
    <3>1. d = x
      BY <2>5, <2>8
    <3>2. f = tree[d] /\ new = tree'[d] /\ q \in DOMAIN f
      BY <2>1, <2>4, <2>5, <3>1
    <3>3. q = names
      BY <2>4, <2>8, <3>2 DEF Node
    <3>4. q \notin DOMAIN tree'[d]
      BY <2>4, <3>2, <3>3
    <3>5. LetChange(p, d, q)
      BY <1>0, <1>2, <2>7, <3>1, <3>3, <3>4, UnderItself DEF LetChange
    <3> QED BY <1>0, <1>1, <3>5 DEF AllowedAt
  <2>9. ChangeAllowed
    BY <1>3, <2>8, ChangeMeans
  <2> QED BY <1>5, <1>6, <1>8, <2>6, <2>9
<1>10. CASE o.op = "move"
  <2>1. PICK to, there, y, new :
           to = o.to /\ there = to.names /\ y = Place(to) /\ new = Moved(x, names, y, there)
    OBVIOUS
  <2>2. to \in Paths /\ there \in Names /\ y \in Dirs /\ to # NoPath
    BY <1>1, <1>10, <2>1, PathNames DEF IsOperation
  <2>3. MayMove(p, to)
    BY <1>0, <1>1, <1>10, <2>1 DEF Possible
  <2>4. /\ DOMAIN new = Dirs /\ \A d \in Dirs : IsDirectory(new[d])
        /\ names \in DOMAIN tree[x] /\ names \notin DOMAIN new[x]
        /\ there \notin DOMAIN tree[y] /\ there \in DOMAIN new[y]
        /\ \A d \in Dirs : \A q \in DOMAIN tree[d] \ DOMAIN new[d] : d = x /\ Under(q, names)
        /\ \A d \in Dirs : \A q \in DOMAIN new[d] :
               \/ q \in DOMAIN tree[d] /\ new[d][q] = tree[d][q]
               \/ q \notin DOMAIN tree[d] /\ new[d][q] = Directory
               \/ d = y /\ Under(q, there) /\ q \notin DOMAIN tree[d]
    <3>1. MovedWell(p, to, Moved(Place(p), p.names, Place(to), to.names))
      BY <1>2, <2>2, <2>3, MovedMeans
    <3>2. MovedWell(p, to, new)
      BY <1>0, <2>1, <3>1
    <3>3. /\ DOMAIN new = Dirs /\ \A d \in Dirs : IsDirectory(new[d])
          /\ names \in DOMAIN tree[x] /\ names \notin DOMAIN new[x]
          /\ there \notin DOMAIN tree[y] /\ there \in DOMAIN new[y]
      BY <1>0, <2>1, <3>2 DEF MovedWell
    <3>4. \A d \in Dirs : \A q \in DOMAIN tree[d] \ DOMAIN new[d] : d = x /\ Under(q, names)
      BY <1>0, <3>2, Zenon DEF MovedWell
    <3>5. \A d \in Dirs : \A q \in DOMAIN new[d] :
               \/ q \in DOMAIN tree[d] /\ new[d][q] = tree[d][q]
               \/ q \notin DOMAIN tree[d] /\ new[d][q] = Directory
               \/ d = y /\ Under(q, there) /\ q \notin DOMAIN tree[d]
      <4>1. y = Place(to) /\ there = to.names
        BY <2>1
      <4> QED BY <4>1, <3>2, Zenon DEF MovedWell
    <3> QED BY <3>3, <3>4, <3>5, Zenon
  <2>5. tree' = new
    BY <1>4, <1>10, <2>1
  <2>6. TreeTyped'
    BY <2>4, <2>5 DEF TreeTyped
  <2>7. TRUE \in Access(p, "move") /\ TRUE \in Access(to, "write")
    BY <1>0, <1>1, <1>10, <2>1 DEF MayPass, Needs
  <2>8. ASSUME NEW d \in Dirs, NEW q \in DOMAIN tree[d] \cup DOMAIN tree'[d], Node(tree[d], q) # Node(tree'[d], q)
        PROVE  AllowedAt(d, q)
    <3>1. CASE q \notin DOMAIN new[d]
      <4>1. d = x /\ Under(q, names)
        BY <2>4, <2>5, <2>8, <3>1
      <4>2. ~StaysThere(d, names)
        BY <2>4, <2>5, <4>1 DEF StaysThere
      <4>3. LetChange(p, d, q)
        BY <1>0, <1>2, <2>5, <2>7, <3>1, <4>1, <4>2 DEF LetChange
      <4> QED BY <1>0, <1>1, <4>3 DEF AllowedAt
    <3>2. CASE q \in DOMAIN new[d]
      <4>1. d = y /\ Under(q, there)
        BY <2>4, <2>5, <2>8, <3>2 DEF Node
      <4>2. ~StaysThere(d, there)
        BY <2>4, <2>5, <4>1 DEF StaysThere
      <4>3. LetChange(to, d, q)
        BY <2>1, <2>2, <2>5, <2>7, <3>2, <4>1, <4>2 DEF LetChange
      <4> QED BY <1>0, <1>1, <2>1, <4>3 DEF AllowedAt
    <3> QED BY <3>1, <3>2
  <2>9. ChangeAllowed
    BY <1>3, <2>8, ChangeMeans
  <2> QED BY <1>5, <1>6, <1>8, <2>6, <2>9
<1> QED BY <1>1, <1>9, <1>10 DEF IsOperation

LEMMA FilesStepKeeps == FilesInv /\ [FilesNext]_fvars => FilesInv' /\ ChangeAllowed
<1> SUFFICES ASSUME FilesInv, [FilesNext]_fvars PROVE FilesInv' /\ ChangeAllowed
  OBVIOUS
<1>1. CASE UNCHANGED fvars
  <2>1. UNCHANGED <<tree, call, hunk, phase, plan, truncated>>
    BY <1>1 DEF fvars
  <2>2. ChangeAllowed
    BY <2>1, NothingChanges
  <2> QED BY <2>1, <2>2 DEF FilesInv, TreeTyped, CallsTyped, PlansTyped, TruncatedTyped, PatchWhole, TextKept
<1>2. ASSUME NEW t \in Threads, FilesStep(t) PROVE FilesInv' /\ ChangeAllowed
  <2>1. CASE \E how : Done(t, how)
    BY <2>1, DoneKeeps, NothingChanges
  <2>2. CASE Refuse(t) \/ RejectPatch(t) \/ Look(t) \/ Finish(t) \/ OperationFails(t)
    BY <2>1, <2>2 DEF Refuse, RejectPatch, Look, Finish, OperationFails
  <2>3. CASE Start(t)
    BY <2>3, StartKeeps, NothingChanges
  <2>4. CASE ReadFile(t)
    BY <2>4, ReadFileKeeps, NothingChanges
  <2>5. CASE ReadHunk(t)
    BY <2>5, ReadHunkKeeps, NothingChanges
  <2>6. CASE Truncate(t)
    BY <2>6, TruncateKeeps
  <2>7. CASE Fill(t)
    BY <2>7, FillKeeps
  <2>8. CASE DeleteOrMove(t)
    BY <2>8, DeleteOrMoveKeeps
  <2> QED BY <1>2, <2>2, <2>3, <2>4, <2>5, <2>6, <2>7, <2>8 DEF FilesStep
<1> QED BY <1>1, <1>2 DEF FilesNext

\* Whatever the calls, the rules and the directories are: a file is written, appears or
\* goes only where the rules of the role (access.go) let a call write, delete or move, and
\* what a move takes along it takes from a directory the call may move.
THEOREM ChangesNeedRights == FilesSpec => ChangesAllowed
<1>1. FilesInit => FilesInv
  BY FilesStart
<1>2. FilesInv /\ [FilesNext]_fvars => FilesInv'
  BY FilesStepKeeps
<1>3. FilesInv /\ [FilesNext]_fvars => [ChangeAllowed]_fvars
  BY FilesStepKeeps
<1> QED BY <1>1, <1>2, <1>3, PTL DEF FilesSpec, ChangesAllowed

\* And the directories stay directories: no file is in another, whatever threads write,
\* delete and move at the same time.
THEOREM DirectoriesStay == FilesSpec => [](\A d \in Dirs : IsDirectory(tree[d]))
<1>1. FilesInit => FilesInv
  BY FilesStart
<1>2. FilesInv /\ [FilesNext]_fvars => FilesInv'
  BY FilesStepKeeps
<1>3. FilesInv => \A d \in Dirs : IsDirectory(tree[d])
  BY DEF FilesInv, TreeTyped
<1> QED BY <1>1, <1>2, <1>3, PTL DEF FilesSpec

\* A call that has not begun to write has changed nothing, and only such a call is
\* rejected.
Unwritten ==
    /\ DOMAIN phase = Threads /\ DOMAIN outcome = Threads /\ DOMAIN changed = Threads
    /\ \A t \in Threads :
          /\ phase[t] \in {"start", "read"} => ~changed[t]
          /\ outcome[t] = "rejected" => phase[t] = "done" /\ ~changed[t]

LEMMA UnwrittenKept ==
  ASSUME NEW t \in Threads, Unwritten,
         \/ \E how : Done(t, how) /\ (how = "rejected" => phase[t] \in {"start", "read"})
         \/ /\ phase[t] \in {"start", "read"} /\ UNCHANGED <<outcome, changed>>
            /\ \E p : phase' = [phase EXCEPT ![t] = p]
         \/ /\ phase[t] \in {"write", "fill"} /\ outcome' = outcome
            /\ \E p \in {"write", "fill"} : phase' = [phase EXCEPT ![t] = p]
            /\ \E b : changed' = [changed EXCEPT ![t] = b]
  PROVE  Unwritten'
<1>1. ASSUME NEW how, Done(t, how), how = "rejected" => phase[t] \in {"start", "read"} PROVE Unwritten'
  <2>1. /\ outcome' = [outcome EXCEPT ![t] = how] /\ phase' = [phase EXCEPT ![t] = "done"]
        /\ changed' = changed
    BY <1>1 DEF Done
  <2> QED BY <1>1, <2>1 DEF Unwritten
<1>2. CASE /\ phase[t] \in {"start", "read"} /\ UNCHANGED <<outcome, changed>>
           /\ \E p : phase' = [phase EXCEPT ![t] = p]
  <2> PICK p : phase' = [phase EXCEPT ![t] = p]
    BY <1>2
  <2> QED BY <1>2 DEF Unwritten
<1>3. CASE /\ phase[t] \in {"write", "fill"} /\ outcome' = outcome
           /\ \E p \in {"write", "fill"} : phase' = [phase EXCEPT ![t] = p]
           /\ \E b : changed' = [changed EXCEPT ![t] = b]
  <2> PICK p \in {"write", "fill"} : phase' = [phase EXCEPT ![t] = p]
    BY <1>3
  <2> PICK b : changed' = [changed EXCEPT ![t] = b]
    BY <1>3
  <2> QED BY <1>3 DEF Unwritten
<1> QED BY <1>1, <1>2, <1>3

LEMMA UnwrittenStep == Unwritten /\ [FilesNext]_fvars => Unwritten'
<1> SUFFICES ASSUME Unwritten, [FilesNext]_fvars PROVE Unwritten'
  OBVIOUS
<1>1. CASE UNCHANGED fvars
  BY <1>1 DEF fvars, Unwritten
<1>2. ASSUME NEW t \in Threads, FilesStep(t) PROVE Unwritten'
  <2>1. CASE Refuse(t) \/ RejectPatch(t) \/ Look(t) \/ Finish(t) \/ OperationFails(t)
    <3>1. \/ Done(t, "refused") \/ Done(t, "ok") \/ Done(t, "failed")
          \/ Done(t, "rejected") /\ phase[t] = "start"
      BY <2>1 DEF Refuse, RejectPatch, Look, Finish, OperationFails
    <3>2. \E how : Done(t, how) /\ (how = "rejected" => phase[t] \in {"start", "read"})
      BY <3>1
    <3> QED BY <3>2, UnwrittenKept
  <2>2. CASE Start(t)
    BY <2>2, UnwrittenKept DEF Start
  <2>3. CASE ReadFile(t)
    BY <2>3, UnwrittenKept DEF ReadFile
  <2>4. CASE ReadHunk(t)
    <3>1. \/ \E how : Done(t, how)
          \/ UNCHANGED <<outcome, changed>> /\ \E p : phase' = [phase EXCEPT ![t] = p]
      BY <2>4 DEF ReadHunk, RejectHunk
    <3> QED BY <2>4, <3>1, UnwrittenKept DEF ReadHunk
  <2>5. CASE Truncate(t)
    <3>1. phase[t] = "write" /\ outcome' = outcome /\ changed' = [changed EXCEPT ![t] = TRUE]
          /\ phase' = [phase EXCEPT ![t] = "fill"]
      BY <2>5 DEF Truncate, Changed
    <3> QED BY <3>1, UnwrittenKept
  <2>6. CASE Fill(t)
    <3>1. /\ phase[t] = "fill" /\ outcome' = outcome /\ phase' = [phase EXCEPT ![t] = "write"]
          /\ changed' = changed \/ changed' = [changed EXCEPT ![t] = TRUE]
      BY <2>6 DEF Fill, Changed
    <3>2. /\ DOMAIN changed' = Threads /\ \A u \in Threads \ {t} : changed'[u] = changed[u]
          /\ \A u \in Threads : phase'[u] = IF u = t THEN "write" ELSE phase[u]
          /\ DOMAIN phase' = Threads
      BY <3>1 DEF Unwritten
    <3> QED BY <3>1, <3>2 DEF Unwritten
  <2>7. CASE DeleteOrMove(t)
    <3>1. phase[t] = "write" /\ outcome' = outcome /\ changed' = [changed EXCEPT ![t] = TRUE]
          /\ phase' = phase
      BY <2>7 DEF DeleteOrMove, Changed
    <3> QED BY <3>1 DEF Unwritten
  <2> QED BY <1>2, <2>1, <2>2, <2>3, <2>4, <2>5, <2>6, <2>7 DEF FilesStep
<1> QED BY <1>1, <1>2 DEF FilesNext

\* A call that is rejected, a patch whose later hunk does not fit among them, leaves the
\* files as they were (vfs_patch.go writes when all hunks are read).
THEOREM RejectedIsHarmless == FilesSpec => []RejectedChangesNothing
<1>1. FilesInit => Unwritten
  BY DEF FilesInit, Unwritten
<1>2. Unwritten /\ [FilesNext]_fvars => Unwritten'
  BY UnwrittenStep
<1>3. Unwritten => RejectedChangesNothing
  BY DEF Unwritten, RejectedChangesNothing
<1> QED BY <1>1, <1>2, <1>3, PTL DEF FilesSpec

\* What the agent wants of a call that says so: the text is what the call, read by
\* itself, makes of the text it has in mind; a patch is one hunk, and if it moves the file
\* the new name is another.
Planned(c) ==
    IF c.tool = "vfsPatch" THEN Changes(ParsePatch(c.text)[1], c.from)
    ELSE <<Writing(c.path, NewText(c, c.from))>>
WantsWhatItSays ==
    \A c \in Requests : "want" \in DOMAIN c =>
        /\ Edits(c) \/ (c.tool = "vfsPatch" /\ Len(ParsePatch(c.text)) = 1)
        /\ c.file \in Paths /\ c.want \in Seq(Lines)
        /\ \/ Planned(c) = <<Writing(c.file, c.want)>>
           \/ \E p \in Paths : /\ p.names # c.file.names
                               /\ Planned(c) = <<Writing(c.file, c.want), Deleting(p)>>

\* Where such a call stands while no other has begun: its plan is the one above if the
\* text it read is the one the agent has in mind, the file is empty while it is open, and
\* holds what is wanted once the first operation of the plan is done.
Quiet(t) == \A u \in Threads \ {t} : phase[u] = "start"
Landed(c) == MayRead(c.file) /\ Text(c.file) = c.want
Opened(c) ==
    /\ Valid(c.file) /\ c.file.names \in DOMAIN tree[Place(c.file)]
    /\ tree[Place(c.file)][c.file.names] = File(<< >>)
Rest(c, q) == q = << >> \/ \E p \in Paths : p.names # c.file.names /\ q = <<Deleting(p)>>
LandingOf(t, c) ==
    /\ outcome[t] = "ok" => phase[t] = "done"
    /\ phase[t] \in {"start", "read"} => plan[t] = << >> /\ hunk[t] = 1
    /\ seen[t] = c.from =>
          /\ phase[t] = "write" => plan[t] = Planned(c) \/ (Landed(c) /\ Rest(c, plan[t]))
          /\ phase[t] = "fill" => /\ plan[t] = Planned(c) /\ Opened(c)
                                  /\ truncated[t] = [root |-> Place(c.file), names |-> c.file.names]
          /\ outcome[t] = "ok" => Landed(c)
Landing ==
    /\ DOMAIN outcome = Threads /\ DOMAIN seen = Threads
    /\ \A t \in Threads : \A c \in Requests :
           call[t] = c /\ "want" \in DOMAIN c /\ Quiet(t) => LandingOf(t, c)

LEMMA LandingStart == FilesInit => Landing
<1> SUFFICES ASSUME FilesInit PROVE Landing
  OBVIOUS
<1>1. DOMAIN outcome = Threads /\ DOMAIN seen = Threads
  BY DEF FilesInit
<1>2. \A t \in Threads : phase[t] = "start" /\ plan[t] = << >> /\ hunk[t] = 1 /\ outcome[t] = "none"
  BY DEF FilesInit
<1>3. \A t \in Threads : \A c : LandingOf(t, c)
  BY <1>2 DEF LandingOf
<1> QED BY <1>1, <1>3 DEF Landing

LEMMA WantMeans ==
  ASSUME WantsWhatItSays, NEW c \in Requests, "want" \in DOMAIN c
  PROVE  /\ Edits(c) \/ (c.tool = "vfsPatch" /\ Len(ParsePatch(c.text)) = 1)
         /\ ~Looks(c) /\ c.tool \notin {"vfsWrite", "vfsDelete", "vfsMove"}
         /\ c.file \in Paths /\ c.want \in Seq(Lines)
         /\ Planned(c) # << >>
         /\ Planned(c)[1] = Writing(c.file, c.want)
         /\ Rest(c, Tail(Planned(c)))
<1>1. /\ Edits(c) \/ (c.tool = "vfsPatch" /\ Len(ParsePatch(c.text)) = 1)
      /\ c.file \in Paths /\ c.want \in Seq(Lines)
      /\ \/ Planned(c) = <<Writing(c.file, c.want)>>
         \/ \E p \in Paths : /\ p.names # c.file.names
                             /\ Planned(c) = <<Writing(c.file, c.want), Deleting(p)>>
  BY DEF WantsWhatItSays
<1>2. ~Looks(c) /\ c.tool \notin {"vfsWrite", "vfsDelete", "vfsMove"}
  BY <1>1 DEF Edits, Reads, Looks
<1>3. Planned(c) # << >> /\ Planned(c)[1] = Writing(c.file, c.want) /\ Rest(c, Tail(Planned(c)))
  <2> PICK q, w : q = Planned(c) /\ w = Writing(c.file, c.want)
    OBVIOUS
  <2>1. CASE q = <<w>>
    <3>1. q # << >> /\ q[1] = w /\ Tail(q) = << >>
      BY <2>1
    <3> QED BY <3>1 DEF Rest
  <2>2. ASSUME NEW p \in Paths, p.names # c.file.names, q = <<w, Deleting(p)>>
        PROVE  q # << >> /\ q[1] = w /\ Rest(c, Tail(q))
    <3> PICK o : o = Deleting(p)
      OBVIOUS
    <3>1. q # << >> /\ q[1] = w /\ Tail(q) = <<o>>
      BY <2>2
    <3> QED BY <2>2, <3>1 DEF Rest
  <2> QED BY <1>1, <2>1, <2>2
<1> QED BY <1>1, <1>2, <1>3

\* What every step of a thread leaves alone: the setting, and what other threads are at.
LEMMA StepMeans ==
  ASSUME NEW u \in Threads, FilesStep(u)
  PROVE  /\ UNCHANGED setting
         /\ phase[u] \in {"start", "read", "write", "fill"}
         /\ \/ \E p \in {"done", "read", "write", "fill"} : phase' = [phase EXCEPT ![u] = p]
            \/ phase[u] = "write" /\ phase' = phase
         /\ outcome' = outcome \/ \E how : outcome' = [outcome EXCEPT ![u] = how]
         /\ seen' = seen \/ \E text : seen' = [seen EXCEPT ![u] = text]
<1>1. CASE phase[u] \in {"start", "read", "write", "fill"} /\ \E how : Done(u, how)
  BY <1>1 DEF Done
<1>2. CASE Refuse(u) \/ RejectPatch(u) \/ Look(u)
  <2>1. phase[u] = "start" /\ \E how : Done(u, how)
    BY <1>2 DEF Refuse, RejectPatch, Look
  <2> QED BY <1>1, <2>1
<1>3. CASE Finish(u) \/ OperationFails(u)
  <2>1. phase[u] = "write" /\ \E how : Done(u, how)
    BY <1>3 DEF Finish, OperationFails
  <2> QED BY <1>1, <2>1
<1>4. CASE Start(u)
  <2>1. /\ phase[u] = "start" /\ UNCHANGED <<setting, outcome, seen>>
        /\ \E p \in {"read", "write"} : phase' = [phase EXCEPT ![u] = p]
    BY <1>4 DEF Start
  <2> QED BY <2>1
<1>5. CASE ReadFile(u)
  <2>1. /\ phase[u] = "read"
        /\ \/ \E how : Done(u, how)
           \/ /\ UNCHANGED <<setting, outcome>> /\ phase' = [phase EXCEPT ![u] = "write"]
              /\ \E text : seen' = [seen EXCEPT ![u] = text]
    BY <1>5 DEF ReadFile
  <2> QED BY <1>1, <2>1
<1>6. CASE ReadHunk(u)
  <2>1. /\ phase[u] = "read"
        /\ \/ \E how : Done(u, how)
           \/ /\ UNCHANGED <<setting, outcome>> /\ \E p \in {"read", "write"} : phase' = [phase EXCEPT ![u] = p]
              /\ \E text : seen' = [seen EXCEPT ![u] = text]
    BY <1>6 DEF ReadHunk, RejectHunk
  <2> QED BY <1>1, <2>1
<1>7. CASE Truncate(u)
  BY <1>7 DEF Truncate, Changed
<1>8. CASE Fill(u)
  <2>1. phase[u] = "fill" /\ phase' = [phase EXCEPT ![u] = "write"] /\ UNCHANGED <<setting, outcome, seen>>
    BY <1>8 DEF Fill, Changed
  <2> QED BY <2>1
<1>9. CASE DeleteOrMove(u)
  <2>1. phase[u] = "write" /\ UNCHANGED <<phase, setting, outcome, seen>>
    BY <1>9 DEF DeleteOrMove, Changed
  <2> QED BY <2>1
<1> QED BY <1>2, <1>3, <1>4, <1>5, <1>6, <1>7, <1>8, <1>9 DEF FilesStep

LEMMA SettingStays ==
  ASSUME UNCHANGED setting, NEW p
  PROVE  Place(p)' = Place(p) /\ Valid(p)' = Valid(p)
  BY DEF setting, Place, Shadowed, Valid

LEMMA LandedStays ==
  ASSUME UNCHANGED <<tree, setting>>, NEW c, Landed(c)
  PROVE  Landed(c)'
<1>1. Place(c.file)' = Place(c.file) /\ Valid(c.file)' = Valid(c.file)
  BY SettingStays
<1> QED BY <1>1 DEF Landed, MayRead, IsFile, Text

LEMMA LandingDone ==
  ASSUME WantsWhatItSays, FilesInv, Landing, NEW t \in Threads, NEW c \in Requests,
         call[t] = c, "want" \in DOMAIN c, LandingOf(t, c),
         NEW how, Done(t, how), how = "ok" => phase[t] = "write" /\ plan[t] = << >>
  PROVE  LandingOf(t, c)'
<1>1. phase'[t] = "done" /\ outcome'[t] = how /\ UNCHANGED <<tree, setting, seen, truncated, hunk>>
  BY DEF Done, FilesInv, CallsTyped, Landing
<1>2. ASSUME how = "ok", seen[t] = c.from PROVE Landed(c)'
  <2>1. Landed(c)
    BY <1>2, WantMeans DEF LandingOf
  <2> QED BY <1>1, <2>1, LandedStays
<1> QED BY <1>1, <1>2 DEF LandingOf

LEMMA LandingStarted ==
  ASSUME WantsWhatItSays, FilesInv, NEW t \in Threads, NEW c \in Requests,
         call[t] = c, "want" \in DOMAIN c, LandingOf(t, c), Start(t)
  PROVE  LandingOf(t, c)'
<1>1. c.tool \notin {"vfsWrite", "vfsDelete", "vfsMove"} /\ (Reads(c) \/ c.tool = "vfsPatch")
  BY WantMeans DEF Edits
<1>2. phase'[t] = "read" /\ plan'[t] = << >> /\ UNCHANGED <<outcome, hunk>>
  BY <1>1 DEF Start, FilesInv, CallsTyped, PlansTyped
<1>3. outcome[t] # "ok" /\ hunk[t] = 1
  BY DEF LandingOf, Start
<1> QED BY <1>2, <1>3 DEF LandingOf

LEMMA LandingRead ==
  ASSUME WantsWhatItSays, FilesInv, Landing, NEW t \in Threads, NEW c \in Requests,
         call[t] = c, "want" \in DOMAIN c, LandingOf(t, c), ReadFile(t)
  PROVE  LandingOf(t, c)'
<1> PICK text, q : text = Text(c.path) /\ q = <<Writing(c.path, NewText(c, text))>>
  OBVIOUS
<1>1. CASE Done(t, "failed") \/ Done(t, "refused") \/ Done(t, "rejected")
  BY <1>1, LandingDone
<1>2. CASE /\ seen' = [seen EXCEPT ![t] = text]
           /\ plan' = [plan EXCEPT ![t] = IF Edits(c) THEN q ELSE << >>]
           /\ phase' = [phase EXCEPT ![t] = "write"]
           /\ UNCHANGED outcome
  <2>1. Edits(c) /\ c.tool # "vfsPatch"
    BY WantMeans DEF ReadFile, Reads
  <2>2. plan'[t] = q /\ seen'[t] = text /\ phase'[t] = "write"
    BY <1>2, <2>1 DEF FilesInv, CallsTyped, PlansTyped, Landing
  <2>3. text = c.from => plan'[t] = Planned(c)
    BY <2>1, <2>2 DEF Planned
  <2>4. outcome'[t] # "ok"
    BY <1>2 DEF LandingOf, ReadFile
  <2> QED BY <2>2, <2>3, <2>4 DEF LandingOf
<1> QED BY <1>1, <1>2 DEF ReadFile

Joined(a, b) == a \o b

LEMMA JoinedNone == ASSUME NEW q, IsPlan(q) PROVE Joined(<< >>, q) = q
<1>1. q \in Seq(ToSet(q))
  BY DEF IsPlan
<1> QED BY <1>1 DEF Joined

LEMMA LandingHunk ==
  ASSUME WantsWhatItSays, FilesInv, Landing, NEW t \in Threads, NEW c \in Requests,
         call[t] = c, "want" \in DOMAIN c, LandingOf(t, c), ReadHunk(t)
  PROVE  LandingOf(t, c)'
<1> PICK hunks : hunks = ParsePatch(c.text)
  OBVIOUS
<1> PICK h : h = hunks[hunk[t]]
  OBVIOUS
<1> PICK text : text = IF h.kind = "add" THEN << >> ELSE Text(h.path)
  OBVIOUS
<1> PICK q : q = Changes(h, text)
  OBVIOUS
<1>0. c.tool = "vfsPatch" /\ phase[t] = "read"
  BY DEF ReadHunk
<1>1. Len(hunks) = 1 /\ plan[t] = << >> /\ hunk[t] = 1 /\ outcome[t] # "ok"
  <2>1. ~Edits(c)
    BY <1>0 DEF Edits, Reads
  <2> QED BY <1>0, <2>1, WantMeans DEF LandingOf
<1>2. CASE Done(t, "refused") \/ Done(t, "rejected")
  BY <1>2, LandingDone
<1>3. CASE /\ seen' = [seen EXCEPT ![t] = text]
           /\ plan' = [plan EXCEPT ![t] = Joined(plan[t], q)]
           /\ phase' = [phase EXCEPT ![t] = "write"]
           /\ UNCHANGED outcome
  <2>1. h \in Hunks /\ h = hunks[1]
    <3>1. WellMarked(c.text)
      BY <1>0 DEF FilesInv, PatchWhole
    <3>2. hunks \in Seq(Hunks)
      BY <1>0, <3>1, FilesAssumption
    <3> QED BY <1>1, <3>2
  <2>2. Joined(plan[t], q) = q
    <3>1. IsPlan(q)
      BY <2>1, HunkPlan
    <3> QED BY <1>1, <3>1, JoinedNone
  <2>3. plan'[t] = q /\ seen'[t] = text /\ phase'[t] = "write"
    <3>1. t \in DOMAIN plan /\ t \in DOMAIN seen /\ t \in DOMAIN phase
      BY DEF FilesInv, CallsTyped, PlansTyped, Landing
    <3>2. plan' = [plan EXCEPT ![t] = q]
      BY <1>3, <2>2
    <3> QED BY <1>3, <3>1, <3>2
  <2>4. text = c.from => plan'[t] = Planned(c)
    BY <1>0, <2>1, <2>3 DEF Planned
  <2> QED BY <1>1, <1>3, <2>3, <2>4 DEF LandingOf
<1>4. \/ /\ seen' = [seen EXCEPT ![t] = text]
         /\ plan' = [plan EXCEPT ![t] = Joined(plan[t], q)]
         /\ phase' = [phase EXCEPT ![t] = "write"]
         /\ UNCHANGED outcome
      \/ Done(t, "refused") \/ Done(t, "rejected")
  BY <1>0, <1>1 DEF ReadHunk, RejectHunk, Joined
<1> QED BY <1>2, <1>3, <1>4, Zenon

LEMMA LandingTruncated ==
  ASSUME WantsWhatItSays, FilesInv, NEW t \in Threads, NEW c \in Requests,
         call[t] = c, "want" \in DOMAIN c, LandingOf(t, c), Truncate(t)
  PROVE  LandingOf(t, c)'
<1> PICK o, f, x, names : o = plan[t][1] /\ f = c.file /\ x = Place(f) /\ names = f.names
  OBVIOUS
<1>1. /\ phase[t] = "write" /\ o.op = "write" /\ Possible(o)
      /\ tree' = [tree EXCEPT ![Place(o.path)] = Put(tree[Place(o.path)], o.path.names, << >>)]
      /\ truncated' = [truncated EXCEPT ![t] = [root |-> Place(o.path), names |-> o.path.names]]
      /\ phase' = [phase EXCEPT ![t] = "fill"]
      /\ UNCHANGED <<plan, setting, outcome, seen>>
  BY DEF Truncate, Changed
<1>2. phase'[t] = "fill" /\ outcome'[t] # "ok"
  BY <1>1 DEF FilesInv, CallsTyped, LandingOf
<1>3. ASSUME seen[t] = c.from
      PROVE  /\ plan'[t] = Planned(c) /\ Opened(c)'
             /\ truncated'[t] = [root |-> Place(f)', names |-> names]
  <2>1. ~Rest(c, plan[t])
    <3>1. ASSUME NEW p \in Paths, plan[t] = <<Deleting(p)>> PROVE FALSE
      <4>1. o = Deleting(p)
        BY <3>1
      <4> QED BY <1>1, <4>1 DEF Deleting
    <3> QED BY <3>1 DEF Rest, Truncate
  <2>2. plan[t] = Planned(c)
    BY <1>1, <1>3, <2>1 DEF LandingOf
  <2>3. o = Writing(f, c.want)
    BY <2>2, WantMeans
  <2>4. o.path = f
    BY <2>3 DEF Writing
  <2>5. x \in Dirs /\ names \in Names /\ DOMAIN tree = Dirs
    BY WantMeans, PathNames DEF FilesInv, TreeTyped
  <2>6. tree'[x] = Put(tree[x], names, << >>)
    BY <1>1, <2>4, <2>5
  <2>7. names \in DOMAIN tree'[x] /\ tree'[x][names] = File(<< >>)
    BY <2>6 DEF Put
  <2>8. Valid(f)
    BY <1>1, <2>4 DEF Possible, MayWrite
  <2>9. Place(f)' = x /\ Valid(f)'
    BY <1>1, <2>8, SettingStays
  <2>10. Opened(c)'
    BY <2>7, <2>9 DEF Opened
  <2>11. truncated'[t] = [root |-> x, names |-> names]
    BY <1>1, <2>4 DEF FilesInv, TruncatedTyped
  <2> QED BY <1>1, <2>2, <2>9, <2>10, <2>11
<1>4. /\ plan'[t] = plan[t] /\ seen'[t] = seen[t]
  BY <1>1
<1> QED BY <1>2, <1>3, <1>4 DEF LandingOf

LEMMA LandingFilled ==
  ASSUME WantsWhatItSays, FilesInv, NEW t \in Threads, NEW c \in Requests,
         call[t] = c, "want" \in DOMAIN c, LandingOf(t, c), Fill(t)
  PROVE  LandingOf(t, c)'
<1> PICK f, x, names : f = c.file /\ x = Place(f) /\ names = f.names
  OBVIOUS
<1>1. /\ phase[t] = "fill" /\ plan' = [plan EXCEPT ![t] = Tail(plan[t])]
      /\ phase' = [phase EXCEPT ![t] = "write"]
      /\ UNCHANGED <<setting, outcome, seen>>
  BY DEF Fill, Changed
<1>2. phase'[t] = "write" /\ outcome'[t] # "ok" /\ plan'[t] = Tail(plan[t]) /\ seen'[t] = seen[t]
  BY <1>1 DEF FilesInv, CallsTyped, PlansTyped, LandingOf
<1>3. ASSUME seen[t] = c.from PROVE Landed(c)' /\ Rest(c, plan'[t])
  <2>1. plan[t] = Planned(c) /\ Opened(c) /\ truncated[t] = [root |-> x, names |-> names]
    BY <1>1, <1>3 DEF LandingOf
  <2>2. Rest(c, plan'[t]) /\ plan[t][1] = Writing(f, c.want) /\ c.want \in Seq(Lines) /\ f \in Paths
    BY <1>2, <2>1, WantMeans
  <2>3. x \in Dirs /\ DOMAIN tree = Dirs
    BY <2>2, PathNames DEF FilesInv, TreeTyped
  <2>4. truncated[t] # NoPath /\ truncated[t].root = x /\ truncated[t].names = names
    BY <2>1, <2>3 DEF NoPath, Dirs
  <2>5. tree' = [tree EXCEPT ![x] = [tree[x] EXCEPT ![names].lines = Over(c.want, tree[x][names].lines)]]
    BY <2>2, <2>4 DEF Fill, Changed, Writing
  <2>6. names \in DOMAIN tree[x] /\ tree[x][names] = File(<< >>) /\ Valid(f)
    BY <2>1 DEF Opened
  <2>7. Over(c.want, << >>) = c.want
    <3> PICK w, e : w = c.want /\ e = SubSeq(<< >>, Len(w) + 1, Len(<< >>))
      OBVIOUS
    <3>1. w \in Seq(Lines)
      BY <2>2
    <3>2. Len(w) \in Nat /\ Len(<< >>) = 0
      BY <3>1
    <3>3. e = << >>
      BY <3>2
    <3>4. w \o << >> = w
      BY <3>1
    <3> QED BY <3>3, <3>4 DEF Over
  <2>8. tree'[x][names] = [dir |-> FALSE, lines |-> c.want] /\ names \in DOMAIN tree'[x]
    <3>1. tree[x][names].lines = << >>
      BY <2>6 DEF File
    <3>2. tree'[x] = [tree[x] EXCEPT ![names] = [tree[x][names] EXCEPT !.lines = c.want]]
      BY <2>3, <2>5, <2>7, <3>1
    <3>3. tree'[x][names] = [File(<< >>) EXCEPT !.lines = c.want] /\ names \in DOMAIN tree'[x]
      BY <2>6, <3>2
    <3> QED BY <3>3 DEF File
  <2>9. Place(f)' = x /\ Valid(f)'
    BY <1>1, <2>6, SettingStays
  <2>10. Landed(c)'
    BY <2>8, <2>9 DEF Landed, MayRead, IsFile, Text
  <2> QED BY <2>2, <2>10
<1> QED BY <1>2, <1>3 DEF LandingOf

LEMMA LandingDeleted ==
  ASSUME WantsWhatItSays, FilesInv, NEW t \in Threads, NEW c \in Requests,
         call[t] = c, "want" \in DOMAIN c, LandingOf(t, c), DeleteOrMove(t)
  PROVE  LandingOf(t, c)'
<1> PICK f, x, o : f = c.file /\ x = Place(f) /\ o = plan[t][1]
  OBVIOUS
<1>1. /\ phase[t] = "write" /\ plan[t] # << >> /\ o.op # "write"
      /\ o.op = "delete" =>
            tree' = [tree EXCEPT ![Place(o.path)] = Without(tree[Place(o.path)], o.path.names)]
      /\ plan' = [plan EXCEPT ![t] = Tail(plan[t])]
      /\ UNCHANGED <<setting, outcome, seen, phase>>
  BY DEF DeleteOrMove, Changed
<1>2. phase'[t] = "write" /\ outcome'[t] # "ok" /\ plan'[t] = Tail(plan[t]) /\ seen'[t] = seen[t]
  BY <1>1 DEF FilesInv, PlansTyped, LandingOf
<1>3. ASSUME seen[t] = c.from PROVE Landed(c)' /\ Rest(c, plan'[t])
  <2>1. plan[t] # Planned(c)
    <3>1. Planned(c)[1] = Writing(f, c.want)
      BY WantMeans
    <3>2. Planned(c)[1].op = "write"
      BY <3>1 DEF Writing
    <3> QED BY <1>1, <3>2
  <2>2. Landed(c) /\ Rest(c, plan[t])
    BY <1>1, <1>3, <2>1 DEF LandingOf
  <2>3. PICK p \in Paths : p.names # f.names /\ plan[t] = <<Deleting(p)>>
    BY <1>1, <2>2 DEF Rest
  <2>4. o = Deleting(p) /\ plan'[t] = << >>
    <3> PICK d : d = Deleting(p)
      OBVIOUS
    <3>1. plan[t] = <<d>>
      BY <2>3
    <3> QED BY <1>2, <3>1
  <2>5. o.op = "delete" /\ o.path = p
    BY <2>4 DEF Deleting
  <2>6. x \in Dirs /\ Place(p) \in Dirs /\ DOMAIN tree = Dirs
    BY WantMeans, PathNames DEF FilesInv, TreeTyped
  <2>7. f.names \in DOMAIN tree'[x] /\ tree'[x][f.names] = tree[x][f.names]
    <3>1. f.names \in DOMAIN tree[x]
      BY <2>2 DEF Landed, MayRead, IsFile
    <3>2. CASE Place(p) = x
      <4>1. tree'[x] = Without(tree[x], p.names)
        BY <1>1, <2>5, <2>6, <3>2
      <4> QED BY <2>3, <3>1, <4>1 DEF Without
    <3>3. CASE Place(p) # x
      BY <1>1, <2>5, <2>6, <3>1, <3>3
    <3> QED BY <3>2, <3>3
  <2>8. Place(f)' = x /\ Valid(f)' = Valid(f)
    BY <1>1, SettingStays
  <2>9. Landed(c)'
    BY <2>2, <2>7, <2>8 DEF Landed, MayRead, IsFile, Text
  <2>10. Rest(c, plan'[t])
    BY <2>4 DEF Rest
  <2> QED BY <2>9, <2>10
<1> QED BY <1>2, <1>3 DEF LandingOf

LEMMA LandingStep == WantsWhatItSays /\ FilesInv /\ Landing /\ [FilesNext]_fvars => Landing'
<1> SUFFICES ASSUME WantsWhatItSays, FilesInv, Landing, [FilesNext]_fvars PROVE Landing'
  OBVIOUS
<1>1. CASE UNCHANGED fvars
  <2>1. UNCHANGED <<tree, setting, call, phase, plan, truncated, hunk, outcome, seen>>
    BY <1>1 DEF fvars, setting
  <2>2. ASSUME NEW t \in Threads, NEW c \in Requests, call'[t] = c, "want" \in DOMAIN c, Quiet(t)'
        PROVE  LandingOf(t, c)'
    <3>1. LandingOf(t, c)
      BY <2>1, <2>2 DEF Landing, Quiet
    <3>2. Landed(c) => Landed(c)'
      BY <2>1, LandedStays
    <3>3. Place(c.file)' = Place(c.file) /\ Valid(c.file)' = Valid(c.file)
      BY <2>1, SettingStays
    <3>4. Opened(c) => Opened(c)'
      BY <2>1, <3>3 DEF Opened
    <3> QED BY <2>1, <3>1, <3>2, <3>3, <3>4 DEF LandingOf
  <2> QED BY <2>1, <2>2 DEF Landing
<1>2. ASSUME NEW u \in Threads, FilesStep(u) PROVE Landing'
  <2>0. UNCHANGED call
    BY <1>2, StepMeans DEF setting
  <2>1. DOMAIN outcome' = Threads /\ DOMAIN seen' = Threads
    BY <1>2, StepMeans DEF Landing
  <2>2. ASSUME NEW t \in Threads, NEW c \in Requests, call'[t] = c, "want" \in DOMAIN c, Quiet(t)'
        PROVE  LandingOf(t, c)'
    <3>1. u = t /\ Quiet(t)
      <4>1. phase'[u] # "start" /\ \A w \in Threads \ {u} : phase'[w] = phase[w]
        BY <1>2, StepMeans DEF FilesInv, CallsTyped
      <4> QED BY <2>2, <4>1 DEF Quiet
    <3>2. call[t] = c
      BY <2>0, <2>2
    <3>3. LandingOf(t, c)
      BY <2>2, <3>1, <3>2 DEF Landing
    <3>4. CASE \E how : Done(t, how) /\ (how = "ok" => phase[t] = "write" /\ plan[t] = << >>)
      BY <2>2, <3>2, <3>3, <3>4, LandingDone
    <3>5. CASE Refuse(t) \/ RejectPatch(t) \/ Look(t)
      <4>1. ~Look(t)
        BY <2>2, <3>2, WantMeans DEF Look
      <4>2. Done(t, "refused") \/ Done(t, "rejected")
        BY <3>5, <4>1 DEF Refuse, RejectPatch
      <4> QED BY <3>4, <4>2
    <3>6. CASE Finish(t)
      BY <3>4, <3>6 DEF Finish
    <3>7. CASE OperationFails(t)
      <4>1. Done(t, "refused") \/ Done(t, "failed")
        BY <3>7 DEF OperationFails
      <4> QED BY <3>4, <4>1
    <3>8. CASE Start(t)
      BY <2>2, <3>2, <3>3, <3>8, LandingStarted
    <3>9. CASE ReadFile(t)
      BY <2>2, <3>2, <3>3, <3>9, LandingRead
    <3>10. CASE ReadHunk(t)
      BY <2>2, <3>2, <3>3, <3>10, LandingHunk
    <3>11. CASE Truncate(t)
      BY <2>2, <3>2, <3>3, <3>11, LandingTruncated
    <3>12. CASE Fill(t)
      BY <2>2, <3>2, <3>3, <3>12, LandingFilled
    <3>13. CASE DeleteOrMove(t)
      BY <2>2, <3>2, <3>3, <3>13, LandingDeleted
    <3> QED BY <1>2, <3>1, <3>5, <3>6, <3>7, <3>8, <3>9, <3>10, <3>11, <3>12, <3>13 DEF FilesStep
  <2> QED BY <2>1, <2>2 DEF Landing
<1> QED BY <1>1, <1>2 DEF FilesNext

\* An edit that succeeds on the text the agent has in mind, while no other call has
\* begun, leaves the text its call says (vfs_edit.go, vfs_insert.go, vfs_replace.go,
\* vfs_patch.go), whatever the directories, rules and patterns are; and a rejected call
\* leaves the files as they were.
THEOREM EditsLandWhereMeant ==
  ASSUME WantsWhatItSays
  PROVE  FilesSpec => []EditsLand
<1>1. FilesInit => FilesInv /\ Landing
  BY FilesStart, LandingStart
<1>2. FilesInv /\ Landing /\ [FilesNext]_fvars => FilesInv' /\ Landing'
  BY FilesStepKeeps, LandingStep
<1>3. FilesInv /\ Landing => EditsInPlace
  BY DEF FilesInv, CallsTyped, Landing, LandingOf, Landed, EditsInPlace, Quiet
<1>4. EditsInPlace /\ RejectedChangesNothing => EditsLand
  BY DEF EditsLand
<1> QED BY <1>1, <1>2, <1>3, <1>4, RejectedIsHarmless, PTL DEF FilesSpec

\* The shadow directory does not take the place of the whole project: its patterns
\* leave the root to the worktree.
RootNotShadowed == \A s \in ShadowChoices : ~Matches(s.patterns, Relative(<< >>))

LEMMA EveryNameMatches ==
  ASSUME NEW q \in Names
  PROVE  MatchGlob([parts |-> <<AnyNames>>, slash |-> FALSE, dir |-> FALSE, negate |-> FALSE], q)
<1> PICK g : g = [parts |-> <<AnyNames>>, slash |-> FALSE, dir |-> FALSE, negate |-> FALSE]
  OBVIOUS
<1> PICK any, parts : any = AnyNames /\ parts = <<any>>
  OBVIOUS
<1>1. g.parts = parts /\ Len(parts) = 1 /\ DOMAIN parts = {1} /\ parts[1] = any
  OBVIOUS
<1>2. any \in ToSet(g.parts)
  BY <1>1 DEF ToSet
<1>3. Len(q) \in Nat
  BY DEF Names
<1> DEFINE cut == [i \in 1 .. 2 |-> IF i = 1 THEN 1 ELSE Len(q) + 1]
<1>4. cut \in [1 .. Len(parts) + 1 -> 1 .. Len(q) + 1] /\ cut[1] = 1 /\ cut[2] = Len(q) + 1
  BY <1>1, <1>3
<1> HIDE DEF cut
<1>5. /\ cut[Len(parts) + 1] = Len(q) + 1
      /\ \A i \in DOMAIN parts :
             IF parts[i] = any THEN cut[i + 1] >= cut[i]
             ELSE cut[i] <= Len(q) /\ cut[i + 1] = cut[i] + 1 /\ q[cut[i]] \in parts[i]
  BY <1>1, <1>3, <1>4
<1>6. MatchParts(parts, q)
  BY <1>4, <1>5 DEF MatchParts
<1> QED BY <1>1, <1>2, <1>6 DEF MatchGlob

\* The two directories look like one to listing, reading and searching, whatever the
\* calls have written, moved or deleted (shadow.go), if the root is not shadowed.
THEOREM TwoDirectoriesAreOne ==
  ASSUME RootNotShadowed
  PROVE  FilesSpec => []OneTree
<1>1. FilesInit => FilesInv /\ shadow \in ShadowChoices
  <2>1. FilesInit => shadow \in ShadowChoices
    BY DEF FilesInit
  <2> QED BY <2>1, FilesStart
<1>2. [FilesNext]_fvars => UNCHANGED shadow
  BY StepMeans DEF FilesNext, fvars, setting
<1>3. FilesInv /\ shadow \in ShadowChoices /\ [FilesNext]_fvars => FilesInv' /\ (shadow \in ShadowChoices)'
  BY <1>2, FilesStepKeeps
<1>4. ASSUME FilesInv, shadow \in ShadowChoices PROVE OneTree
  <2> DEFINE rel(q) == [root |-> "rel", names |-> q]
             top == rel(<< >>)
             every == [parts |-> <<AnyNames>>, slash |-> FALSE, dir |-> FALSE, negate |-> FALSE]
             all == ListFiles(top, TRUE)
             readable == {q \in all : MayRead(rel(q)) /\ TRUE \in Access(rel(q), "read")}
  <2>1. ~Shadowed(top) /\ Place(top) = "base"
    BY <1>4 DEF RootNotShadowed, Shadowed, Place
  <2>2. \A q : Place(rel(q)) = IF Shadowed(rel(q)) THEN "shadow" ELSE "base"
    BY DEF Place
  <2>3. ~shadow.on => \A q : ~Shadowed(rel(q))
    BY DEF Shadowed
  <2>4. all = IF ~shadow.on THEN Listed(tree["base"], << >>, TRUE)
              ELSE {q \in Listed(tree["base"], << >>, TRUE) : ~Shadowed(rel(q))}
                   \union {q \in Listed(tree["shadow"], << >>, TRUE) : Shadowed(rel(q))}
    BY <2>1 DEF ListFiles
  <2>5. \A d \in Dirs : \A q \in DOMAIN tree[d] : q \in Names
    BY <1>4 DEF FilesInv, TreeTyped, IsDirectory, Names
  <2>6. \A d \in {"base", "shadow"} : Found(tree[d], every, TRUE) = Listed(tree[d], << >>, TRUE)
    <3>1. \A d \in {"base", "shadow"} : \A q \in Listed(tree[d], << >>, TRUE) : q \in Names
      BY <2>5 DEF Listed, Dirs
    <3>2. \A d \in {"base", "shadow"} : \A q \in Listed(tree[d], << >>, TRUE) : MatchGlob(every, q)
      BY <3>1, EveryNameMatches
    <3> HIDE DEF every
    <3> QED BY <3>2 DEF Found
  <2>7. all = FindFiles(every, TRUE)
    <3> HIDE DEF every, all
    <3> QED BY <2>4, <2>6 DEF FindFiles
  <2>8. \A d : \A q : q \in Listed(tree[d], << >>, TRUE) => q \in DOMAIN tree[d]
    BY DEF Listed
  <2>9. \A q \in all : q \in DOMAIN tree[Place(rel(q))]
    <3> HIDE DEF all, rel
    <3> QED BY <2>2, <2>3, <2>4, <2>8
  <2>10. ASSUME NEW q \in Names, MayRead(rel(q)), ~Hidden(q), q # << >> PROVE q \in all
    <3>1. q \in DOMAIN tree[Place(rel(q))]
      BY <2>10 DEF MayRead, IsFile
    <3>2. Under(q, << >>)
      BY <2>10 DEF Under, Names, IsPrefix
    <3>3. q \in Listed(tree[Place(rel(q))], << >>, TRUE)
      BY <2>10, <3>1, <3>2 DEF Listed, Hidden
    <3> HIDE DEF all, rel
    <3> QED BY <2>2, <2>3, <2>4, <3>3
  <2>11. \A line : Search(top, line) = {q \in readable : line \in ToSet(Text(rel(q)))}
    BY DEF Search
  <2> HIDE DEF rel, top, every, all, readable
  <2>12. \A d \in {"base", "shadow"} : \A q \in DOMAIN tree[d] :
              MayRead(rel(q)) /\ ~Hidden(q) /\ q # << >> => q \in all
    BY <2>5, <2>10 DEF Dirs
  <2> QED BY <2>7, <2>9, <2>11, <2>12 DEF OneTree, rel, top, every, all, readable
<1> QED BY <1>1, <1>3, <1>4, PTL DEF FilesSpec

-----------------------------------------------------------------------------
(***************************************************************************)
(* The loggers, for every set of sessions and of callers.                  *)
(***************************************************************************)

(* Loggers.  What keeps a writer from leaking is that a logger is made     *)
(* under the lock it is registered under, and that no writer is given to   *)
(* two of them.                                                            *)

AllKeys == Keys \cup {Global}
LoggerCalls == {"none", "SetLogsDirectory", "GetGlobalLogger", "GetSessionLogger", "FlushLogs"}
LoggerSteps == {"idle", "begin", "global", "sessions", "create", "directory"}

LoggingTyped ==
    /\ doing \in [Callers -> [call : LoggerCalls, key : AllKeys, step : LoggerSteps]]
    /\ lockedBy \in [Locks -> SUBSET Callers]
    /\ registered \in [AllKeys -> Nat]
    /\ open \subseteq Nat
    /\ opened \in Nat
    /\ configured \in BOOLEAN /\ migrationFailed \in BOOLEAN

\* Writers are numbered as they are opened, and each belongs to one logger.
OneLoggerEach ==
    /\ \A k \in AllKeys : registered[k] <= opened
    /\ \A w \in open : w # None
    /\ \A j, k \in AllKeys : registered[j] = registered[k] /\ registered[j] # None => j = k

\* Who makes a logger holds the lock the loggers of its kind are kept under, and
\* none was registered since that was looked up.
MakersHoldTheLock ==
    \A c \in Callers : doing[c].step = "directory" =>
        /\ LockOf(doing[c].call) \in Locks
        /\ lockedBy[LockOf(doing[c].call)] = {c}
        /\ registered[doing[c].key] = None

\* Each kind of logger is asked for by a asks of its own.
CallsFitKeys ==
    \A c \in Callers :
        /\ doing[c].call = "GetGlobalLogger" => doing[c].key = Global
        /\ doing[c].call = "GetSessionLogger" => doing[c].key \in Keys
        /\ doing[c].step = "directory" => doing[c].call \in {"GetGlobalLogger", "GetSessionLogger"}

LoggingInv ==
    LoggingTyped /\ OneLoggerEach /\ CallsFitKeys /\ MakersHoldTheLock /\ LoggersHaveWriters

-----------------------------------------------------------------------------
(* Moving writers.                                                         *)

LEMMA KeysFinite == IsFiniteSet(AllKeys)
  BY LoggingAssumption, FS_AddElement DEF AllKeys

\* The number of a shifted writer: its place among the shifted ones.
NewPlace(shifted, k) == Cardinality({j \in shifted : registered[j] <= registered[k]})

\* Moved writers keep their order, so no number is given out twice.
LEMMA PlacesDiffer ==
  ASSUME LoggingTyped, OneLoggerEach,
         NEW shifted \in SUBSET AllKeys, \A k \in shifted : registered[k] # None
  PROVE  /\ IsFiniteSet(shifted) /\ Cardinality(shifted) \in Nat
         /\ \A k \in shifted : NewPlace(shifted, k) \in 1..Cardinality(shifted)
         /\ \A j, k \in shifted : NewPlace(shifted, j) = NewPlace(shifted, k) => j = k
<1> DEFINE upTo(k) == {j \in shifted : registered[j] <= registered[k]}
<1>1. IsFiniteSet(shifted)
  BY KeysFinite, FS_Subset
<1>2. Cardinality(shifted) \in Nat
  BY <1>1, FS_CardinalityType
<1>3. \A k \in shifted : registered[k] \in Nat
  BY DEF LoggingTyped
<1>4. ASSUME NEW k \in shifted
      PROVE  /\ IsFiniteSet(upTo(k)) /\ k \in upTo(k)
             /\ Cardinality(upTo(k)) \in 1..Cardinality(shifted)
  <2>1. upTo(k) \subseteq shifted
    OBVIOUS
  <2>2. IsFiniteSet(upTo(k)) /\ Cardinality(upTo(k)) <= Cardinality(shifted)
    BY <1>1, <2>1, FS_Subset
  <2>3. k \in upTo(k)
    BY <1>3
  <2>4. Cardinality(upTo(k)) \in Nat /\ Cardinality(upTo(k)) # 0
    BY <2>2, <2>3, FS_CardinalityType, FS_EmptySet
  <2> QED BY <1>2, <2>2, <2>3, <2>4
<1>5. ASSUME NEW j \in shifted, NEW k \in shifted, registered[j] < registered[k]
      PROVE  Cardinality(upTo(j)) < Cardinality(upTo(k))
  <2>1. upTo(j) \subseteq upTo(k)
    BY <1>3, <1>5
  <2>2. k \notin upTo(j)
    BY <1>3, <1>5
  <2>3. upTo(j) # upTo(k)
    BY <1>4, <2>2
  <2>4. /\ Cardinality(upTo(j)) <= Cardinality(upTo(k))
        /\ Cardinality(upTo(j)) # Cardinality(upTo(k))
    <3>1. IsFiniteSet(upTo(k)) /\ upTo(j) \in SUBSET upTo(k)
      BY <1>4, <2>1
    <3> QED BY Zenon, <2>3, <3>1, FS_Subset
  <2>5. Cardinality(upTo(j)) \in Int /\ Cardinality(upTo(k)) \in Int
    <3>1. j \in shifted /\ k \in shifted
      BY <1>5
    <3> HIDE DEF upTo
    <3> QED BY <1>2, <1>4, <3>1
  <2> HIDE DEF upTo
  <2> QED BY <2>4, <2>5
<1>6. ASSUME NEW j \in shifted, NEW k \in shifted, Cardinality(upTo(j)) = Cardinality(upTo(k))
      PROVE  j = k
  <2>1. ~(registered[j] < registered[k]) /\ ~(registered[k] < registered[j])
    <3>1. Cardinality(upTo(j)) \in Int
      BY <1>2, <1>4, <1>6
    <3> HIDE DEF upTo
    <3> QED BY <1>5, <1>6, <3>1
  <2>2. registered[j] = registered[k]
    BY <1>3, <2>1
  <2> QED BY <2>2 DEF OneLoggerEach
<1> QED BY <1>1, <1>2, <1>4, <1>6 DEF NewPlace

\* A migration leaves every writer with one logger, and every logger with its
\* writer unless it fails; it makes no logger.
LEMMA MigrationSafe ==
  ASSUME LoggingTyped, OneLoggerEach, LoggersHaveWriters,
         NEW ks \in SUBSET AllKeys, Migrate(ks)
  PROVE  /\ registered' \in [AllKeys -> Nat] /\ open' \subseteq Nat /\ opened' \in Nat
         /\ migrationFailed' \in BOOLEAN
         /\ OneLoggerEach' /\ LoggersHaveWriters'
         /\ \A k \in AllKeys : registered[k] = None => registered'[k] = None
<1> DEFINE made == {k \in ks : registered[k] # None}
           number(m, k) == opened + NewPlace(m, k)
<1>1. PICK shifted \in SUBSET made :
        /\ opened' = opened + Cardinality(shifted)
        /\ registered' = [k \in DOMAIN registered |->
                             IF k \in shifted THEN number(shifted, k) ELSE registered[k]]
        /\ \E failed \in SUBSET (made \ shifted) :
              /\ Cardinality(failed) = (IF shifted = made THEN 0 ELSE 1)
              /\ open' = (open \ {registered[k] : k \in shifted \cup failed})
                            \cup {number(shifted, k) : k \in shifted}
              /\ migrationFailed' = (migrationFailed \/ failed # {})
  BY DEF Migrate, NewPlace
<1>2. PICK failed \in SUBSET (made \ shifted) :
              /\ Cardinality(failed) = (IF shifted = made THEN 0 ELSE 1)
              /\ open' = (open \ {registered[k] : k \in shifted \cup failed})
                            \cup {number(shifted, k) : k \in shifted}
              /\ migrationFailed' = (migrationFailed \/ failed # {})
  BY <1>1
<1> DEFINE old == {registered[k] : k \in shifted \cup failed}
           new == {number(shifted, k) : k \in shifted}
<1>3. /\ shifted \in SUBSET AllKeys /\ failed \in SUBSET AllKeys
      /\ \A k \in shifted \cup failed : registered[k] # None
  OBVIOUS
<1>4. /\ Cardinality(shifted) \in Nat
      /\ \A k \in shifted : NewPlace(shifted, k) \in 1..Cardinality(shifted)
      /\ \A j, k \in shifted : NewPlace(shifted, j) = NewPlace(shifted, k) => j = k
  BY <1>3, PlacesDiffer
<1>5. DOMAIN registered = AllKeys /\ registered \in [AllKeys -> Nat] /\ opened \in Nat
  BY DEF LoggingTyped
<1>6. \A k \in shifted : number(shifted, k) \in Nat /\ number(shifted, k) > opened /\ number(shifted, k) <= opened'
  BY <1>1, <1>4, <1>5
<1>7. \A k \in AllKeys : registered'[k] = IF k \in shifted THEN number(shifted, k) ELSE registered[k]
  BY <1>1, <1>5
<1>8. opened' \in Nat /\ opened' >= opened
  BY <1>1, <1>4, <1>5
<1>9. registered' \in [AllKeys -> Nat]
  <2>1. \A k \in AllKeys : registered'[k] \in Nat
    BY <1>5, <1>6, <1>7
  <2> QED BY <1>1, <1>5, <2>1
<1>10. migrationFailed' \in BOOLEAN
  BY Zenon, <1>2
<1>11. \A w \in open' : (w \in open /\ w \notin old) \/ \E k \in shifted : w = number(shifted, k)
  BY <1>2
<1>12. \A k \in shifted : number(shifted, k) \in open'
  BY <1>2
<1>13. \A w \in open : w \notin old => w \in open'
  BY <1>2
<1> HIDE DEF number
<1>14. open' \subseteq Nat
  BY <1>6, <1>11 DEF LoggingTyped
<1>15. OneLoggerEach'
  <2>1. \A k \in AllKeys : registered'[k] <= opened'
    BY <1>5, <1>6, <1>7, <1>8 DEF OneLoggerEach
  <2>2. \A w \in open' : w # None
    BY <1>5, <1>6, <1>11 DEF OneLoggerEach, None
  <2>3. ASSUME NEW j \in AllKeys, NEW k \in AllKeys, registered'[j] = registered'[k], registered'[j] # None
        PROVE  j = k
    <3>1. CASE j \in shifted /\ k \in shifted
      <4>1. NewPlace(shifted, j) = NewPlace(shifted, k)
        BY <1>4, <1>5, <1>7, <2>3, <3>1 DEF number
      <4> QED BY <1>4, <3>1, <4>1
    <3>2. CASE j \in shifted /\ k \notin shifted
      BY <1>5, <1>6, <1>7, <2>3, <3>2 DEF OneLoggerEach
    <3>3. CASE j \notin shifted /\ k \in shifted
      BY <1>5, <1>6, <1>7, <2>3, <3>3 DEF OneLoggerEach
    <3>4. CASE j \notin shifted /\ k \notin shifted
      BY <1>7, <2>3, <3>4 DEF OneLoggerEach
    <3> QED BY <3>1, <3>2, <3>3, <3>4
  <2> QED BY <2>1, <2>2, <2>3 DEF OneLoggerEach, None
<1>16. LoggersHaveWriters'
  <2>1. DOMAIN registered' = AllKeys
    BY <1>9
  <2>2. ASSUME NEW w \in open'
        PROVE  \E k \in AllKeys : registered'[k] = w
    <3>1. CASE \E k \in shifted : w = number(shifted, k)
      BY <1>3, <1>7, <3>1
    <3>2. CASE w \in open /\ w \notin old
      <4>1. PICK k \in AllKeys : registered[k] = w
        BY <1>5, <3>2 DEF LoggersHaveWriters
      <4>2. k \notin shifted
        BY <3>2, <4>1
      <4> QED BY <1>7, <4>1, <4>2
    <3> QED BY <1>11, <3>1, <3>2
  <2>3. ASSUME NEW k \in AllKeys, registered'[k] # None, ~migrationFailed'
        PROVE  registered'[k] \in open'
    <3>1. failed = {} /\ ~migrationFailed
      BY Zenon, <1>2, <2>3
    <3>2. shifted = made
      BY <1>2, <3>1, FS_EmptySet
    <3>3. CASE k \in shifted
      BY <1>7, <1>12, <3>3
    <3>4. CASE k \notin shifted
      <4>1. registered'[k] = registered[k] /\ registered[k] \in open
        BY <1>5, <1>7, <2>3, <3>1, <3>4 DEF LoggersHaveWriters
      <4>2. registered[k] \notin old
        BY <1>3, <2>3, <3>1, <3>4, <4>1 DEF OneLoggerEach
      <4> QED BY <1>13, <4>1, <4>2
    <3> QED BY <3>3, <3>4
  <2> QED BY <2>1, <2>2, <2>3 DEF LoggersHaveWriters, None
<1>17. \A k \in AllKeys : registered[k] = None => registered'[k] = None
  BY <1>3, <1>7
<1> QED BY <1>8, <1>9, <1>10, <1>14, <1>15, <1>16, <1>17

-----------------------------------------------------------------------------
(* The steps.                                                              *)

LEMMA LoggingStart == LoggingInit => LoggingInv
<1> SUFFICES ASSUME LoggingInit PROVE LoggingInv
  OBVIOUS
<1>1. LoggingTyped
  <2>1. Idle \in [call : LoggerCalls, key : AllKeys, step : LoggerSteps]
    BY DEF Idle, AllKeys, LoggerCalls, LoggerSteps
  <2> QED BY <2>1 DEF LoggingInit, LoggingTyped, AllKeys, None
<1>2. OneLoggerEach
  BY DEF LoggingInit, OneLoggerEach, AllKeys, None
<1>3. CallsFitKeys /\ MakersHoldTheLock
  BY DEF LoggingInit, CallsFitKeys, MakersHoldTheLock, Idle
<1>4. LoggersHaveWriters
  BY DEF LoggingInit, LoggersHaveWriters, None
<1> QED BY <1>1, <1>2, <1>3, <1>4 DEF LoggingInv

\* A step that changes no logger and gives no lock away keeps the writers.
LEMMA WritersUntouched ==
  ASSUME OneLoggerEach, LoggersHaveWriters, UNCHANGED <<loggers, migrationFailed>>
  PROVE  OneLoggerEach' /\ LoggersHaveWriters'
  BY DEF OneLoggerEach, LoggersHaveWriters, loggers, None

\* A caller goes on or returns: what it does next is a asks of its own kind.
LEMMA CallsStayTyped ==
  ASSUME LoggingTyped, CallsFitKeys, NEW c \in Callers,
         \/ Return(c)
         \/ /\ UNCHANGED lockedBy
            /\ \E s \in LoggerSteps \ {"directory"} : GoTo(c, s)
         \/ /\ UNCHANGED lockedBy
            /\ \/ \E asks \in {"SetLogsDirectory", "FlushLogs"} : Call(c, asks, Global)
               \/ \E k \in AllKeys :
                     Call(c, IF k = Global THEN "GetGlobalLogger" ELSE "GetSessionLogger", k)
  PROVE  /\ doing' \in [Callers -> [call : LoggerCalls, key : AllKeys, step : LoggerSteps]]
         /\ lockedBy' \in [Locks -> SUBSET Callers]
         /\ CallsFitKeys'
         /\ doing'[c].step # "directory"
         /\ \A d \in Callers \ {c} : doing'[d] = doing[d]
         /\ \A l \in Locks : lockedBy'[l] = lockedBy[l] \/ lockedBy'[l] = lockedBy[l] \ {c}
<1>1. CASE Return(c)
  <2>1. Idle \in [call : LoggerCalls, key : AllKeys, step : LoggerSteps]
    BY DEF Idle, AllKeys, LoggerCalls, LoggerSteps
  <2>2. /\ doing' = [doing EXCEPT ![c] = Idle]
        /\ lockedBy' = [l \in Locks |-> lockedBy[l] \ {c}]
    BY <1>1 DEF Return, Release
  <2> QED BY <2>1, <2>2 DEF LoggingTyped, CallsFitKeys, Idle
<1>2. ASSUME UNCHANGED lockedBy, NEW s \in LoggerSteps \ {"directory"}, GoTo(c, s)
      PROVE  /\ doing' \in [Callers -> [call : LoggerCalls, key : AllKeys, step : LoggerSteps]]
             /\ CallsFitKeys'
             /\ doing'[c].step # "directory"
             /\ \A d \in Callers \ {c} : doing'[d] = doing[d]
  BY <1>2 DEF GoTo, LoggingTyped, CallsFitKeys
<1>3. ASSUME NEW asks \in LoggerCalls \ {"none"}, NEW k \in AllKeys, Call(c, asks, k),
             asks = "GetGlobalLogger" => k = Global, asks = "GetSessionLogger" => k \in Keys
      PROVE  /\ doing' \in [Callers -> [call : LoggerCalls, key : AllKeys, step : LoggerSteps]]
             /\ CallsFitKeys'
             /\ doing'[c].step # "directory"
             /\ \A d \in Callers \ {c} : doing'[d] = doing[d]
  <2> DEFINE r == [call |-> asks, key |-> k, step |-> "begin"]
  <2>1. /\ doing' = [doing EXCEPT ![c] = r]
        /\ r \in [call : LoggerCalls, key : AllKeys, step : LoggerSteps]
        /\ r.call = asks /\ r.key = k /\ r.step = "begin"
    BY <1>3 DEF Call, LoggerSteps
  <2> HIDE DEF r
  <2> QED BY <1>3, <2>1 DEF LoggingTyped, CallsFitKeys
<1>4. CASE UNCHANGED lockedBy /\ \E s \in LoggerSteps \ {"directory"} : GoTo(c, s)
  BY <1>2, <1>4 DEF LoggingTyped
<1>5. CASE UNCHANGED lockedBy /\ \E asks \in {"SetLogsDirectory", "FlushLogs"} : Call(c, asks, Global)
  <2>1. PICK asks \in {"SetLogsDirectory", "FlushLogs"} : Call(c, asks, Global)
    BY <1>5
  <2>2. asks \in LoggerCalls \ {"none"} /\ Global \in AllKeys
    BY DEF LoggerCalls, AllKeys
  <2> QED BY <1>3, <1>5, <2>1, <2>2 DEF LoggingTyped
<1>6. CASE UNCHANGED lockedBy /\ \E k \in AllKeys :
               Call(c, IF k = Global THEN "GetGlobalLogger" ELSE "GetSessionLogger", k)
  <2>1. PICK k \in AllKeys : Call(c, IF k = Global THEN "GetGlobalLogger" ELSE "GetSessionLogger", k)
    BY <1>6
  <2>2. CASE k = Global
    <3>1. Call(c, "GetGlobalLogger", k) /\ "GetGlobalLogger" \in LoggerCalls \ {"none"}
      BY <2>1, <2>2 DEF LoggerCalls
    <3> QED BY <1>3, <1>6, <2>2, <3>1 DEF LoggingTyped
  <2>3. CASE k # Global
    <3>1. Call(c, "GetSessionLogger", k) /\ "GetSessionLogger" \in LoggerCalls \ {"none"} /\ k \in Keys
      BY <2>1, <2>3 DEF LoggerCalls, AllKeys
    <3> QED BY <1>3, <1>6, <3>1 DEF LoggingTyped
  <2> QED BY <2>2, <2>3
<1> QED BY <1>1, <1>4, <1>5, <1>6

\* As long as no logger is made and nobody else's lock is taken, those who make
\* one keep their locks.
LEMMA MakersUndisturbed ==
  ASSUME LoggingTyped, CallsFitKeys, MakersHoldTheLock, NEW c \in Callers,
         doing'[c].step # "directory",
         \A d \in Callers \ {c} : doing'[d] = doing[d],
         \A l \in Locks : lockedBy[l] # {} =>
             lockedBy'[l] = lockedBy[l] \/ lockedBy'[l] = lockedBy[l] \ {c},
         \A k \in AllKeys : registered[k] = None => registered'[k] = None
  PROVE  MakersHoldTheLock'
<1>1. ASSUME NEW d \in Callers, doing'[d].step = "directory"
      PROVE  /\ LockOf(doing'[d].call) \in Locks
             /\ lockedBy'[LockOf(doing'[d].call)] = {d}
             /\ registered'[doing'[d].key] = None
  <2>1. d # c /\ doing'[d] = doing[d]
    BY <1>1
  <2>2. /\ LockOf(doing[d].call) \in Locks
        /\ lockedBy[LockOf(doing[d].call)] = {d}
        /\ registered[doing[d].key] = None
    BY <1>1, <2>1 DEF MakersHoldTheLock
  <2>3. doing[d].key \in AllKeys
    BY DEF LoggingTyped
  <2> QED BY <2>1, <2>2, <2>3
<1> QED BY <1>1 DEF MakersHoldTheLock, None, LockOf

\* The three lemmas together: a step that goes on or returns keeps the invariant
\* as soon as its effect on the loggers keeps the writers.
LEMMA QuietStep ==
  ASSUME LoggingInv, NEW c \in Callers,
         \/ Return(c)
         \/ /\ UNCHANGED lockedBy
            /\ \E s \in LoggerSteps \ {"directory"} : GoTo(c, s)
         \/ /\ UNCHANGED lockedBy
            /\ \/ \E asks \in {"SetLogsDirectory", "FlushLogs"} : Call(c, asks, Global)
               \/ \E k \in AllKeys :
                     Call(c, IF k = Global THEN "GetGlobalLogger" ELSE "GetSessionLogger", k),
         registered' \in [AllKeys -> Nat], open' \subseteq Nat, opened' \in Nat,
         configured' \in BOOLEAN, migrationFailed' \in BOOLEAN,
         OneLoggerEach', LoggersHaveWriters',
         \A k \in AllKeys : registered[k] = None => registered'[k] = None
  PROVE  LoggingInv'
<1>1. /\ LoggingTyped /\ CallsFitKeys /\ MakersHoldTheLock
  BY DEF LoggingInv
<1>2. /\ doing' \in [Callers -> [call : LoggerCalls, key : AllKeys, step : LoggerSteps]]
      /\ lockedBy' \in [Locks -> SUBSET Callers]
      /\ CallsFitKeys'
      /\ doing'[c].step # "directory"
      /\ \A d \in Callers \ {c} : doing'[d] = doing[d]
      /\ \A l \in Locks : lockedBy'[l] = lockedBy[l] \/ lockedBy'[l] = lockedBy[l] \ {c}
  BY <1>1, CallsStayTyped
<1>3. MakersHoldTheLock'
  BY <1>1, <1>2, MakersUndisturbed
<1>4. LoggingTyped'
  BY <1>2 DEF LoggingTyped, AllKeys, LoggerCalls, LoggerSteps, Locks, Global
<1> QED BY <1>2, <1>3, <1>4 DEF LoggingInv

LEMMA LoggingStep == LoggingInv /\ [LoggingNext]_loggingVars => LoggingInv'
<1> SUFFICES ASSUME LoggingInv, [LoggingNext]_loggingVars PROVE LoggingInv'
  OBVIOUS
<1>t. LoggingTyped /\ OneLoggerEach /\ CallsFitKeys /\ MakersHoldTheLock /\ LoggersHaveWriters
  BY DEF LoggingInv
<1>u. ASSUME UNCHANGED <<loggers, configured, migrationFailed>>
      PROVE  /\ registered' \in [AllKeys -> Nat] /\ open' \subseteq Nat /\ opened' \in Nat
             /\ configured' \in BOOLEAN /\ migrationFailed' \in BOOLEAN
             /\ OneLoggerEach' /\ LoggersHaveWriters'
             /\ \A k \in AllKeys : registered[k] = None => registered'[k] = None
  BY <1>t, <1>u, WritersUntouched DEF LoggingTyped, loggers
<1>s. {"global", "sessions", "create"} \subseteq LoggerSteps \ {"directory"} /\ Global \in AllKeys
  BY DEF LoggerSteps, AllKeys
<1>1. ASSUME NEW c \in Callers, SetLogsDirectoryCalled(c) PROVE LoggingInv'
  <2>1. /\ UNCHANGED lockedBy /\ \E asks \in {"SetLogsDirectory", "FlushLogs"} : Call(c, asks, Global)
        /\ configured' \in BOOLEAN
    BY <1>1 DEF SetLogsDirectoryCalled
  <2>2. /\ registered' \in [AllKeys -> Nat] /\ open' \subseteq Nat /\ opened' \in Nat
        /\ migrationFailed' \in BOOLEAN
        /\ OneLoggerEach' /\ LoggersHaveWriters'
        /\ \A k \in AllKeys : registered[k] = None => registered'[k] = None
    BY <1>1, <1>t, WritersUntouched DEF SetLogsDirectoryCalled, LoggingTyped, loggers
  <2> QED BY <2>1, <2>2, QuietStep
<1>2. ASSUME NEW c \in Callers, SetLogsDirectory(c) PROVE LoggingInv'
  <2>u. UNCHANGED <<loggers, configured, migrationFailed>>
    BY <1>2 DEF SetLogsDirectory
  <2>1. CASE Return(c)
    BY <1>u, <2>u, <2>1, QuietStep
  <2>2. CASE Hold(c, "config") /\ GoTo(c, "global")
    <3>1. /\ doing' = [doing EXCEPT ![c].step = "global"]
          /\ lockedBy' = [lockedBy EXCEPT !["config"] = {c}]
          /\ lockedBy["config"] = {}
      BY <1>2, <2>2 DEF SetLogsDirectory, Hold, GoTo, IsFree
    <3>2. /\ doing' \in [Callers -> [call : LoggerCalls, key : AllKeys, step : LoggerSteps]]
          /\ CallsFitKeys'
          /\ doing'[c].step # "directory"
          /\ \A d \in Callers \ {c} : doing'[d] = doing[d]
      BY <1>t, <1>s, <3>1 DEF LoggingTyped, CallsFitKeys
    <3>3. /\ lockedBy' \in [Locks -> SUBSET Callers]
          /\ \A l \in Locks : lockedBy[l] # {} => lockedBy'[l] = lockedBy[l]
      BY <1>t, <3>1 DEF LoggingTyped
    <3>4. MakersHoldTheLock'
      BY <1>t, <1>u, <2>u, <3>2, <3>3, MakersUndisturbed
    <3> QED BY <1>u, <2>u, <3>2, <3>3, <3>4
            DEF LoggingInv, LoggingTyped, AllKeys, LoggerCalls, LoggerSteps, Locks, Global
  <2> QED BY <1>2, <2>1, <2>2 DEF SetLogsDirectory
<1>3. ASSUME NEW c \in Callers, MigrateGlobalLogger(c) PROVE LoggingInv'
  <2>1. {Global} \in SUBSET AllKeys
    BY <1>s
  <2>2. /\ registered' \in [AllKeys -> Nat] /\ open' \subseteq Nat /\ opened' \in Nat
        /\ migrationFailed' \in BOOLEAN
        /\ OneLoggerEach' /\ LoggersHaveWriters'
        /\ \A k \in AllKeys : registered[k] = None => registered'[k] = None
    BY <1>3, <1>t, <2>1, MigrationSafe DEF MigrateGlobalLogger
  <2>3. configured' \in BOOLEAN
    BY <1>3, <1>t DEF MigrateGlobalLogger, LoggingTyped
  <2>4. Return(c) \/ (UNCHANGED lockedBy /\ \E s \in LoggerSteps \ {"directory"} : GoTo(c, s))
    BY <1>3, <1>s DEF MigrateGlobalLogger
  <2> QED BY <2>2, <2>3, <2>4, QuietStep
<1>4. ASSUME NEW c \in Callers, MigrateSessionLoggers(c) PROVE LoggingInv'
  <2>1. Keys \in SUBSET AllKeys
    BY DEF AllKeys
  <2>2. /\ registered' \in [AllKeys -> Nat] /\ open' \subseteq Nat /\ opened' \in Nat
        /\ migrationFailed' \in BOOLEAN
        /\ OneLoggerEach' /\ LoggersHaveWriters'
        /\ \A k \in AllKeys : registered[k] = None => registered'[k] = None
    BY <1>4, <1>t, <2>1, MigrationSafe DEF MigrateSessionLoggers
  <2>3. configured' \in BOOLEAN
    BY <1>4, <1>t DEF MigrateSessionLoggers, LoggingTyped
  <2>4. Return(c)
    BY <1>4 DEF MigrateSessionLoggers
  <2> QED BY <2>2, <2>3, <2>4, QuietStep
<1>5. ASSUME NEW c \in Callers, NEW k \in AllKeys, UseLogger(c, k) PROVE LoggingInv'
  <2>u. UNCHANGED <<loggers, configured, migrationFailed>>
    BY <1>5 DEF UseLogger
  <2>1. /\ UNCHANGED lockedBy
        /\ \E j \in AllKeys : Call(c, IF j = Global THEN "GetGlobalLogger" ELSE "GetSessionLogger", j)
    BY <1>5 DEF UseLogger
  <2> QED BY <1>u, <2>u, <2>1, QuietStep
<1>6. ASSUME NEW c \in Callers, FindSessionLogger(c) PROVE LoggingInv'
  <2>u. UNCHANGED <<loggers, configured, migrationFailed>>
    BY <1>6 DEF FindSessionLogger
  <2>1. Return(c) \/ (UNCHANGED lockedBy /\ \E s \in LoggerSteps \ {"directory"} : GoTo(c, s))
    BY <1>6, <1>s DEF FindSessionLogger
  <2> QED BY <1>u, <2>u, <2>1, QuietStep
<1>7. ASSUME NEW c \in Callers, CreateLogger(c) PROVE LoggingInv'
  <2>u. UNCHANGED <<loggers, configured, migrationFailed>>
    BY <1>7 DEF CreateLogger
  <2>1. CASE Return(c)
    BY <1>u, <2>u, <2>1, QuietStep
  <2>2. CASE ~MadeMeanwhile(c) /\ Hold(c, LockOf(doing[c].call)) /\ GoTo(c, "directory")
    <3> DEFINE mine == LockOf(doing[c].call)
    <3>1. /\ doing' = [doing EXCEPT ![c].step = "directory"]
          /\ mine \in Locks /\ lockedBy[mine] = {}
          /\ lockedBy' = [lockedBy EXCEPT ![mine] = {c}]
          /\ registered[doing[c].key] = None
          /\ doing[c].call \in {"GetGlobalLogger", "GetSessionLogger"}
      BY <1>7, <2>2 DEF CreateLogger, Creating, At, MadeMeanwhile, Hold, GoTo, IsFree, LockOf, Locks
    <3>2. /\ doing' \in [Callers -> [call : LoggerCalls, key : AllKeys, step : LoggerSteps]]
          /\ CallsFitKeys'
          /\ doing'[c].call = doing[c].call /\ doing'[c].key = doing[c].key
          /\ \A d \in Callers \ {c} : doing'[d] = doing[d]
      BY <1>t, <3>1 DEF LoggingTyped, CallsFitKeys, LoggerSteps
    <3> HIDE DEF mine
    <3>3. /\ lockedBy' \in [Locks -> SUBSET Callers]
          /\ lockedBy'[mine] = {c}
          /\ \A l \in Locks : lockedBy[l] # {} => lockedBy'[l] = lockedBy[l]
      BY <1>t, <3>1 DEF LoggingTyped
    <3>4. ASSUME NEW d \in Callers, doing'[d].step = "directory"
          PROVE  /\ LockOf(doing'[d].call) \in Locks
                 /\ lockedBy'[LockOf(doing'[d].call)] = {d}
                 /\ registered'[doing'[d].key] = None
      <4>1. CASE d = c
        <5>1. LockOf(doing'[d].call) = mine
          BY <3>2, <4>1 DEF mine
        <5>2. registered'[doing'[d].key] = None
          BY <2>u, <3>1, <3>2, <4>1 DEF loggers
        <5> QED BY <3>1, <3>3, <4>1, <5>1, <5>2
      <4>2. CASE d # c
        <5>1. doing'[d] = doing[d]
          BY <3>2, <4>2
        <5>2. /\ LockOf(doing[d].call) \in Locks
              /\ lockedBy[LockOf(doing[d].call)] = {d}
              /\ registered[doing[d].key] = None
          BY <1>t, <3>4, <5>1 DEF MakersHoldTheLock
        <5>3. registered' = registered
          BY <2>u DEF loggers
        <5> QED BY <3>3, <5>1, <5>2, <5>3
      <4> QED BY <4>1, <4>2
    <3>5. MakersHoldTheLock'
      BY <3>4 DEF MakersHoldTheLock, LockOf, Locks, None
    <3> QED BY <1>u, <2>u, <3>2, <3>3, <3>5
            DEF LoggingInv, LoggingTyped, AllKeys, LoggerCalls, LoggerSteps, Locks, Global
  <2> QED BY <1>7, <2>1, <2>2 DEF CreateLogger
<1>8. ASSUME NEW c \in Callers, OpenLogger(c) PROVE LoggingInv'
  <2> DEFINE key == doing[c].key
  <2>1. /\ Return(c) /\ UNCHANGED <<configured, migrationFailed>>
        /\ opened' = opened + 1 /\ open' = open \cup {opened + 1}
        /\ registered' = [registered EXCEPT ![key] = opened + 1]
        /\ doing[c].step = "directory"
    BY <1>8 DEF OpenLogger, OpenWriter
  <2>2. key \in AllKeys /\ registered[key] = None
    BY <1>t, <2>1 DEF MakersHoldTheLock, LoggingTyped
  <2>3. ASSUME NEW d \in Callers, d # c, doing[d].step = "directory"
        PROVE  doing[d].key # key
    <3>1. doing[c].key = doing[d].key => LockOf(doing[c].call) = LockOf(doing[d].call)
      BY <1>t, <2>1, <2>3, LoggingAssumption DEF CallsFitKeys, LockOf, Global
    <3>2. lockedBy[LockOf(doing[c].call)] = {c} /\ lockedBy[LockOf(doing[d].call)] = {d}
      BY <1>t, <2>1, <2>3 DEF MakersHoldTheLock
    <3> QED BY <2>3, <3>1, <3>2
  <2> HIDE DEF key
  <2>4. /\ registered' \in [AllKeys -> Nat] /\ open' \subseteq Nat /\ opened' \in Nat
        /\ registered'[key] = opened + 1
        /\ \A k \in AllKeys \ {key} : registered'[k] = registered[k]
    BY <1>t, <2>1, <2>2 DEF LoggingTyped
  <2>5. OneLoggerEach'
    <3>1. \A k \in AllKeys : registered'[k] <= opened'
      BY <1>t, <2>1, <2>4 DEF OneLoggerEach, LoggingTyped
    <3>2. \A w \in open' : w # None
      BY <1>t, <2>1 DEF OneLoggerEach, LoggingTyped, None
    <3>3. \A j, k \in AllKeys : registered'[j] = registered'[k] /\ registered'[j] # None => j = k
      BY <1>t, <2>2, <2>4 DEF OneLoggerEach, LoggingTyped
    <3> QED BY <3>1, <3>2, <3>3 DEF OneLoggerEach, None
  <2>6. LoggersHaveWriters'
    <3>1. DOMAIN registered' = AllKeys /\ DOMAIN registered = AllKeys
      BY <1>t, <2>4 DEF LoggingTyped
    <3>2. ASSUME NEW w \in open' PROVE \E k \in AllKeys : registered'[k] = w
      <4>1. CASE w = opened + 1
        BY <2>2, <2>4, <4>1
      <4>2. CASE w \in open
        <5>1. PICK k \in AllKeys : registered[k] = w
          BY <1>t, <3>1, <4>2 DEF LoggersHaveWriters
        <5>2. k # key
          BY <1>t, <2>2, <4>2, <5>1 DEF OneLoggerEach
        <5> QED BY <2>4, <5>1, <5>2
      <4> QED BY <2>1, <4>1, <4>2
    <3>3. \A k \in AllKeys : registered'[k] # None /\ ~migrationFailed' => registered'[k] \in open'
      BY <1>t, <2>1, <2>4, <3>1 DEF LoggersHaveWriters
    <3> QED BY <3>1, <3>2, <3>3 DEF LoggersHaveWriters, None
  <2>7. /\ doing' \in [Callers -> [call : LoggerCalls, key : AllKeys, step : LoggerSteps]]
        /\ lockedBy' \in [Locks -> SUBSET Callers]
        /\ CallsFitKeys'
        /\ doing'[c].step # "directory"
        /\ \A d \in Callers \ {c} : doing'[d] = doing[d]
        /\ \A l \in Locks : lockedBy'[l] = lockedBy[l] \/ lockedBy'[l] = lockedBy[l] \ {c}
    BY <1>t, <2>1, CallsStayTyped
  <2>8. ASSUME NEW d \in Callers, doing'[d].step = "directory"
        PROVE  /\ LockOf(doing'[d].call) \in Locks
               /\ lockedBy'[LockOf(doing'[d].call)] = {d}
               /\ registered'[doing'[d].key] = None
    <3>1. d # c /\ doing'[d] = doing[d]
      BY <2>7, <2>8
    <3>2. /\ LockOf(doing[d].call) \in Locks
          /\ lockedBy[LockOf(doing[d].call)] = {d}
          /\ registered[doing[d].key] = None
      BY <1>t, <2>8, <3>1 DEF MakersHoldTheLock
    <3>3. doing[d].key \in AllKeys /\ doing[d].key # key
      BY <1>t, <2>3, <2>8, <3>1 DEF LoggingTyped
    <3> QED BY <2>4, <2>7, <3>1, <3>2, <3>3
  <2>9. MakersHoldTheLock'
    BY <2>8 DEF MakersHoldTheLock, LockOf, Locks, None
  <2>10. configured' \in BOOLEAN /\ migrationFailed' \in BOOLEAN
    BY <1>t, <2>1 DEF LoggingTyped
  <2> QED BY <2>4, <2>5, <2>6, <2>7, <2>9, <2>10
          DEF LoggingInv, LoggingTyped, AllKeys, LoggerCalls, LoggerSteps, Locks, Global
<1>9. ASSUME NEW c \in Callers, NEW ks \in SUBSET Keys, CloseSessionLoggers(c, ks) PROVE LoggingInv'
  <2>1. /\ UNCHANGED <<doing, lockedBy, configured, migrationFailed, opened>>
        /\ open' = open \ {registered[k] : k \in ks}
        /\ registered' = [k \in AllKeys |-> IF k \in ks THEN None ELSE registered[k]]
        /\ DOMAIN registered = AllKeys
    BY <1>9, <1>t DEF CloseSessionLoggers, CloseWriters, LoggingTyped
  <2>2. /\ registered' \in [AllKeys -> Nat] /\ open' \subseteq open /\ DOMAIN registered' = AllKeys
        /\ \A k \in AllKeys : registered'[k] = None \/ registered'[k] = registered[k]
    BY <1>t, <2>1 DEF LoggingTyped, None
  <2>3. OneLoggerEach'
    BY <1>t, <2>1, <2>2 DEF OneLoggerEach, LoggingTyped, None
  <2>4. LoggersHaveWriters'
    <3>1. ASSUME NEW w \in open' PROVE \E k \in AllKeys : registered'[k] = w
      <4>1. PICK k \in AllKeys : registered[k] = w
        BY <1>t, <2>1, <2>2 DEF LoggersHaveWriters
      <4>2. k \notin ks
        BY <2>1, <4>1
      <4> QED BY <2>1, <4>1, <4>2
    <3>2. ASSUME NEW k \in AllKeys, registered'[k] # None, ~migrationFailed'
          PROVE  registered'[k] \in open'
      <4>1. k \notin ks /\ registered'[k] = registered[k] /\ registered[k] \in open
        BY <1>t, <2>1, <3>2 DEF LoggersHaveWriters
      <4>2. ks \subseteq AllKeys
        BY DEF AllKeys
      <4>3. registered[k] \notin {registered[j] : j \in ks}
        BY <1>t, <3>2, <4>1, <4>2 DEF OneLoggerEach
      <4> QED BY <2>1, <4>1, <4>3
    <3> QED BY <2>2, <3>1, <3>2 DEF LoggersHaveWriters, None
  <2>5. CallsFitKeys' /\ LoggingTyped'
    BY <1>t, <2>1, <2>2
       DEF LoggingTyped, CallsFitKeys, AllKeys, LoggerCalls, LoggerSteps, Locks, Global
  <2>6. MakersHoldTheLock'
    BY <1>t, <2>1, <2>2 DEF MakersHoldTheLock, LoggingTyped, LockOf, Locks, None
  <2> QED BY <2>3, <2>4, <2>5, <2>6 DEF LoggingInv
<1>10. ASSUME NEW c \in Callers, FlushLogs(c) PROVE LoggingInv'
  <2>u. UNCHANGED <<loggers, configured, migrationFailed>>
    BY <1>10 DEF FlushLogs
  <2>1. \/ Return(c)
        \/ UNCHANGED lockedBy /\ \E s \in LoggerSteps \ {"directory"} : GoTo(c, s)
        \/ UNCHANGED lockedBy /\ \E asks \in {"SetLogsDirectory", "FlushLogs"} : Call(c, asks, Global)
    BY <1>10, <1>s DEF FlushLogs
  <2> QED BY <1>u, <2>u, <2>1, QuietStep
<1>11. CASE UNCHANGED loggingVars
  BY <1>t, <1>11 DEF loggingVars, loggers, LoggingInv, LoggingTyped, OneLoggerEach, CallsFitKeys,
     MakersHoldTheLock, LoggersHaveWriters, AllKeys, LoggerCalls, LoggerSteps, Locks, Global, None, LockOf
<1>12. CASE LoggingNext
  <2>1. PICK c \in Callers :
        \/ SetLogsDirectoryCalled(c) \/ SetLogsDirectory(c)
        \/ MigrateGlobalLogger(c) \/ MigrateSessionLoggers(c)
        \/ \E k \in Keys \cup {Global} : UseLogger(c, k)
        \/ FindSessionLogger(c) \/ CreateLogger(c) \/ OpenLogger(c)
        \/ \E ks \in {{k} : k \in Keys} \cup {Keys} : CloseSessionLoggers(c, ks)
        \/ FlushLogs(c)
    BY Zenon, <1>12 DEF LoggingNext
  <2>2. \A ks \in {{k} : k \in Keys} \cup {Keys} : ks \in SUBSET Keys
    OBVIOUS
  <2>3. AllKeys = Keys \cup {Global}
    BY DEF AllKeys
  <2> QED BY Zenon, <1>1, <1>2, <1>3, <1>4, <1>5, <1>6, <1>7, <1>8, <1>9, <1>10, <2>1, <2>2, <2>3
<1> QED BY <1>11, <1>12

\* However many goroutines make, find, move and close loggers, in however many
\* sessions: no writer is left open that no logger has, and no logger is left
\* without its writer unless a migration failed (pkg/logging/logger.go).
THEOREM WritersAreKept == LoggingSpec => []LoggersHaveWriters
<1>1. LoggingInv => LoggersHaveWriters
  BY DEF LoggingInv
<1> QED BY LoggingStart, LoggingStep, <1>1, PTL DEF LoggingSpec

=============================================================================
