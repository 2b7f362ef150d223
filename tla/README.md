# csw in TLA+

TLA+ models of csw, the command-line coding agent of this repository, with the
TLC configurations that check them and TLAPS proofs of nearly every property the runs check.
`PROJECT.json` lists components, runs, mutants, hazards, findings and theorems,
and maps each definition to the lines it models. Everything below is about the
source as it is in `src/`; a definition is taken from the code, a comment or a
document is only quoted where the code disagrees with it.

    tlc -workers 2 -config SessionInput.cfg MCSessionInput.tla
    tlapm SessionThreadProofs.tla      # and the other *Proofs modules, SequenceLemmas

A comment that begins with `Mistake:` marks an operator no module uses: a
plausible error in the definition after it. `PROJECT.json` ("mutants") says which
property each of them breaks; every property of a passing run has one.

## 1. Inventory

How a run goes. `csw run` (`cmd/csw`, `pkg/system`) takes flags, configuration,
a slash command and a task, prepares a git worktree for the session, and starts
a *session thread*. The thread runs the *session loop*: ask the chat model,
execute the tools it calls, append the results, ask again. Prompts and Ctrl-C
come from the input reader, in another goroutine. The chat model is a chain:
retries around fallback around the providers' clients; a request that is too
long is compacted and repeated. When the session is over `csw run` commits the
worktree, merges it into the branch the user has checked out, removes it, writes
summaries and updates the task the session was run for.

| Component | State it keeps | What is hard | What makes it correct | Module |
|---|---|---|---|---|
| session thread `pkg/core/session_thread.go` | flags, input queue, cancelFunc, done channel | critical sections of several goroutines, an unlock before a cancel, a deferred restart | one loop at a time; every prompt answered; RunCommand is released | `SessionThread`, `PromptMailbox` |
| session loop `session*.go` | messages, finish request, pending results | tool failure, prompts that arrive at the end of a Run, parallel tools | calls are answered before anything else; results in order | `SessionThread`, `ToolPool` |
| session persistence `session_persistence.go` | session.json and its temporary file | parallel tools persist; a kill between steps | the file holds the session; a restored session goes on | `ToolPool` |
| context compaction `compact*.go` | the message list | the cut between call and result; a summary that is itself too long | calls and results paired; no prompt lost; it shrinks | `Compaction`, `StepCompaction` |
| model chain `retry.go`, `fallback.go`, ... | selected model, attempts | limits with unknown reset, cancel while waiting | fair rotation; waits long enough; an end | `ModelChain` |
| model providers `pkg/models/*client*` | HTTP clients | six wire formats, cut replies, refusals | requests accepted, calls whole, errors classified | `ProviderErrors`, `ProviderWire`, `ProviderStream` |
| oauth | access and refresh token, the provider's file | several requests with one stale token; a second process | one renewal; the new token saved | `TokenRefresh` |
| command line, run command, system | one run | four sources of settings; early returns | the run that was asked for; nothing left running | `RunStart` |
| end of a run `worktree.go`, `pkg/vcs` | worktrees, branches, checkout, stash | a dozen git commands, each may fail; several processes | nothing written is lost; base only grows | `WorktreeFinalize` |
| task manager `task*.go` | task.yml trees | read-modify-write without lock, rewritten in place | no update lost; readable after a kill | `TaskStore` |
| file tools, `pkg/vfs` | files, access rules, shadow directory | rules on two paths, two directories as one, patches | no change without a right; edits land | `FileTools` |
| runBash, runners | container, processes | lazy start against close; timeouts | no process left behind; every call ends | `Commands` |
| LSP client `pkg/lsp` | pending requests, document versions | death of the server; unlocked writes | answers to their callers; the server sees the disk | `LspClient` |
| configuration, roles, prompts | merged configuration | precedence of layers, file by file | later layers win; a prompt is complete | `Config` |
| logging `pkg/logging` | loggers, writers, three locks | creation, closing and moving at once | a logger has an open writer | `Logging` |
| input and output, slash commands, shared, apis, test support | little or none | | | none |

Shared state and calls between them: the thread calls `SweSession.Run` with no
lock held and hands it a callback that drains the queue under the lock; the
session calls the chain, the compactor and the tools; `RunCommand` waits on the
thread's done channel and then works in git; several `csw` processes meet only
in the repository, in the task directory and in the providers' files.

## 2. Plan

Modelled, in this order: `SessionThread` with `PromptMailbox` and its proofs,
`ModelChain`, `Compaction`, `WorktreeFinalize`, `TaskStore`, `ToolPool`,
`Commands`, `LspClient`, `TokenRefresh`, the providers, `Config`, `RunStart`,
`FileTools`, `StepCompaction`, `Logging`.

Then the proofs, component by component, each from an inductive invariant that
TLC checked first: sections 4 and 9. A proof needs modules without RECURSIVE
operators in reach, and a theorem and a run should speak of the same formula.
Components are therefore extended, not instantiated, by the modules that check
them, wherever their names allow it: `WorktreeFinalize` by `MCWorktree`; `TaskStore`, `ToolPool`,
`FileTools`, `Logging` by `MCTools`; `LspClient`, `Commands`, `TokenRefresh` by
`MCServices`; `Compaction`, `StepCompaction`, `RunStart` with `Config`, and
`ProviderReplies` with `ProviderWire` and `ProviderStream` by `MCRequests`, where
the variables of the components that `mode` did not choose keep their values.

What remains is what section 11 lists as left for later.

## 3. Session thread: `SessionThread`

**State.** The fields of `SessionThread` under their names; of the session only
what decides control: prompts in the conversation (`delivered`), the kind of the
last message (`last`), whether it is the automatic "continue" prompt, and
`finishRequested`. `pc[l]` and `frame[l]` are the goroutines that run
`runSessionLoop`; `cancelled` their contexts; `client[c]` what a caller of
Interrupt has still to do after it released the lock; `done` the buffered
channel; `waiting` RunCommand.

**Actions.** One per critical section of `c.mu` or per stretch of code between
two that no other goroutine can observe: `UserPrompt`, `AddPrompt`,
`InterruptSuspended`/`InterruptRunning` (two branches of Interrupt), `Cancel` and
`Terminate` (what Interrupt does after the unlock), `Pause`, `Resume`,
`ResumePending`, `StartSession`; for the loop `Fetch`, `Start`, `Top`, `Tools`,
`Compact`, `ChatFails`, `ChatReplies`, `Drain`, `Returned`, `Finish`, `Exit`;
`ReceiveDone`. What a model answers, whether a tool fails or asks to finish and
what compaction leaves are free.

**Checked.**

| Run | Instance | Shows |
|---|---|---|
| SessionInput (`MCSessionInput`) | side by side: the methods the program calls with 2 prompts and 2 callers of Interrupt; every method with 1 prompt and 1 caller | `TypeOK`, `AtMostOneLoop`, `NoPromptLeftUnanswered`, `ToolCallsAnsweredFirst`, `SilentOnlyWhenSuspended`, refinement `ImplementsMailbox` |
| SessionLive (`MCSessionThread`) | prompts and interrupts, 2 prompts, 1 caller | `CancelledLoopStops`, `QueuedPromptReachesRun` |
| SessionStranded, SessionResumed | | violations, section 10 |

**Bounds.** A prompt is submitted once (one that an interrupt discarded may be
given again); two prompts are enough for one in the conversation, or being
answered, while the other is in any place of the queue's life. The second
instance asks only what AddPrompt, Pause, Resume and ResumePending add, for which
one is enough; only tests call them. Two callers of Interrupt are the input
reader and Shutdown. A loop slot stands for a goroutine and its context; it is
used again only when no caller still holds that context's cancel function, so
callers + 2 slots would be enough for every interleaving; with two callers three
are given, which leaves out that both still hold contexts of ended loops while a
third loop starts a fourth. Prompts and callers are symmetric in SessionInput,
nothing compares them; slots are not, `Fresh` chooses one. Deadlock is not
checked because a session may end and wait for ever.

**Fairness.** Weak fairness of each goroutine's own steps, of each caller's steps
after it released the lock, and of RunCommand's receive; none of calls, so the
user owes nothing. A goroutine with something to do keeps it enabled whatever the
others do (no step waits for a condition that another undoes), so the Go
scheduler and a mutex that is always released justify it. It includes that tools
and chat requests return: the code calls providers and tools with contexts and
time limits.

## 4. What is proved about it: `SessionThreadProofs`

For every set of prompts, callers, slots and methods in use, from the two
assumptions on constants (`Ops` are methods that exist, `NoLoop` is no slot):

* `TypeCorrect`: `Spec => []TypeOK`, including that the done channel holds at
  most one report.
* `OneLoop`: `Spec => []AtMostOneLoop`. The formula is inductive with `TypeOK`
  because it says three things at once: one active goroutine, sessionRunning iff
  there is one, cancelFunc is its context's. "At most one" alone is not: a start
  is guarded by sessionRunning, not by the goroutines.
* `PromptsAnswered` and `CallsAnswered`: `NoPromptLeftUnanswered` and
  `ToolCallsAnsweredFirst`. Neither is inductive. `ConversationInv` adds what each
  program point of the loop knows of the end of the conversation (in `drain` the
  last message is a text, in `chat` it is not a call without results, ...) and
  that a standing finish request implies calls that Run will answer first. A
  client may append nothing itself; only the loop appends, and `OneLoop` makes
  the program point of *the* loop a fact about the state. `IInv` is the
  conjunction of the three, proved action by action (`ConversationLoop`).
* `MailboxImplemented`: `Spec => ImplementsMailbox`, every step maps to a step of
  `PromptMailbox` or a stutter; `AtMostOneLoop` is what lets a draining loop be
  the busy worker.
* `NeverSilent`: `Spec => []SilentOnlyWhenSuspended`, of every method. Inductive
  with `ReportOnItsWay`: while RunCommand waits, either a report is in the done
  channel, or a loop runs whose deferred section will send one, or a caller of
  Interrupt has still to, or the thread is suspended with the user to act.

Only model-checked: the liveness properties, which rest on fairness and ENABLED.

## 5. The request: `ModelChain`, `Compaction`, `StepCompaction`, the providers

### `ModelChain`

`call` holds the locals of the three nested loops: compaction rounds and attempts
of `runNonStreamingChat` and `RetryChatModel.Chat`, position and best limit of the
pass in `FallbackChatModel.Chat`. `Answer`, `AskLimited`, `AskRefused`,
`AskUnreachable` are one model's reply; `PassFails` decides between giving up,
waiting and compacting, whose outcome may also be that nothing was compacted or
that the request is still too long; `Wait` is the timer against the context; time is counted
in the seconds left until each limit resets. The run ModelChain has 3 models and 1
retry, limits shorter and longer than the largest delay, and chains built with
and without a delay between models (the factory builds them without). It checks
`RoundRobin` (a pass starts with the model that answered last and asks the models
in turn), `AllAskedBeforeGivingUp`, `CancelEndsSoon`, `WaitReachesAReset` and,
under weak fairness of the request's own steps, `RequestEnds`: three models are
the least for which rotation and the choice of the shortest limit can go wrong in
more than one order, and one retry inside one round of compaction already nests
all the loops. Providers need no fairness other than that they return. The delay
is computed in unbounded numbers; in the code the product overflows 64 bits from
the 34th attempt on with an initial delay of a second, which is not modelled.

### `Compaction`

The conversation is a sequence of messages: kind, the original messages it
stands for (`covers`), the call it makes or answers. `Chunks` says for each stretch of
the history how it may be cut when summaries are refused as too long, one summary
message for all; `MergeCompactedWithPreserved` puts summary and preserved tail together as
the code does, `ValidateCompactedMessages` drops calls and results without their
counterpart. The actions are those of Run that append (`Prompt`, `Tools`,
`ChatReplies`) and the two places that compact (`Ask`, `TooManyInputTokens`).
The run Requests preserves the last 2 counted messages, over 7 messages: enough
for two compactions with each cut between call and result, and for a prompt in
the middle of the tail. It shows pairing, no duplicates, no lost prompts, prompts
in order (`CompactionKeeps`), and that compaction never grows the list. The
system message is dropped by compaction; a test of the repository expects that,
and no property speaks of it.

### `StepCompaction`

`CompactMessages`, the compactor of a session that has none (`NewSweSession` sets
KimiCompactor, so it is the fallback of tests and embedders): its eight steps as
operators in the code's order, driven by rounds of tools over two files that
change, shrink or disappear on disk in between. `StepsKeep`: pairs, prompts, and
the last state of every file unless length forced messages out. Limits are scaled
down (16 units) so that each threshold of the code is crossed both ways.

These modules, the providers and `Config` make sequences of sequences with `Sublists`:
`Kept`, `KeptIf`, `Flat` and `Total` are recursive functions, which compute what
SelectSeq and the folds of the library compute, and which a proof can unfold.

### `ProviderErrors`, `ProviderWire`, `ProviderStream`

`ProviderErrors` is the classification of refusals and network errors by each
client: status, body, headers and the merging of the several places a reset time
may be in. `ProviderWire` carries a conversation of up to three rounds over the
wire of each provider: the conversion of messages, tools, options and thinking
budget, the reply whole or as events and cut anywhere, `UnstreamingChatModel`,
and the next request with the results. `ProviderStream` is the loop of ChatStream
in each client, line by line; the program asks through Chat, only tests stream.
`ProviderReplies` puts the two together for what is asked of both: `CallsWhole`, a call
the session executes is one the server finished sending (`RepliesWhole`), and what a
stream yielded is the reply, as far as it came (`StreamFaithful`). The others are
`RequestsAccepted` (what a server checks of a request), `WaitsForReset` and
`PromptPrefixStable` (requests of a run extend one another, which prompt caches
need; claimed of openai and anthropic, whose clients sort the tools: the registry
is a Go map). Replies, refusals and settings are listed in `MCRequests`, one for
every branch of the conversions.

## 6. Tools: `ToolPool`, `FileTools`, `Commands`, `LspClient`, `TokenRefresh`, `Logging`

* `ToolPool` is executeToolCalls with its workers, the todo list and slugs they
  change, the `AGENTS.md` files found through them, and every step of persisting
  `session.json` through one temporary file, with a kill anywhere and a restore.
  Two workers on three batches of calls, one kill. `ToolResultsInPlace`,
  `FileCurrentWhenIdle`. Persists do collide (one renames what another is
  writing); the property is what the run relies on, that the persist of the
  session's own goroutine after the tools makes the file whole again.
* `FileTools` is the eleven file tools over access rules, globs, the shadow
  directory and the local file system, two tools at once, each read, truncation
  and write a step of its own, moves within a directory and, where `--vfs-allow`
  names one outside, to that. The root is called `.` where shadow patterns are
  matched, as relativePath calls it; `OneTree` speaks of what is below it. `OneTree`, `ChangesAllowed`, `EditsLand`; the
  patch matcher (`SeekSequence`, `ComputeReplacements`) is given lines that occur
  twice, at the end, and with other white space.
* `Commands` is runBash over the host's bash or a container that starts with the
  first command and is closed at the end of the run, while calls are under way.
  `CommandsCleanUp`, and in `EveryCallEnds` that a limited command is
  answered.
* `LspClient`: requests with their response channels, touches of a document by two
  tools, the death of the server, messages mixed by two unlocked writes.
  `RequestsMatched`, `ServerSeesDisk`; a request ends unless the server died.
* `TokenRefresh`: three requests in two processes, an expiry known or not, an
  answer or a write that is lost, one kill. `TokensUsable`.
* `Logging`: the registry of loggers under its three locks, one step each.
  `LoggersHaveWriters`.

**Fairness** (run Services): weak fairness of each call's own steps, of closing the
container once begun, and of the goroutine that reads the language server's
responses. Commands and servers owe nothing: a limit ends a command, and a dead
server is the exception the property names.

## 7. Settings and a run: `Config`, `RunStart`

`Config` reads up to three sources, each one of defaults, a user's, a project's, a
role of its own, a broken and a missing one, and merges them field by field and
fragment by fragment (`ConfigurationMerged`: the last source that says something
wins; a prompt has each fragment meant for the model once, in order). `RunStart`
EXTENDS it and follows one `csw run` from its flags to the task's final status,
through both loads of the configuration and every early return (`RunsAsAsked`).
What the agent does in the session is its choice of a command and a status.

## 8. State on disk: `TaskStore`, `WorktreeFinalize`

`TaskStore`: two processes over a parent and a subtask, three operations in all,
one kill; the file is emptied, then written. Tasks form a tree of any depth: a task's directory is in its
parent's, `Path` is the chain of them, and an archive moves directories with what
is in them. `ChangesKept` speaks of tasks nobody rewrote at the same time (those
the code does lose are in `raced`), and says so for a run's three separate
changes. It compares what the operations set with the task's *current* record:
with three processes a directory that was archived may be made again by a rewrite
that began before, and the archived copy is then a stale one nobody reads as the
task. `ListedSubtasksExist`, `ArchivesAllChosen`.

Each session is a process and a feature branch; `pc` is the next git command or
model call of `FinalizeWorktreeSession` and of the rest of `RunCommand`. What they
share: `base` (merged work in order), `local` (the user's uncommitted edits),
`undone` (merged work the user's checkout does not have yet and git reports as
removed), `stash` (one stack, each entry with edits and undone work). Any command
may fail; `GiveUpEarly` and `GiveUpMerge` are the early returns, without and with
the deferred restore. A rebase conflict starts a sub-session that may finish the
rebase, give it up or leave it in progress; a merge succeeds only if the branch
contains all of base. `Start` and `StartFails` are PrepareSessionVFS: with a
worktree left over it removes the directory, and git 2.39 was seen to refuse
`branch -D` for a branch whose directory is gone but still listed. Environment:
`UserEdits` at any time and `Crash`, a killed process, between any two commands.

| Run | Instance | Shows |
|---|---|---|
| Worktree (`MCWorktree`) | "together": 3 processes, 2 merge, 2 finalise at a time | `WorkKept`, `MergedIsCheckedOut`, `BaseOnlyAdvances` |
| | "again": 2 merging branches run twice, one finalisation at a time, 1 edit, a kill | also `UserChangesKept` |
| WorktreeStashes | 2 finalise at a time, with an edit | violation, section 10 |

`MergedIsCheckedOut` carries its own condition, a history variable: `overlapped`
is set once two finalisations are under way at a time, and until then a merged run
that has cleaned up is in the user's checkout.

`MaxFinalizing = 1` is an assumption about use: with two finalisations at a time
and an edit `UserChangesKept` fails, which is run WorktreeStashes. Edits made
*during* a merge are recorded in `exposed` and claimed by no property: with
`--workdir` the code resets the checkout over them. Bounds: two merging branches
suffice for one to overtake the other between rebase and merge; an edit before
and a merge between two runs for a stash that outlives its run; one kill.
`WorkKept` claims the work of a branch's last run until the branch is run again:
running it again removes a worktree that was "kept for manual investigation"
(`bootstrap.go:210`). Abstractions: whether changes conflict is free, and the
conflict loop may go round without end in the code, a bounded number of times
here; `.cswdata` is taken to be ignored by git. Deadlock is not checked: the runs
end.

## 9. What is proved about the others

Every theorem is for all values of the constants that satisfy the named assumption
of its module, which says what the constants are, not how large; where a theorem
needs more, its statement has the hypothesis, and it is named below. Each
invariant is inductive, was checked by TLC first, and is proved action by action;
helper lemmas say once what an operator returns or keeps.

**`SequenceLemmas`.** The library's induction theorems take an operator as a
parameter, which the provers cannot instantiate. `InductionOnSets` says the same
of a set: one that has 0 and with each number the next has them all (from `WFMin`,
the least element of a set). With it `StepsExist` and `KeptSteps`, `FlatSteps`,
`TotalSteps` unfold the recursive functions of `Sublists`, and the lemmas after
them say what is in a sublist, where it comes from, in which order, and what
concatenation does to it. The three modules that follow rest on them.

**`RequestsProofs`.** Of `ModelChain` (`ChainAssumption`: at least one model,
delays and limits are numbers): `ChainInv` is a type invariant with five parts:
`Placed` (where the three loops stand relative to each other), `GoodSelected` (how
far the pass is from the model that answered last), `InTurn` (who was asked, in
the order of the chain), `LateInPass` (nothing leads from a cancelled pass to
another) and `ShortestKnown` (the limit that is kept is one some model of this
pass announced). From it `Rotates`, `AllAsked`, `CancelEnds`, `WaitsLongEnough`.
`AllAsked` needs that a sequence of as many models as there are, each the
successor of the one before, holds every model.

Of `RunStart` and `Config` (`ConfigAssumption`: paths are sequences of sources, a
role has finitely many fragments; `RunAssumption`: types of the flags, commands
and sources): `RunInv` follows what was asked for through the flags, the command
and the task (`ParametersFollow`) and knows that a container exists only once its
cleanup is deferred: `RunIsAsAsked`. `LayersInv` gives each parameter and each
fragment the last source that says something of it; that a prompt has each wanted
fragment once and in order is a lemma on sorting a finite set. Together:
`ConfigurationIsMerged`.

Of `Compaction` (`CompactionAssumption`: at least one message is preserved):
`IInv` says of the conversation that calls and results are `Paired`, and that it
`Stands` for the messages appended and the prompts given: no message in two
places, every prompt in one, prompts in their order. That the cuts of `Chunks`
keep every place once is by induction over the length of a stretch
(`ChunksPartition`); that merging and validation keep what stands is by tracking
for each message of the result the places it was made of (`Regroups`).
`CompactionSound` is `CompactionKeeps`, in four theorems; `CompactionShortens` is
the action property.

**`StepProofs`** (`StepAssumption`: files are numbered, contents and limits are
lengths). `IInv`: what any conversation is, that each call is there with its result
and no other has its number (`Answered`), the prompts and the files. Each of the eight steps of
CompactMessages has a section with what it keeps: `StepsSound`, that is
`StepsKeep`.

**`WireProofs`.** Of `ProviderWire` (`WireAssumption`: replies are of the three
kinds of parts, the registry lists the same tools in every order): `IInv` has the
`Conversation` (calls whole and answered at once), that what is asked is the
request the conversation gives, and that an earlier one `Begins` it. Its core is
that each client's conversion distributes over the messages.
`WireRequestsAccepted`, `WirePrefixStable` and the first half of `CallsStayWhole`.
Of `ProviderStream` (`StreamAssumption`: a reply is a sequence of parts, no call
twice): `StreamInv` says what has been yielded, begun and counted from how the
server cuts the reply: a call and its arguments are pieces that follow each other
(`Cut`), the usage is not counted before the piece that ends it (`Ended`).
`StreamIsFaithful` is the second half of `CallsStayWhole`.

**`ServicesProofs`.** Of `LspClient` (`LspAssumption`): `IdsFit` and `TouchesFit`
say which request or document a goroutine's program point belongs to,
`NothingBefore` that all is empty before Init, and `DocsSynced` what server and
client agree on at each point of a touch: `RequestsStayMatched`,
`ServerStaysSynced`, `VersionsStayAgreed`. Of `Commands` (`CommandsAssumption`):
`HolderWorks` (who holds the mutex starts or closes) and `OneContainer` give
`RunCleansUp`. Of `TokenRefresh` (`TokensAssumption`): `LockHeld`, `Forced` (a
forced renewal is of a refused token) and `Recoverable` (the file has the token
the server accepts, or one request alone is about to write it) give
`FileStaysUsable`.

**`ToolsProofs`.** Of `TaskStore` (`TaskAssumption`, `TreeAssumption`: finitely
many tasks, and directories are not inside each other): `ListInv`
(`SubtasksExist`, `StoreTyped`): one process creates a task, what a process is
about to write is a whole record, and its subtasks have been begun. `KeptInv`
(`NoChangeIsLost`): of a task that did not race one process alone has a record in
hand, and what it will write is what the operations said, changed by its own.
`ArchiveInv` (`ArchiveMovesAll`): what the archive has yet to move is in order of
depth, is still there, and nothing it moved itself is in its way; this rests on
lemmas about `Path`, the least set closed under parents: nested tasks have longer
paths, two tasks above one are above each other.

Of `ToolPool` (`PoolAssumption`): `Good` is what any conversation is (calls
answered at once and in order, each AGENTS.md once), `Turns` whose turn it is,
`PoolFits` that every call is waiting, held by a goroutine or answered, `NewsFit`
that files to be appended were not, `MainSaves` that Run persists alone.
`FileStaysCurrent` holds whatever the persists of the pool did to each other,
because of the last one; `ResultsStayInPlace`.

Of `FileTools` (`FilesAssumption`: the directories are directories at first, calls
name paths, and what is parsed from a patch is a sequence of hunks): `FilesInv`
says that the directories stay directories, that what a call has yet to do are
operations on paths, and that who fills a file still has its text.
`ChangesNeedRights` is `ChangesAllowed`: each path that differs after a step is
one of the operation's, or below one that goes or comes with it, or a file the
thread was let to open before, or the same file where another thread's move has
taken it. Its core is `MovedMeans`, what a move makes of one directory or two,
from lemmas on names (`Target`, and back, and what it keeps). `DirectoriesStay`
follows. `RejectedIsHarmless`, half of `EditsLand`, is from `Unwritten`: until a
call writes, nothing of it is on disk.

`EditsLandWhereMeant` is all of `EditsLand`. What the agent has in mind (`from`
and `want`) is an input of a call, so the theorem assumes `WantsWhatItSays`: of
its calls, that what `Planned` gives for the text read is to write what is wanted,
where it is wanted. What remains to be proved is the code's part, over the steps
of a call: that this is what is on disk at the end. `Landing` says what each phase
has left to do while no other call has begun: a plan not touched, or a file opened
and not yet filled, or its text in place and an old name still to go.
`TwoDirectoriesAreOne` is `OneTree`, for patterns that do not match the root
itself (`RootNotShadowed`; section 10 says what happens where one does): reading,
listing, finding and searching decide by the same names which directory a file is
looked for in, and a listing of the root looks into both.

Of `Logging` (`LoggingAssumption`): `OneLoggerEach`, `CallsFitKeys` and
`MakersHoldTheLock` (nobody registered the logger that one is making) give
`WritersAreKept`; moved writers are numbered by counting, hence its lemmas on
cardinalities.

**`WorktreeFinalizeProofs`** (`FinalizeAssumption`: finitely many sessions).
`WorkKept` is not inductive; `WorkInv` adds for each session `NamedOnce` (work
belongs to a run that has begun), `WorktreeInStep` (from the commit on nothing is
uncommitted) and `MergedBeforeDelete` (where the branch may go, it is merged):
`WorkIsKept`, `BaseAdvances`. `ChangesAreKept` assumes `MaxFinalizing = 1`, which
it must, since WorktreeStashes refutes it with 2; `UserInv` adds that between
stash and restore the checkout has only edits made meanwhile (`CheckoutSetAside`)
and that a stash is dropped only when it has been applied. `MergedStaysCheckedOut`
has no such assumption: `CheckoutInv` says of states before two sessions ever
finalised together that no stash holds a removal of merged work (`Settled`).

**Only model-checked.** Of the properties of the passing runs five have no
theorem. `RequestEnds`, `EveryCallEnds`, `CancelledLoopStops` and
`QueuedPromptReachesRun` are liveness, which rests on fairness and ENABLED, out of
the provers' reach. `WaitsForReset` compares what a client reads from a refusal
with when the limit really ends (`ends`), which is a constant of the instance: a
hypothesis that the server announces it the way the client reads it would be the
property itself. The run has a refusal for every branch of the reading.

## 10. The runs, and where the code disagrees with itself

Seven runs pass. Components that share no state are checked by one run when
nothing is asked of two of them together: a variable `mode`, chosen once, says
which one moves, so the run is the union of the separate checks, each with the
bounds of its INSTANCE.

| Run | Modules | Distinct states |
|---|---|---|
| SessionInput | SessionThread, PromptMailbox | 2.1 million |
| SessionLive | SessionThread | 0.3 million |
| ModelChain | ModelChain | 1.6 million |
| Worktree | WorktreeFinalize | 3.9 million |
| Services (`MCServices`) | Commands, LspClient, TokenRefresh | 0.2 million |
| Tools (`MCTools`) | TaskStore, ToolPool, FileTools, Logging | 1.4 million |
| Requests (`MCRequests`) | Compaction, StepCompaction, ProviderErrors, ProviderWire, ProviderStream, ProviderReplies, Config, RunStart | 0.6 million |

Five expect a violation; `PROJECT.json` quotes the line they contradict.

| Run | What happens |
|---|---|
| SessionStranded | A prompt accepted after the loop's last look at the queue and before its deferred section stays queued with no loop. |
| SessionResumed | A prompt after an interrupt is drained by the cancelled Run; nothing resumes, nothing is reported. |
| WorktreeStashes | Two finalisations share `stash@{0}`: one drops the other's entry, the user's changes are gone. |
| WireResults | The results of several calls are one message; openai and ollama are sent the last of them. |
| StaleEdits | Two tools edit one file: `expected_sha256` is compared before, not when, the file is written. |

Read in the code while modelling, without a run of their own:

* Session: a second Interrupt reports the run finished while its goroutine may
  still execute tools; Resume right after Pause lets the loop report its
  cancellation as an error. Compaction right after tools puts the results before
  the message that made the calls (`compact_kimi.go:165`). Sub-agents run with a
  context nobody cancels. Step 1 of the fallback compactor reads files relative
  to the process's directory, not through the session's file system.
* End of a run: the task becomes `merged` although the merge failed, or with
  nothing to merge (`run.go:165`, `514`); a task whose session failed, or whose run
  failed between `run.go:461` and the session, stays `running`.
* Start: `--no-merge` (`cmd/csw/run.go:192`) is lost in `mergeRunExecutionConfig`;
  a worktree in the configuration undoes `--no-commit` and goes before the task's
  branch; `--merge=false` is lost; a command's container settings go before
  `--container-disabled`; the configuration's default role is not used.
* Configuration: role aliases are lost in a merge (`merge.go:284`, against
  `docs/ROLES.md:71`); tool fragments under `roles/all` are never used
  (`docs/ROLES.md:17`).
* Tasks: concurrent changes of one task are lost; a task is created under an
  archived parent without a word; two `csw run --next` may pick the same task;
  MergeTask merges and may then fail to write the status. `task update` does not
  treat a completed task as finished.
* Commands: a timeout does not end a call while a child holds its output
  (`bash.go:83`); a failed start of the system leaves its worktree and language
  server; of two equally specific rules of runBash the order of a map decides.
* Providers: the Responses client sends developer messages twice; OpenAI's
  streamed usage after the finish reason is not read; Anthropic's streamed calls
  come without arguments; responses and ollama send tools in the order of a map.
* Shadow directory: a pattern that matches the root itself, as `*` and `**` do (it is
  called `.`, `shadow.go:66`, `195`), makes a listing of the root show the shadow
  directory alone, also where a later, negated pattern leaves files in the worktree.
* LSP: the documentation of the document life cycle (`lsp.go:14`) and
  `client.go:238` differ; a request to a dead server waits for ever.
* Logging: SetLogsDirectory takes its locks in the opposite order of the others
  (`logger.go:139`); it is called once, before there is another goroutine.

## 11. What is not modelled, and why

Data without control: formatting of output, summaries, templates of slash
commands, input readers, identifiers, raw logging of requests, embeddings and
lists of models, skills and web fetch. Not reachable from the program: the
Responses compactor and its adapter (the retry wrapper answers no compactor), the
`interruptPending` flag and `pendingToolResponses`, which no statement sets,
`Shutdown` and `DeleteSession` of the system. Left for later: sub-agents and
hooks, the login dialogue of OAuth, the expansion of model aliases, dependencies
between tasks, the 64-bit arithmetic of the retry delay, and the second
interrupt's report under live tools together with the end of the run.
