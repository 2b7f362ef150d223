--------------------------- MODULE WorktreeFinalize ---------------------------
(***************************************************************************)
(* The end of `csw run --worktree': what happens to the agent's work and   *)
(* to the user's own uncommitted changes once a session is over            *)
(* (pkg/system/run.go and pkg/system/worktree.go, over pkg/vcs).  Every    *)
(* session is a process of its own; they meet only in the git repository:  *)
(* the base branch, the user's checkout of it and the stack of stashes.    *)
(* Each step below is one git command, or one call of a model.             *)
(*                                                                         *)
(* A commit, a worktree's contents and an edit of the user are names; git  *)
(* may refuse any command, and whether two changes conflict is left open.  *)
(***************************************************************************)
EXTENDS Naturals, Sequences, SequencesExt, FiniteSets

CONSTANTS Sessions,       \* one per feature branch; a branch may be run again
          Merging,        \* the sessions started with --merge
          RebaseIn,       \* where each session's rebase runs: see RebaseDirs
          Edits,          \* the changes the user makes in the checkout
          MaxRuns,        \* bound: runs of one branch
          MaxAttempts,    \* bound: conflict-resolution rounds of one run
          MaxCrashes,     \* bound: processes killed
          MaxFinalizing   \* sessions that may be finalising at the same time

(* FinalizeWorktreeSession takes Parameters.Workdir for the directory of   *)
(* the worktree.  BuildSystem puts that directory into a copy of the       *)
(* parameters, so it is what the user gave: without --workdir it is empty, *)
(* and the vcs merges the branches itself; with --workdir it is the        *)
(* checkout of base.  "worktree" is what the integration tests give it.    *)
RebaseDirs == {"branches", "checkout", "worktree"}

ASSUME FinalizeAssumption ==
    /\ IsFiniteSet(Sessions) /\ Merging \subseteq Sessions
    /\ RebaseIn \in [Sessions -> RebaseDirs]
    /\ MaxRuns \in Nat \ {0}
    /\ MaxFinalizing \in Nat \ {0}
    /\ MaxAttempts \in Nat
    /\ MaxCrashes \in Nat

VARIABLES
    pc,         \* where the run of each session stands
    runs,       \* how often the branch has been run
    tree,       \* the worktree: none, present, or its directory missing while git lists it
    dirty,      \* the worktree holds work that is not committed
    committed,  \* the feature branch holds a commit that is the run's work
    onto,       \* how many commits of base the feature branch contains
    rebasing,   \* a rebase is in progress in the worktree
    attempt,    \* rounds of conflict resolution so far
    stashed,    \* stashedLocalChanges
    sessionErr, \* the session ended with an error
    done,       \* FinalizeWorktreeSession went through to the cleanup
    taskStatus, \* the status in task.yml
    base,       \* the base branch: the work merged into it, in order
    local,      \* the user's uncommitted edits in the checkout of base
    undone,     \* merged work the checkout lacks: git shows it as removed
    stash,      \* the repository's one stack of stashes, stash@{0} first
    crashes,
    produced,   \* history: all work agents have written
    made,       \* history: all edits the user has made
    exposed,    \* history: those made while a finalisation was under way
    overlapped  \* history: two sessions have finalised at the same time

locals      == <<attempt, stashed, sessionErr>>
repoVars    == <<tree, dirty, committed, onto, rebasing>>
sessionVars == <<repoVars, locals, done, taskStatus>>
checkout    == <<local, undone, stash>>
historyVars == <<produced, made, exposed, overlapped>>
finalizeVars == <<pc, runs, sessionVars, base, checkout, crashes, historyVars>>

Work(s) == <<s, runs[s]>>
AllWork == Sessions \X (1 .. MaxRuns)

Steps == {"idle", "session", "message", "commit", "status", "push", "rebase", "conflict",
          "merge", "sync", "drop", "delete", "apply", "unstash", "summary", "task"}

TypeOK ==
    /\ pc \in [Sessions -> Steps]
    /\ runs \in [Sessions -> 0 .. MaxRuns]
    /\ tree \in [Sessions -> {"none", "present", "missing"}]
    /\ dirty \in [Sessions -> BOOLEAN]
    /\ committed \in [Sessions -> BOOLEAN]
    /\ onto \in [Sessions -> 0 .. Len(base)]
    /\ rebasing \in [Sessions -> BOOLEAN]
    /\ attempt \in [Sessions -> 0 .. MaxAttempts]
    /\ stashed \in [Sessions -> BOOLEAN]
    /\ sessionErr \in [Sessions -> BOOLEAN]
    /\ done \in [Sessions -> BOOLEAN]
    /\ taskStatus \in [Sessions -> {"created", "running", "merged", "completed"}]
    /\ base \in Seq(AllWork)
    /\ local \subseteq Edits
    /\ undone \subseteq AllWork
    /\ stash \in Seq([edits : SUBSET Edits, undone : SUBSET AllWork])
    /\ crashes \in 0 .. MaxCrashes
    /\ produced \subseteq AllWork
    /\ made \subseteq Edits
    /\ exposed \subseteq made
    /\ overlapped \in BOOLEAN

FinalizeInit ==
    /\ pc = [s \in Sessions |-> "idle"]
    /\ runs = [s \in Sessions |-> 0]
    /\ tree = [s \in Sessions |-> "none"]
    /\ dirty = [s \in Sessions |-> FALSE]
    /\ committed = [s \in Sessions |-> FALSE]
    /\ onto = [s \in Sessions |-> 0]
    /\ rebasing = [s \in Sessions |-> FALSE]
    /\ attempt = [s \in Sessions |-> 0]
    /\ stashed = [s \in Sessions |-> FALSE]
    /\ sessionErr = [s \in Sessions |-> FALSE]
    /\ done = [s \in Sessions |-> FALSE]
    /\ taskStatus = [s \in Sessions |-> "created"]
    /\ base = << >>
    /\ local = {} /\ undone = {} /\ stash = << >>
    /\ crashes = 0
    /\ produced = {} /\ made = {} /\ exposed = {}
    /\ overlapped = FALSE

Goto(s, from, to) == pc[s] = from /\ pc' = [pc EXCEPT ![s] = to]

-----------------------------------------------------------------------------
(* The run up to the end of the session.                                   *)

Finalizing == {s \in Sessions : pc[s] \notin {"idle", "session"}}

(* A branch is made from HEAD of the checkout, and has no work of the run; *)
(* its worktree holds what is on it.                                       *)
NewBranch(s) ==
    /\ committed' = [committed EXCEPT ![s] = FALSE]
    /\ rebasing' = [rebasing EXCEPT ![s] = FALSE]
    /\ onto' = [onto EXCEPT ![s] = Len(base)]
GetWorktree(s) == tree' = [tree EXCEPT ![s] = "present"]

(* `csw run' of the branch: the task becomes "running", then               *)
(* PrepareSessionVFS deletes the branch, whatever is on it, and makes it    *)
(* anew from HEAD of the checkout, with its worktree.                      *)
Start(s) ==
    /\ Goto(s, "idle", "session")
    /\ runs[s] < MaxRuns
    /\ tree[s] = "none"
    /\ runs' = [runs EXCEPT ![s] = @ + 1]
    /\ NewBranch(s) /\ GetWorktree(s)
    /\ done' = [done EXCEPT ![s] = FALSE]
    /\ taskStatus' = [taskStatus EXCEPT ![s] = "running"]
    /\ UNCHANGED <<dirty, locals, base, checkout, crashes, historyVars>>

(* If an earlier run left its worktree, PrepareSessionVFS removes the      *)
(* directory; DropWorktree then finds none, git refuses to delete a branch *)
(* it still lists as checked out, and the run ends there.                  *)
StartFails(s) ==
    /\ pc[s] = "idle" /\ UNCHANGED pc
    /\ runs[s] < MaxRuns
    /\ tree[s] # "none"
    /\ tree' = [tree EXCEPT ![s] = "missing"]
    /\ dirty' = [dirty EXCEPT ![s] = FALSE]
    /\ taskStatus' = [taskStatus EXCEPT ![s] = "running"]
    /\ UNCHANGED <<runs, committed, onto, rebasing, locals, done,
                   base, checkout, crashes, historyVars>>

(* The session ends, with an error or without, having changed files of the *)
(* worktree or not; FinalizeWorktreeSession is called in every case.       *)
SessionEnds(s) ==
    /\ Goto(s, "session", "message")
    /\ Cardinality(Finalizing) < MaxFinalizing
    /\ \E changed, err \in BOOLEAN :
          /\ dirty' = [dirty EXCEPT ![s] = changed]
          /\ produced' = IF changed THEN produced \cup {Work(s)} ELSE produced
          /\ sessionErr' = [sessionErr EXCEPT ![s] = err]
    /\ overlapped' = (overlapped \/ Finalizing # {})
    /\ UNCHANGED <<runs, tree, committed, onto, rebasing, attempt, stashed, done, taskStatus,
                   base, checkout, crashes, made, exposed>>

-----------------------------------------------------------------------------
(* FinalizeWorktreeSession: message, commit.                               *)

UnchangedFinal == UNCHANGED <<runs, sessionVars, base, checkout, crashes, historyVars>>

GenerateMessage(s) == Goto(s, "message", "commit") /\ UnchangedFinal

(* Everything before the stash that fails returns with the worktree and    *)
(* the branch kept; the deferred restore is not registered yet.            *)
GiveUpEarly(s) ==
    /\ \/ Goto(s, "message", "summary")
       \/ Goto(s, "commit", "summary")
       \/ Goto(s, "status", "summary")
       \/ Goto(s, "push", "summary")
    /\ UnchangedFinal

\* Mistake: the early return after a failed commit is missing.
CommitWorktreeFallsThrough(s) ==
    /\ Goto(s, "commit", IF s \in Merging THEN "status" ELSE "drop")
    /\ \E ok \in BOOLEAN :
          /\ committed' = [committed EXCEPT ![s] = ok /\ dirty[s]]
          /\ dirty' = [dirty EXCEPT ![s] = ~ok /\ dirty[s]]
    /\ UNCHANGED <<runs, tree, onto, rebasing, locals, done, taskStatus,
                   base, checkout, crashes, historyVars>>

(* CommitWorktree; ErrNoChangesToCommit is not a failure.                  *)
CommitWorktree(s) ==
    /\ Goto(s, "commit", IF s \in Merging THEN "status" ELSE "drop")
    /\ committed' = [committed EXCEPT ![s] = dirty[s]]
    /\ dirty' = [dirty EXCEPT ![s] = FALSE]
    /\ UNCHANGED <<runs, tree, onto, rebasing, locals, done, taskStatus,
                   base, checkout, crashes, historyVars>>

-----------------------------------------------------------------------------
(* stashLocalChangesBeforeMerge: `git status', then `git stash push'.      *)

CleanCheckout == local = {} /\ undone = {}

ReadStatus(s) ==
    /\ Goto(s, "status", IF CleanCheckout THEN "rebase" ELSE "push")
    /\ UnchangedFinal

(* `git stash push' also succeeds when there is nothing left to save.      *)
StashPush(s) ==
    /\ Goto(s, "push", "rebase")
    /\ stash' = IF CleanCheckout THEN stash
                ELSE <<[edits |-> local, undone |-> undone]>> \o stash
    /\ local' = {} /\ undone' = {}
    /\ stashed' = [stashed EXCEPT ![s] = TRUE]
    /\ UNCHANGED <<runs, repoVars, attempt, sessionErr, done, taskStatus,
                   base, crashes, historyVars>>

-----------------------------------------------------------------------------
(* mergeWorktreeWithConflictResolution, or GitVCS.MergeBranches.           *)

(* In the checkout of base the rebase of base onto itself changes nothing. *)
Rebased(s) == IF RebaseIn[s] = "checkout" THEN onto[s] ELSE Len(base)

Rebase(s) ==
    /\ Goto(s, "rebase", "merge")
    /\ ~rebasing[s]
    /\ onto' = [onto EXCEPT ![s] = Rebased(s)]
    /\ UNCHANGED <<runs, tree, dirty, committed, rebasing, locals, done, taskStatus,
                   base, checkout, crashes, historyVars>>

(* Commits on both sides may conflict; a rebase still in progress is taken *)
(* for a conflict too.                                                     *)
MayConflict(s) == committed[s] /\ onto[s] < Len(base)
IsMergeConflictError(s) == rebasing[s] \/ MayConflict(s)

RebaseConflicts(s) ==
    /\ Goto(s, "rebase", "conflict")
    /\ RebaseIn[s] = "worktree"
    /\ IsMergeConflictError(s)
    /\ attempt[s] < MaxAttempts
    /\ rebasing' = [rebasing EXCEPT ![s] = TRUE]
    /\ attempt' = [attempt EXCEPT ![s] = @ + 1]
    /\ UNCHANGED <<runs, tree, dirty, committed, onto, stashed, sessionErr, done, taskStatus,
                   base, checkout, crashes, historyVars>>

(* The sub-session reports "completed": it has finished the rebase (on the *)
(* base of the time it began), given it up, or left it as it was; in the   *)
(* last round MaxAttempts allows it is no longer in progress.              *)
SubSessionCompletes(s) ==
    /\ Goto(s, "conflict", "rebase")
    /\ \/ /\ rebasing' = [rebasing EXCEPT ![s] = FALSE]
          /\ \E n \in onto[s] .. Len(base) : onto' = [onto EXCEPT ![s] = n]
       \/ attempt[s] < MaxAttempts /\ UNCHANGED <<rebasing, onto>>
    /\ UNCHANGED <<runs, tree, dirty, committed, locals, done, taskStatus,
                   base, checkout, crashes, historyVars>>

\* Mistake: a forced update of base instead of --ff-only.
FastForwardForced(s) == TRUE

(* MergeBranches aborts a rebase that conflicts, ignoring whether it can,  *)
(* and gives up.                                                           *)
RebaseAborted(s) ==
    /\ Goto(s, "rebase", "apply")
    /\ RebaseIn[s] = "branches"
    /\ MayConflict(s)
    /\ \E left \in BOOLEAN : rebasing' = [rebasing EXCEPT ![s] = left]
    /\ UNCHANGED <<runs, tree, dirty, committed, onto, locals, done, taskStatus,
                   base, checkout, crashes, historyVars>>

(* `git merge --ff-only': base becomes the feature branch, if that         *)
(* contains all of base.                                                   *)
FastForward(s) == onto[s] = Len(base)

(* MergeBranches runs it in the checkout of base.  Otherwise it runs in a  *)
(* worktree made for it: the user's checkout keeps its files, and git now  *)
(* shows the merged work as removed.                                       *)
MergeInCheckout(s) == RebaseIn[s] = "branches"
CreateMergeWorktree(s) == undone \cup {Work(s)}

MergeInto(s) ==
    IF committed[s]
    THEN /\ base' = Append(SubSeq(base, 1, onto[s]), Work(s))
         /\ undone' = IF MergeInCheckout(s) THEN undone ELSE CreateMergeWorktree(s)
    ELSE UNCHANGED <<base, undone>>

Merge(s) ==
    /\ Goto(s, "merge", "sync")
    /\ committed[s] => FastForward(s)
    /\ MergeInto(s)
    /\ UNCHANGED <<runs, sessionVars, local, stash, crashes, historyVars>>

\* Mistake: the checkout of the repository itself is skipped by the sync.
SyncSkipsCheckout(s) ==
    /\ Goto(s, "sync", "drop")
    /\ UNCHANGED <<runs, sessionVars, base, checkout, crashes, historyVars>>

(* syncCheckedOutBranchWorktrees: `git reset --hard' in every checkout of  *)
(* base but the one merged in, which for MergeBranches is the user's.      *)
SyncSkipsMergedIn == UNCHANGED <<local, undone>>
SyncCheckout == local' = {} /\ undone' = {}

Sync(s) ==
    /\ Goto(s, "sync", "drop")
    /\ IF MergeInCheckout(s) THEN SyncSkipsMergedIn ELSE SyncCheckout
    /\ UNCHANGED <<runs, sessionVars, base, stash, crashes, historyVars>>

(* Any failure from the rebase on returns early: worktree and branch are   *)
(* kept, the deferred restore runs.                                        *)
GiveUpMerge(s) ==
    /\ \/ Goto(s, "rebase", "apply") /\ ~rebasing[s]
       \/ Goto(s, "conflict", "apply")
       \/ Goto(s, "merge", "apply")
       \/ Goto(s, "sync", "apply")
    /\ UnchangedFinal

-----------------------------------------------------------------------------
(* DropWorktree and DeleteBranch; a failure is reported and ignored.       *)

DropWorktree(s) ==
    /\ Goto(s, "drop", IF s \in Merging THEN "delete" ELSE "summary")
    /\ done' = [done EXCEPT ![s] = TRUE]
    /\ \/ /\ tree' = [tree EXCEPT ![s] = "none"]
          /\ dirty' = [dirty EXCEPT ![s] = FALSE]
       \/ UNCHANGED <<tree, dirty>>
    /\ UNCHANGED <<runs, committed, onto, rebasing, locals, taskStatus,
                   base, checkout, crashes, historyVars>>

(* DeleteBranch removes the worktree first, if it is still there.          *)
DeleteBranch(s) ==
    /\ Goto(s, "delete", "apply")
    /\ \/ /\ tree' = [tree EXCEPT ![s] = "none"]
          /\ dirty' = [dirty EXCEPT ![s] = FALSE]
          /\ committed' = [committed EXCEPT ![s] = FALSE]
       \/ UNCHANGED <<tree, dirty, committed>>
    /\ UNCHANGED <<runs, onto, rebasing, locals, done, taskStatus,
                   base, checkout, crashes, historyVars>>

-----------------------------------------------------------------------------
(* restoreStashedLocalChangesAfterMerge, deferred: apply, then drop.       *)

NothingToRestore(s) ==
    /\ Goto(s, "apply", "summary")
    /\ ~stashed[s]
    /\ UnchangedFinal

StashApply(s) ==
    /\ Goto(s, "apply", "unstash")
    /\ stashed[s] /\ stash # << >>
    /\ local' = local \cup Head(stash).edits
    /\ undone' = undone \cup Head(stash).undone
    /\ UNCHANGED <<runs, sessionVars, base, stash, crashes, historyVars>>

\* Mistake: the stash is dropped before, not after, a failed apply is noticed.
StashApplyFailsAndDrops(s) ==
    /\ Goto(s, "apply", "unstash")
    /\ stashed[s]
    /\ UNCHANGED <<runs, sessionVars, base, checkout, crashes, historyVars>>

(* It fails and the error is printed; or it conflicts, and then the        *)
(* checkout is reset and cleaned and the stash stays.                      *)
StashApplyFails(s) ==
    /\ Goto(s, "apply", "summary")
    /\ stashed[s]
    /\ UNCHANGED <<local, undone>> \/ (stash # << >> /\ local' = {} /\ undone' = {})
    /\ UNCHANGED <<runs, sessionVars, base, stash, crashes, historyVars>>

StashDrop(s) ==
    /\ Goto(s, "unstash", "summary")
    /\ \/ stash # << >> /\ stash' = Tail(stash)
       \/ UNCHANGED stash
    /\ UNCHANGED <<runs, sessionVars, base, local, undone, crashes, historyVars>>

-----------------------------------------------------------------------------
(* The end of RunCommand.  EmitSessionSummary hands back the session's own *)
(* error, or that of saving the summary, and RunCommand returns it.        *)

ExitRun(s) ==
    /\ attempt' = [attempt EXCEPT ![s] = 0]
    /\ stashed' = [stashed EXCEPT ![s] = FALSE]
    /\ sessionErr' = [sessionErr EXCEPT ![s] = FALSE]

EmitSummary(s) ==
    /\ \/ Goto(s, "summary", "task") /\ ~sessionErr[s] /\ UNCHANGED locals
       \/ Goto(s, "summary", "idle") /\ ExitRun(s)
    /\ UNCHANGED <<runs, repoVars, done, taskStatus, base, checkout, crashes, historyVars>>

(* resolveTaskFinalStatusForRun knows of the flag, not of the merge; the   *)
(* update of task.yml may fail.                                            *)
UpdateTask(s) ==
    /\ Goto(s, "task", "idle")
    /\ ExitRun(s)
    /\ \/ taskStatus' = [taskStatus EXCEPT ![s] = IF s \in Merging THEN "merged" ELSE "completed"]
       \/ UNCHANGED taskStatus
    /\ UNCHANGED <<runs, repoVars, done, base, checkout, crashes, historyVars>>

-----------------------------------------------------------------------------
(* The user works in the checkout at any time; a process may be killed     *)
(* between any two commands, and then runs no deferred call.               *)

Meanwhile == \E s \in Sessions :
    pc[s] \in {"rebase", "conflict", "merge", "sync", "drop", "delete", "apply"} /\ s \in Merging

UserEdits(e) ==
    /\ e \notin made
    /\ made' = made \cup {e}
    /\ local' = local \cup {e}
    /\ exposed' = IF Meanwhile THEN exposed \cup {e} ELSE exposed
    /\ UNCHANGED <<pc, runs, sessionVars, base, undone, stash, crashes, produced, overlapped>>

Crash(s) ==
    /\ pc[s] # "idle" /\ crashes < MaxCrashes
    /\ pc' = [pc EXCEPT ![s] = "idle"]
    /\ crashes' = crashes + 1
    /\ ExitRun(s)
    /\ UNCHANGED <<runs, repoVars, done, taskStatus, base, checkout, historyVars>>

SessionStep(s) ==
    \/ Start(s) \/ StartFails(s) \/ SessionEnds(s)
    \/ GenerateMessage(s) \/ GiveUpEarly(s) \/ CommitWorktree(s)
    \/ ReadStatus(s) \/ StashPush(s)
    \/ Rebase(s) \/ RebaseConflicts(s) \/ SubSessionCompletes(s) \/ RebaseAborted(s)
    \/ Merge(s) \/ Sync(s) \/ GiveUpMerge(s)
    \/ DropWorktree(s) \/ DeleteBranch(s)
    \/ NothingToRestore(s) \/ StashApply(s) \/ StashApplyFails(s) \/ StashDrop(s)
    \/ EmitSummary(s) \/ UpdateTask(s)
    \/ Crash(s)

FinalizeNext == (\E s \in Sessions : SessionStep(s)) \/ (\E e \in Edits : UserEdits(e))

FinalizeSpec == FinalizeInit /\ [][FinalizeNext]_finalizeVars

-----------------------------------------------------------------------------
(* Properties.                                                             *)

(* What an agent wrote is not lost, after any failure of any command or a  *)
(* kill: until the branch is run again, it is in the worktree, committed   *)
(* on the feature branch, or merged (worktree.go keeps "worktree and       *)
(* feature branch ... for manual investigation").                          *)
WorkKept ==
    \A s \in Sessions : Work(s) \in produced /\ tree[s] # "missing" =>
        Work(s) \in ToSet(base) \/ dirty[s] \/ committed[s]

(* An edit the user made while no merge was under way stays in the         *)
(* checkout or on the stack of stashes: stash, reset, apply and drop never *)
(* lose one, whichever of them fails (worktree.go, the stash and restore   *)
(* around the merge).                                                      *)
UserChangesKept ==
    made \ exposed \subseteq local \cup UNION {entry.edits : entry \in ToSet(stash)}

(* When a run has merged and cleaned up, the user's checkout of base has   *)
(* the merged work and does not show it as removed                         *)
(* (syncCheckedOutBranchWorktrees, and the restore after it), unless two   *)
(* sessions have finalised at once: then what one has not yet synced is    *)
(* in the other's stash.                                                   *)
MergedIsCheckedOut ==
    ~overlapped =>
        \A s \in Merging : done[s] /\ pc[s] = "idle" => Work(s) \notin undone

(* No run takes a commit out of base: whoever merges, in whatever order,   *)
(* base only grows (merge --ff-only after the rebase).                     *)
BaseOnlyAdvances == [][IsPrefix(base, base')]_finalizeVars

=============================================================================
