----------------------- MODULE WorktreeFinalizeProofs -----------------------
(***************************************************************************)
(* Theorems about WorktreeFinalize, for every set of sessions, every way   *)
(* they merge, every number of runs, rounds and crashes.                   *)
(***************************************************************************)
EXTENDS WorktreeFinalize, FiniteSetTheorems, TLAPS

-----------------------------------------------------------------------------
(* The inductive invariant.                                                *)

\* A run's work is named once: what was written or merged belongs to a run that
\* has begun, and before its commit nothing of a run is on a branch.
NamedOnce(s) ==
    /\ \A n \in 1 .. MaxRuns : <<s, n>> \in produced \cup ToSet(base) => n <= runs[s]
    /\ pc[s] = "session" => Work(s) \notin produced
    /\ pc[s] \in {"session", "message", "commit"} =>
          Work(s) \notin ToSet(base) /\ ~committed[s]

\* The steps after CommitWorktree at which nothing is left uncommitted.
Committed == {"status", "push", "rebase", "conflict", "merge", "sync", "drop", "delete"}

\* Only a later run can take away the directory of the worktree, and after the
\* commit the worktree may go.
WorktreeInStep(s) ==
    /\ pc[s] # "idle" => runs[s] > 0 /\ tree[s] # "missing"
    /\ pc[s] \in Committed => ~dirty[s]
    /\ s \notin Merging => pc[s] \notin (Committed \ {"drop"}) \cup {"apply", "unstash"}

\* From the merge on the branch may go.
MergedBeforeDelete(s) ==
    pc[s] \in {"sync", "delete"} \/ (pc[s] = "drop" /\ s \in Merging) =>
        (committed[s] => Work(s) \in ToSet(base))

KeptBy(s) ==
    Work(s) \in produced /\ tree[s] # "missing" =>
        Work(s) \in ToSet(base) \/ dirty[s] \/ committed[s]

WorkSafe(s) == NamedOnce(s) /\ WorktreeInStep(s) /\ MergedBeforeDelete(s) /\ KeptBy(s)

WorkInv == TypeOK /\ \A s \in Sessions : WorkSafe(s)

\* The steps around which the user's checkout is set aside: entered with a clean
\* one, they leave in it only what the user adds meanwhile.
SetAside == {"rebase", "conflict", "merge", "sync", "drop", "delete", "apply"}

CheckoutSetAside(s) ==
    s \in Merging /\ pc[s] \in SetAside => local \subseteq exposed

\* What is on top of the stack is back in the checkout before it is dropped.
AppliedBeforeDrop(s) ==
    pc[s] = "unstash" /\ stash # << >> => Head(stash).edits \subseteq local

\* The invariant when sessions finalise one at a time.
UserInv ==
    /\ WorkInv
    /\ \A s, t \in Finalizing : s = t
    /\ \A s \in Sessions : CheckoutSetAside(s) /\ AppliedBeforeDrop(s)
    /\ UserChangesKept

-----------------------------------------------------------------------------
(* Facts about the operators.                                              *)

\* `git merge --ff-only' appends the work of the run to base, or leaves it.
LEMMA MergeAppends ==
    ASSUME TypeOK, NEW s \in Sessions, Merge(s)
    PROVE  \/ committed[s] /\ base' = Append(base, Work(s))
           \/ ~committed[s] /\ base' = base /\ undone' = undone
<1>1. CASE committed[s]
  <2>1. onto[s] = Len(base)
    BY <1>1 DEF Merge, FastForward
  <2>2. SubSeq(base, 1, Len(base)) = base
    BY DEF TypeOK
  <2>3. QED
    BY <1>1, <2>1, <2>2 DEF Merge, MergeInto
<1>2. CASE ~committed[s]
  BY <1>2 DEF Merge, MergeInto
<1>3. QED
  BY <1>1, <1>2

LEMMA AppendedWork ==
    ASSUME NEW S, NEW b \in Seq(S), NEW w \in S
    PROVE  /\ Append(b, w) \in Seq(S) /\ Len(Append(b, w)) = Len(b) + 1
           /\ ToSet(Append(b, w)) = ToSet(b) \cup {w}
           /\ IsPrefix(b, Append(b, w))
<1>1. /\ Append(b, w) \in Seq(S) /\ Len(Append(b, w)) = Len(b) + 1
      /\ \A i \in 1 .. Len(b) : Append(b, w)[i] = b[i]
      /\ Append(b, w)[Len(b) + 1] = w
  OBVIOUS
<1>2. ToSet(Append(b, w)) = ToSet(b) \cup {w}
  BY <1>1 DEF ToSet
<1>3. SubSeq(Append(b, w), 1, Len(b)) = SubSeq(b, 1, Len(b))
  BY <1>1
<1>4. QED
  BY <1>1, <1>2, <1>3 DEF IsPrefix

\* A run that has begun has a name among all work.
LEMMA WorkNamed ==
    ASSUME TypeOK, NEW s \in Sessions, runs[s] > 0
    PROVE  Work(s) \in AllWork
  BY DEF TypeOK, Work, AllWork

-----------------------------------------------------------------------------
(* Types                                                                   *)

Entries == [edits : SUBSET Edits, undone : SUBSET AllWork]

LEMMA TopTyped ==
    ASSUME NEW S, NEW q \in Seq(S), q # << >>
    PROVE  Head(q) \in S /\ Tail(q) \in Seq(S)
  OBVIOUS

LEMMA TypeInit == FinalizeInit => TypeOK
<1>1. FinalizeInit => overlapped \in BOOLEAN
  BY DEF FinalizeInit
<1>2. QED
  BY <1>1, FinalizeAssumption DEF FinalizeInit, TypeOK, Steps

LEMMA TypeStep ==
    ASSUME TypeOK, NEW s \in Sessions, WorktreeInStep(s), SessionStep(s)
    PROVE  TypeOK'
<1> USE FinalizeAssumption DEF TypeOK, Steps, finalizeVars, sessionVars, repoVars, locals, checkout, historyVars, Goto
<1>1. CASE Start(s)
  BY <1>1 DEF Start, NewBranch, GetWorktree
<1>2. CASE StartFails(s)
  BY <1>2 DEF StartFails
<1>3. CASE SessionEnds(s)
  <2>1. Work(s) \in AllWork
    BY <1>3, WorkNamed DEF SessionEnds, WorktreeInStep
  <2>2. produced' \subseteq AllWork
    BY <1>3, <2>1 DEF SessionEnds
  <2>3. dirty' \in [Sessions -> BOOLEAN] /\ sessionErr' \in [Sessions -> BOOLEAN]
    BY <1>3 DEF SessionEnds
  <2>4. QED
    BY <1>3, <2>2, <2>3 DEF SessionEnds
<1>4. CASE GenerateMessage(s)
  BY <1>4 DEF GenerateMessage, UnchangedFinal
<1>5. CASE GiveUpEarly(s)
  BY <1>5 DEF GiveUpEarly, UnchangedFinal
<1>6. CASE CommitWorktree(s)
  BY <1>6 DEF CommitWorktree
<1>7. CASE ReadStatus(s)
  BY <1>7 DEF ReadStatus, UnchangedFinal
<1>8. CASE StashPush(s)
  <2>1. stash' \in Seq(Entries)
    <3>1. [edits |-> local, undone |-> undone] \in Entries
      BY DEF Entries
    <3>2. <<[edits |-> local, undone |-> undone]>> \o stash \in Seq(Entries)
      BY <3>1 DEF Entries
    <3>3. QED
      BY <1>8, <3>2 DEF StashPush, Entries
  <2>2. QED
    BY <1>8, <2>1 DEF StashPush, Entries
<1>9. CASE Rebase(s)
  BY <1>9 DEF Rebase, Rebased
<1>10. CASE RebaseConflicts(s)
  BY <1>10 DEF RebaseConflicts
<1>11. CASE SubSessionCompletes(s)
  <2>1. onto' \in [Sessions -> 0 .. Len(base)]
    <3>1. ASSUME NEW n \in onto[s] .. Len(base) PROVE n \in 0 .. Len(base)
      BY <3>1
    <3>2. QED
      BY <1>11, <3>1 DEF SubSessionCompletes
  <2>2. rebasing' \in [Sessions -> BOOLEAN]
    BY <1>11 DEF SubSessionCompletes
  <2>3. QED
    BY <1>11, <2>1, <2>2 DEF SubSessionCompletes
<1>12. CASE RebaseAborted(s)
  BY <1>12 DEF RebaseAborted
<1>13. CASE Merge(s)
  <2>1. Work(s) \in AllWork
    BY <1>13, WorkNamed DEF Merge, WorktreeInStep
  <2>2. base' \in Seq(AllWork) /\ Len(base') \in {Len(base), Len(base) + 1}
    <3>1. base' \in {base, Append(base, Work(s))}
      BY <1>13, MergeAppends
    <3>2. base \in Seq(AllWork) /\ Len(base) \in Nat
      OBVIOUS
    <3>3. /\ Append(base, Work(s)) \in Seq(AllWork)
          /\ Len(Append(base, Work(s))) = Len(base) + 1
      BY <2>1, <3>2, AppendedWork
    <3>4. QED
      BY <3>1, <3>2, <3>3
  <2>3. undone' \subseteq AllWork
    BY <1>13, <2>1 DEF Merge, MergeInto, CreateMergeWorktree
  <2>4. onto' \in [Sessions -> 0 .. Len(base')]
    BY <1>13, <2>2 DEF Merge
  <2>5. QED
    BY <1>13, <2>2, <2>3, <2>4 DEF Merge
<1>14. CASE Sync(s)
  BY <1>14 DEF Sync, SyncSkipsMergedIn, SyncCheckout
<1>15. CASE GiveUpMerge(s)
  BY <1>15 DEF GiveUpMerge, UnchangedFinal
<1>16. CASE DropWorktree(s)
  BY <1>16 DEF DropWorktree
<1>17. CASE DeleteBranch(s)
  BY <1>17 DEF DeleteBranch
<1>18. CASE NothingToRestore(s)
  BY <1>18 DEF NothingToRestore, UnchangedFinal
<1>19. CASE StashApply(s)
  <2>1. Head(stash) \in Entries
    BY <1>19, TopTyped DEF StashApply, Entries
  <2>2. Head(stash).edits \subseteq Edits /\ Head(stash).undone \subseteq AllWork
    BY <2>1 DEF Entries
  <2>3. QED
    BY <1>19, <2>2 DEF StashApply
<1>20. CASE StashApplyFails(s)
  BY <1>20 DEF StashApplyFails
<1>21. CASE StashDrop(s)
  <2>1. ASSUME stash # << >> PROVE Tail(stash) \in Seq(Entries)
    BY <2>1 DEF Entries
  <2>2. stash' \in Seq(Entries)
    BY <1>21, <2>1 DEF StashDrop, Entries
  <2>3. QED
    BY <1>21, <2>2 DEF StashDrop, Entries
<1>22. CASE EmitSummary(s)
  <2>1. /\ attempt' \in [Sessions -> 0 .. MaxAttempts]
        /\ stashed' \in [Sessions -> BOOLEAN] /\ sessionErr' \in [Sessions -> BOOLEAN]
    <3>1. CASE UNCHANGED locals
      BY <3>1
    <3>2. CASE ExitRun(s)
      BY <3>2 DEF ExitRun
    <3>3. QED
      BY <1>22, <3>1, <3>2 DEF EmitSummary
  <2>2. pc' \in [Sessions -> Steps]
    BY <1>22 DEF EmitSummary
  <2>3. QED
    BY <1>22, <2>1, <2>2 DEF EmitSummary
<1>23. CASE UpdateTask(s)
  BY <1>23 DEF UpdateTask, ExitRun
<1>24. CASE Crash(s)
  BY <1>24 DEF Crash, ExitRun
<1>25. QED
  BY <1>1, <1>2, <1>3, <1>4, <1>5, <1>6, <1>7, <1>8, <1>9, <1>10, <1>11, <1>12, <1>13, <1>14, <1>15, <1>16, <1>17, <1>18, <1>19, <1>20, <1>21, <1>22, <1>23, <1>24 DEF SessionStep

-----------------------------------------------------------------------------
(* No work is lost.                                                        *)

\* A step of a session moves no other, and adds only its own work to base and to
\* what was produced.
LEMMA OthersStay ==
    ASSUME TypeOK, NEW s \in Sessions, SessionStep(s), NEW t \in Sessions, t # s
    PROVE  /\ pc'[t] = pc[t] /\ runs'[t] = runs[t] /\ tree'[t] = tree[t]
           /\ dirty'[t] = dirty[t] /\ committed'[t] = committed[t] /\ done'[t] = done[t]
<1> USE DEF TypeOK, finalizeVars, sessionVars, repoVars, locals, checkout, historyVars, Goto
<1>1. CASE Start(s)
  BY <1>1 DEF Start, NewBranch, GetWorktree
<1>2. CASE StartFails(s)
  BY <1>2 DEF StartFails
<1>3. CASE SessionEnds(s)
  BY <1>3 DEF SessionEnds
<1>4. CASE GenerateMessage(s)
  BY <1>4 DEF GenerateMessage, UnchangedFinal
<1>5. CASE GiveUpEarly(s)
  BY <1>5 DEF GiveUpEarly, UnchangedFinal
<1>6. CASE CommitWorktree(s)
  BY <1>6 DEF CommitWorktree
<1>7. CASE ReadStatus(s)
  BY <1>7 DEF ReadStatus, UnchangedFinal
<1>8. CASE StashPush(s)
  BY <1>8 DEF StashPush
<1>9. CASE Rebase(s)
  BY <1>9 DEF Rebase
<1>10. CASE RebaseConflicts(s)
  BY <1>10 DEF RebaseConflicts
<1>11. CASE SubSessionCompletes(s)
  BY <1>11 DEF SubSessionCompletes
<1>12. CASE RebaseAborted(s)
  BY <1>12 DEF RebaseAborted
<1>13. CASE Merge(s)
  BY <1>13 DEF Merge
<1>14. CASE Sync(s)
  BY <1>14 DEF Sync
<1>15. CASE GiveUpMerge(s)
  BY <1>15 DEF GiveUpMerge, UnchangedFinal
<1>16. CASE DropWorktree(s)
  BY <1>16 DEF DropWorktree
<1>17. CASE DeleteBranch(s)
  BY <1>17 DEF DeleteBranch
<1>18. CASE NothingToRestore(s)
  BY <1>18 DEF NothingToRestore, UnchangedFinal
<1>19. CASE StashApply(s)
  BY <1>19 DEF StashApply
<1>20. CASE StashApplyFails(s)
  BY <1>20 DEF StashApplyFails
<1>21. CASE StashDrop(s)
  BY <1>21 DEF StashDrop
<1>22. CASE EmitSummary(s)
  BY <1>22 DEF EmitSummary
<1>23. CASE UpdateTask(s)
  BY <1>23 DEF UpdateTask
<1>24. CASE Crash(s)
  BY <1>24 DEF Crash
<1>25. QED
  BY <1>1, <1>2, <1>3, <1>4, <1>5, <1>6, <1>7, <1>8, <1>9, <1>10, <1>11, <1>12, <1>13, <1>14, <1>15, <1>16, <1>17, <1>18, <1>19, <1>20, <1>21, <1>22, <1>23, <1>24 DEF SessionStep

LEMMA BaseSteps ==
    ASSUME TypeOK, NEW s \in Sessions, WorktreeInStep(s), SessionStep(s)
    PROVE  \/ UNCHANGED base
           \/ Merge(s) /\ committed[s] /\ Work(s) \in AllWork /\ base' = Append(base, Work(s))
<1>1. CASE Merge(s)
  <2>1. runs[s] > 0
    BY <1>1 DEF Merge, Goto, WorktreeInStep
  <2>2. QED
    BY <1>1, <2>1, MergeAppends, WorkNamed
<1>2. CASE ~Merge(s)
  BY <1>2 DEF SessionStep, Start, StartFails, SessionEnds, GenerateMessage, GiveUpEarly,
     CommitWorktree, ReadStatus, StashPush, Rebase, RebaseConflicts, SubSessionCompletes,
     RebaseAborted, Sync, GiveUpMerge, DropWorktree, DeleteBranch, NothingToRestore,
     StashApply, StashApplyFails, StashDrop, EmitSummary, UpdateTask, Crash, UnchangedFinal
<1>3. QED
  BY <1>1, <1>2

LEMMA MergeGrows ==
    ASSUME TypeOK, NEW s \in Sessions, WorktreeInStep(s), Merge(s)
    PROVE  /\ ToSet(base') \in {ToSet(base), ToSet(base) \cup {Work(s)}}
           /\ committed[s] => Work(s) \in ToSet(base')
<1>1. CASE ~committed[s]
  BY <1>1, MergeAppends
<1>2. CASE committed[s]
  <2>1. base' = Append(base, Work(s))
    BY <1>2, MergeAppends
  <2>2. Work(s) \in AllWork
    BY WorkNamed DEF Merge, Goto, WorktreeInStep
  <2>3. base \in Seq(AllWork)
    BY DEF TypeOK
  <2>4. ToSet(base') = ToSet(base) \cup {Work(s)}
    BY <2>1, <2>2, <2>3, AppendedWork
  <2>5. QED
    BY <2>4
<1>3. QED
  BY <1>1, <1>2

LEMMA ProducedSteps ==
    ASSUME NEW s \in Sessions, SessionStep(s)
    PROVE  UNCHANGED produced \/ SessionEnds(s)
  BY DEF SessionStep, Start, StartFails, SessionEnds, GenerateMessage, GiveUpEarly, historyVars,
     CommitWorktree, ReadStatus, StashPush, Rebase, RebaseConflicts, SubSessionCompletes,
     RebaseAborted, Merge, Sync, GiveUpMerge, DropWorktree, DeleteBranch, NothingToRestore,
     StashApply, StashApplyFails, StashDrop, EmitSummary, UpdateTask, Crash, UnchangedFinal

\* A step of a session keeps the work of that session.
LEMMA OwnWorkKept ==
    ASSUME TypeOK, NEW s \in Sessions, WorkSafe(s), SessionStep(s)
    PROVE  WorkSafe(s)'
<1> USE DEF TypeOK, finalizeVars, sessionVars, repoVars, locals, checkout, historyVars, Goto
<1> USE DEF WorkSafe, NamedOnce, WorktreeInStep, MergedBeforeDelete, KeptBy, Committed, Work
<1>1. CASE Start(s)
  <2>1. /\ runs'[s] = runs[s] + 1 /\ runs'[s] \in 1 .. MaxRuns /\ pc'[s] = "session"
        /\ tree'[s] = "present" /\ committed'[s] = FALSE
        /\ produced' = produced /\ base' = base
    BY <1>1, FinalizeAssumption DEF Start, NewBranch, GetWorktree
  <2>2. <<s, runs'[s]>> \notin produced \cup ToSet(base)
    BY <2>1
  <2>3. \A n \in 1 .. MaxRuns : n <= runs[s] => n <= runs'[s]
    BY <2>1
  <2>4. QED
    BY <2>1, <2>2, <2>3
<1>2. CASE StartFails(s)
  BY <1>2 DEF StartFails
<1>3. CASE SessionEnds(s)
  BY <1>3 DEF SessionEnds
<1>4. CASE GenerateMessage(s)
  BY <1>4 DEF GenerateMessage, UnchangedFinal
<1>5. CASE GiveUpEarly(s)
  BY <1>5 DEF GiveUpEarly, UnchangedFinal
<1>6. CASE CommitWorktree(s)
  BY <1>6 DEF CommitWorktree
<1>7. CASE ReadStatus(s)
  BY <1>7 DEF ReadStatus, UnchangedFinal
<1>8. CASE StashPush(s)
  BY <1>8 DEF StashPush
<1>9. CASE Rebase(s)
  BY <1>9 DEF Rebase
<1>10. CASE RebaseConflicts(s)
  BY <1>10 DEF RebaseConflicts
<1>11. CASE SubSessionCompletes(s)
  BY <1>11 DEF SubSessionCompletes
<1>12. CASE RebaseAborted(s)
  BY <1>12 DEF RebaseAborted
<1>13. CASE Merge(s)
  <2>1. /\ ToSet(base') \in {ToSet(base), ToSet(base) \cup {Work(s)}}
        /\ committed[s] => Work(s) \in ToSet(base')
    BY <1>13, MergeGrows
  <2>2. /\ pc[s] = "merge" /\ pc'[s] = "sync" /\ runs' = runs /\ tree' = tree
        /\ dirty' = dirty /\ committed' = committed /\ produced' = produced
    BY <1>13 DEF Merge
  <2>3. \A n \in 1 .. MaxRuns : <<s, n>> = Work(s) => n <= runs[s]
    OBVIOUS
  <2>4. QED
    BY <2>1, <2>2, <2>3
<1>14. CASE Sync(s)
  BY <1>14 DEF Sync
<1>15. CASE GiveUpMerge(s)
  BY <1>15 DEF GiveUpMerge, UnchangedFinal
<1>16. CASE DropWorktree(s)
  BY <1>16 DEF DropWorktree
<1>17. CASE DeleteBranch(s)
  BY <1>17 DEF DeleteBranch
<1>18. CASE NothingToRestore(s)
  BY <1>18 DEF NothingToRestore, UnchangedFinal
<1>19. CASE StashApply(s)
  BY <1>19 DEF StashApply
<1>20. CASE StashApplyFails(s)
  BY <1>20 DEF StashApplyFails
<1>21. CASE StashDrop(s)
  BY <1>21 DEF StashDrop
<1>22. CASE EmitSummary(s)
  BY <1>22 DEF EmitSummary
<1>23. CASE UpdateTask(s)
  BY <1>23 DEF UpdateTask
<1>24. CASE Crash(s)
  BY <1>24 DEF Crash
<1>25. QED
  BY <1>1, <1>2, <1>3, <1>4, <1>5, <1>6, <1>7, <1>8, <1>9, <1>10, <1>11, <1>12, <1>13, <1>14, <1>15, <1>16, <1>17, <1>18, <1>19, <1>20, <1>21, <1>22, <1>23, <1>24 DEF SessionStep

LEMMA OtherWorkKept ==
    ASSUME TypeOK, NEW s \in Sessions, WorkSafe(s), SessionStep(s),
           NEW t \in Sessions, t # s, WorkSafe(t)
    PROVE  WorkSafe(t)'
<1>1. /\ pc'[t] = pc[t] /\ runs'[t] = runs[t] /\ tree'[t] = tree[t]
      /\ dirty'[t] = dirty[t] /\ committed'[t] = committed[t]
  BY OthersStay
<1>2. \A n \in 1 .. MaxRuns : <<t, n>> # Work(s)
  BY DEF Work
<1>3. Work(t) # Work(s)
  BY DEF Work
<1>4. ToSet(base') \in {ToSet(base), ToSet(base) \cup {Work(s)}}
  <2>1. CASE UNCHANGED base
    BY <2>1
  <2>2. CASE Work(s) \in AllWork /\ base' = Append(base, Work(s))
    BY <2>2, AppendedWork DEF TypeOK
  <2>3. QED
    BY <2>1, <2>2, BaseSteps DEF WorkSafe
<1>5. produced' \in {produced, produced \cup {Work(s)}}
  BY ProducedSteps DEF SessionEnds, historyVars
<1>6. Work(t)' = Work(t)
  BY <1>1 DEF Work
<1>7. QED
  BY <1>1, <1>2, <1>3, <1>4, <1>5, <1>6
  DEF WorkSafe, NamedOnce, WorktreeInStep, MergedBeforeDelete, KeptBy

LEMMA UserTyped == ASSUME TypeOK, NEW e \in Edits, UserEdits(e) PROVE TypeOK'
  BY DEF UserEdits, TypeOK, sessionVars, repoVars, locals

LEMMA WorkInit == FinalizeInit => WorkInv
<1> SUFFICES ASSUME FinalizeInit PROVE WorkInv
  OBVIOUS
<1>1. ToSet(base) = {} /\ produced = {}
  BY DEF FinalizeInit, ToSet
<1>2. QED
  BY <1>1, TypeInit DEF FinalizeInit, WorkInv, WorkSafe, NamedOnce, WorktreeInStep,
     MergedBeforeDelete, KeptBy, Committed

LEMMA WorkNext == WorkInv /\ [FinalizeNext]_finalizeVars => WorkInv'
<1>1. ASSUME WorkInv, NEW s \in Sessions, SessionStep(s) PROVE WorkInv'
  <2>1. TypeOK'
    BY <1>1, TypeStep DEF WorkInv, WorkSafe
  <2>2. ASSUME NEW t \in Sessions PROVE WorkSafe(t)'
    <3>1. CASE t = s
      BY <1>1, <3>1, OwnWorkKept DEF WorkInv
    <3>2. CASE t # s
      BY <1>1, <3>2, OtherWorkKept DEF WorkInv
    <3>3. QED
      BY <3>1, <3>2
  <2>3. QED
    BY <2>1, <2>2 DEF WorkInv
<1>2. ASSUME WorkInv, NEW e \in Edits, UserEdits(e) PROVE WorkInv'
  <2>1. TypeOK'
    BY <1>2, UserTyped DEF WorkInv
  <2>2. /\ UNCHANGED <<pc, runs, tree, dirty, committed, base, produced>>
    BY <1>2 DEF UserEdits, sessionVars, repoVars
  <2>3. ASSUME NEW t \in Sessions PROVE WorkSafe(t)'
    BY <1>2, <2>2 DEF WorkInv, WorkSafe, NamedOnce, WorktreeInStep, MergedBeforeDelete,
       KeptBy, Work
  <2>4. QED
    BY <2>1, <2>3 DEF WorkInv
<1>3. ASSUME WorkInv, UNCHANGED finalizeVars PROVE WorkInv'
  BY <1>3 DEF WorkInv, WorkSafe, NamedOnce, WorktreeInStep, MergedBeforeDelete, KeptBy, Work,
     finalizeVars, TypeOK, sessionVars, repoVars, locals, checkout, historyVars
<1>4. QED
  BY <1>1, <1>2, <1>3 DEF FinalizeNext

\* FinalizeWorktreeSession, DropWorktree and DeleteBranch keep what the agent wrote
\* through every failure and crash, until the branch is run again.
THEOREM WorkIsKept == FinalizeSpec => []WorkKept
<1>1. WorkInv => WorkKept
  BY DEF WorkInv, WorkSafe, KeptBy, WorkKept
<1>2. QED
  BY <1>1, WorkInit, WorkNext, PTL DEF FinalizeSpec

\* The variables keep their types: a feature branch is never ahead of base.
THEOREM FinalizeTyped == FinalizeSpec => []TypeOK
<1>1. WorkInv => TypeOK
  BY DEF WorkInv
<1>2. QED
  BY <1>1, WorkInit, WorkNext, PTL DEF FinalizeSpec

\* Whoever merges, in whatever order, no commit is taken out of base.
THEOREM BaseAdvances == FinalizeSpec => BaseOnlyAdvances
<1>1. WorkInv /\ [FinalizeNext]_finalizeVars => [IsPrefix(base, base')]_finalizeVars
  <2>1. ASSUME WorkInv, UNCHANGED base PROVE IsPrefix(base, base')
    BY <2>1 DEF WorkInv, TypeOK, IsPrefix
  <2>2. ASSUME WorkInv, NEW s \in Sessions, SessionStep(s) PROVE IsPrefix(base, base')
    <3>1. CASE UNCHANGED base
      BY <2>1, <2>2, <3>1
    <3>2. CASE Work(s) \in AllWork /\ base' = Append(base, Work(s))
      BY <2>2, <3>2, AppendedWork DEF WorkInv, TypeOK
    <3>3. QED
      BY <2>2, <3>1, <3>2, BaseSteps DEF WorkInv, WorkSafe
  <2>3. ASSUME WorkInv, NEW e \in Edits, UserEdits(e) PROVE IsPrefix(base, base')
    BY <2>1, <2>3 DEF UserEdits
  <2>4. QED
    BY <2>2, <2>3 DEF FinalizeNext
<1>2. QED
  BY <1>1, WorkInit, WorkNext, PTL DEF FinalizeSpec, BaseOnlyAdvances


-----------------------------------------------------------------------------
(* No change of the user is lost.                                          *)

StashedEdits(q) == UNION {entry.edits : entry \in ToSet(q)}

LEMMA PushedEntry ==
    ASSUME NEW q \in Seq(Entries), NEW entry \in Entries
    PROVE  ToSet(<<entry>> \o q) = {entry} \cup ToSet(q)
<1> DEFINE p == <<entry>> \o q
<1>1. /\ DOMAIN p = 1 .. Len(q) + 1 /\ DOMAIN q = 1 .. Len(q) /\ p[1] = entry
      /\ 1 \in 1 .. Len(q) + 1
      /\ \A i \in 1 .. Len(q) : i + 1 \in 1 .. Len(q) + 1 /\ p[i + 1] = q[i]
      /\ \A i \in 2 .. Len(q) + 1 : p[i] = q[i - 1] /\ i - 1 \in 1 .. Len(q)
      /\ \A i \in 1 .. Len(q) + 1 : i = 1 \/ i \in 2 .. Len(q) + 1
  OBVIOUS
<1> HIDE DEF p
<1>2. ASSUME NEW x \in ToSet(p) PROVE x \in {entry} \cup ToSet(q)
  BY <1>1, <1>2 DEF ToSet
<1>3. ASSUME NEW x \in ToSet(q) PROVE x \in ToSet(p)
  BY <1>1, <1>3 DEF ToSet
<1>4. entry \in ToSet(p)
  BY <1>1 DEF ToSet
<1>5. ToSet(p) = {entry} \cup ToSet(q)
  BY <1>2, <1>3, <1>4
<1>6. QED
  BY <1>5 DEF p

LEMMA PoppedEntry ==
    ASSUME NEW q \in Seq(Entries), q # << >>
    PROVE  ToSet(q) = {Head(q)} \cup ToSet(Tail(q))
<1>1. /\ DOMAIN q = 1 .. Len(q) /\ DOMAIN Tail(q) = 1 .. Len(q) - 1 /\ Head(q) = q[1]
      /\ \A i \in 2 .. Len(q) : Tail(q)[i - 1] = q[i] /\ i - 1 \in 1 .. Len(q) - 1
      /\ \A i \in 1 .. Len(q) - 1 : Tail(q)[i] = q[i + 1] /\ i + 1 \in 1 .. Len(q)
      /\ 1 \in 1 .. Len(q)
  OBVIOUS
<1>2. ASSUME NEW i \in 1 .. Len(q) PROVE q[i] \in {Head(q)} \cup ToSet(Tail(q))
  <2>1. CASE i = 1
    BY <1>1, <2>1
  <2>2. CASE i \in 2 .. Len(q)
    BY <1>1, <2>2 DEF ToSet
  <2>3. QED
    BY <2>1, <2>2
<1>3. ToSet(q) \subseteq {Head(q)} \cup ToSet(Tail(q))
  BY <1>1, <1>2 DEF ToSet
<1>4. Head(q) \in ToSet(q)
  BY <1>1 DEF ToSet
<1>5. ASSUME NEW x \in ToSet(Tail(q)) PROVE x \in ToSet(q)
  BY <1>1, <1>5 DEF ToSet
<1>6. QED
  BY <1>3, <1>4, <1>5

LEMMA PushedEdits ==
    ASSUME NEW q \in Seq(Entries), NEW entry \in Entries
    PROVE  StashedEdits(<<entry>> \o q) = entry.edits \cup StashedEdits(q)
<1>1. UNION {e.edits : e \in {entry} \cup ToSet(q)} = entry.edits \cup UNION {e.edits : e \in ToSet(q)}
  BY Zenon
<1>2. QED
  BY <1>1, PushedEntry DEF StashedEdits

LEMMA PoppedEdits ==
    ASSUME NEW q \in Seq(Entries), q # << >>
    PROVE  StashedEdits(q) \subseteq Head(q).edits \cup StashedEdits(Tail(q))
  BY PoppedEntry DEF StashedEdits

\* Outside its finalisation a session leaves the checkout and the stashes alone.
LEMMA OnlyFinalizingTouches ==
    ASSUME NEW s \in Sessions, SessionStep(s)
    PROVE  /\ UNCHANGED <<made, exposed>>
           /\ s \notin Finalizing => UNCHANGED <<local, undone, stash>>
           /\ \/ UNCHANGED <<local, stash>> \/ StashPush(s) \/ Sync(s) \/ StashApply(s)
              \/ StashApplyFails(s) \/ StashDrop(s)
<1> USE DEF finalizeVars, sessionVars, repoVars, locals, checkout, historyVars, Goto, Finalizing
<1>1. CASE Start(s)
  BY <1>1 DEF Start, NewBranch, GetWorktree
<1>2. CASE StartFails(s)
  BY <1>2 DEF StartFails
<1>3. CASE SessionEnds(s)
  BY <1>3 DEF SessionEnds
<1>4. CASE GenerateMessage(s)
  BY <1>4 DEF GenerateMessage, UnchangedFinal
<1>5. CASE GiveUpEarly(s)
  BY <1>5 DEF GiveUpEarly, UnchangedFinal
<1>6. CASE CommitWorktree(s)
  BY <1>6 DEF CommitWorktree
<1>7. CASE ReadStatus(s)
  BY <1>7 DEF ReadStatus, UnchangedFinal, CleanCheckout
<1>8. CASE StashPush(s)
  BY <1>8 DEF StashPush
<1>9. CASE Rebase(s)
  BY <1>9 DEF Rebase
<1>10. CASE RebaseConflicts(s)
  BY <1>10 DEF RebaseConflicts
<1>11. CASE SubSessionCompletes(s)
  BY <1>11 DEF SubSessionCompletes
<1>12. CASE RebaseAborted(s)
  BY <1>12 DEF RebaseAborted
<1>13. CASE Merge(s)
  BY <1>13 DEF Merge
<1>14. CASE Sync(s)
  BY <1>14 DEF Sync, SyncSkipsMergedIn, SyncCheckout
<1>15. CASE GiveUpMerge(s)
  BY <1>15 DEF GiveUpMerge, UnchangedFinal
<1>16. CASE DropWorktree(s)
  BY <1>16 DEF DropWorktree
<1>17. CASE DeleteBranch(s)
  BY <1>17 DEF DeleteBranch
<1>18. CASE NothingToRestore(s)
  BY <1>18 DEF NothingToRestore, UnchangedFinal
<1>19. CASE StashApply(s)
  BY <1>19 DEF StashApply
<1>20. CASE StashApplyFails(s)
  BY <1>20 DEF StashApplyFails
<1>21. CASE StashDrop(s)
  BY <1>21 DEF StashDrop
<1>22. CASE EmitSummary(s)
  BY <1>22 DEF EmitSummary
<1>23. CASE UpdateTask(s)
  BY <1>23 DEF UpdateTask
<1>24. CASE Crash(s)
  BY <1>24 DEF Crash
<1>25. QED
  BY <1>1, <1>2, <1>3, <1>4, <1>5, <1>6, <1>7, <1>8, <1>9, <1>10, <1>11, <1>12, <1>13, <1>14, <1>15, <1>16, <1>17, <1>18, <1>19, <1>20, <1>21, <1>22, <1>23, <1>24 DEF SessionStep

\* A session begins to finalise only when SessionEnds allows it.
LEMMA FinalizingSteps ==
    ASSUME TypeOK, NEW s \in Sessions, SessionStep(s)
    PROVE  \/ Finalizing' \subseteq Finalizing
           \/ /\ SessionEnds(s)
              /\ Finalizing' = Finalizing \cup {s}
              /\ Cardinality(Finalizing) < MaxFinalizing
<1>1. \A t \in Sessions : t # s => pc'[t] = pc[t]
  BY OthersStay
<1>2. CASE SessionEnds(s)
  BY <1>1, <1>2 DEF SessionEnds, Goto, Finalizing
<1>3. CASE ~SessionEnds(s)
  <2>1. pc[s] \in {"idle", "session"} => pc'[s] \in {"idle", "session"}
    BY <1>3 DEF SessionStep, Start, StartFails, GenerateMessage, GiveUpEarly,
       CommitWorktree, ReadStatus, StashPush, Rebase, RebaseConflicts, SubSessionCompletes,
       RebaseAborted, Merge, Sync, GiveUpMerge, DropWorktree, DeleteBranch, NothingToRestore,
       StashApply, StashApplyFails, StashDrop, EmitSummary, UpdateTask, Crash, Goto, TypeOK
  <2>2. QED
    BY <1>1, <2>1 DEF Finalizing
<1>4. QED
  BY <1>2, <1>3

LEMMA OneFinalizes ==
    ASSUME TypeOK, MaxFinalizing = 1, NEW s \in Sessions, SessionStep(s),
           \A t, u \in Finalizing : t = u
    PROVE  \A t, u \in Finalizing' : t = u
<1>1. CASE Finalizing' \subseteq Finalizing
  BY <1>1
<1>2. CASE Finalizing' = Finalizing \cup {s} /\ Cardinality(Finalizing) < MaxFinalizing
  <2>1. IsFiniteSet(Finalizing) /\ Cardinality(Finalizing) \in Nat
    BY FinalizeAssumption, FS_Subset, FS_CardinalityType DEF Finalizing
  <2>2. Finalizing = {}
    BY <1>2, <2>1, FS_EmptySet
  <2>3. QED
    BY <1>2, <2>2
<1>3. QED
  BY <1>1, <1>2, FinalizingSteps

\* A step of a session leaves in its set-aside checkout what the user added.
LEMMA OwnCheckoutSetAside ==
    ASSUME TypeOK, NEW s \in Sessions, WorktreeInStep(s), CheckoutSetAside(s),
           AppliedBeforeDrop(s), SessionStep(s)
    PROVE  CheckoutSetAside(s)' /\ AppliedBeforeDrop(s)'
<1> USE DEF TypeOK, finalizeVars, sessionVars, repoVars, locals, checkout, historyVars, Goto
<1> USE DEF WorktreeInStep, CheckoutSetAside, AppliedBeforeDrop, SetAside, Committed
<1>1. CASE Start(s)
  BY <1>1 DEF Start, NewBranch, GetWorktree
<1>2. CASE StartFails(s)
  BY <1>2 DEF StartFails
<1>3. CASE SessionEnds(s)
  BY <1>3 DEF SessionEnds
<1>4. CASE GenerateMessage(s)
  BY <1>4 DEF GenerateMessage, UnchangedFinal
<1>5. CASE GiveUpEarly(s)
  BY <1>5 DEF GiveUpEarly, UnchangedFinal
<1>6. CASE CommitWorktree(s)
  BY <1>6 DEF CommitWorktree
<1>7. CASE ReadStatus(s)
  BY <1>7 DEF ReadStatus, UnchangedFinal, CleanCheckout
<1>8. CASE StashPush(s)
  BY <1>8 DEF StashPush
<1>9. CASE Rebase(s)
  BY <1>9 DEF Rebase
<1>10. CASE RebaseConflicts(s)
  BY <1>10 DEF RebaseConflicts
<1>11. CASE SubSessionCompletes(s)
  BY <1>11 DEF SubSessionCompletes
<1>12. CASE RebaseAborted(s)
  BY <1>12 DEF RebaseAborted
<1>13. CASE Merge(s)
  BY <1>13 DEF Merge
<1>14. CASE Sync(s)
  BY <1>14 DEF Sync, SyncSkipsMergedIn, SyncCheckout
<1>15. CASE GiveUpMerge(s)
  BY <1>15 DEF GiveUpMerge, UnchangedFinal
<1>16. CASE DropWorktree(s)
  BY <1>16 DEF DropWorktree
<1>17. CASE DeleteBranch(s)
  BY <1>17 DEF DeleteBranch
<1>18. CASE NothingToRestore(s)
  BY <1>18 DEF NothingToRestore, UnchangedFinal
<1>19. CASE StashApply(s)
  BY <1>19 DEF StashApply
<1>20. CASE StashApplyFails(s)
  BY <1>20 DEF StashApplyFails
<1>21. CASE StashDrop(s)
  BY <1>21 DEF StashDrop
<1>22. CASE EmitSummary(s)
  BY <1>22 DEF EmitSummary
<1>23. CASE UpdateTask(s)
  BY <1>23 DEF UpdateTask
<1>24. CASE Crash(s)
  BY <1>24 DEF Crash
<1>25. QED
  BY <1>1, <1>2, <1>3, <1>4, <1>5, <1>6, <1>7, <1>8, <1>9, <1>10, <1>11, <1>12, <1>13, <1>14, <1>15, <1>16, <1>17, <1>18, <1>19, <1>20, <1>21, <1>22, <1>23, <1>24 DEF SessionStep

LEMMA OtherCheckoutSetAside ==
    ASSUME TypeOK, NEW s \in Sessions, SessionStep(s), NEW t \in Sessions, t # s,
           \A u, v \in Finalizing : u = v, CheckoutSetAside(t), AppliedBeforeDrop(t)
    PROVE  CheckoutSetAside(t)' /\ AppliedBeforeDrop(t)'
<1>1. pc'[t] = pc[t]
  BY OthersStay
<1>2. CASE t \in Finalizing
  <2>1. UNCHANGED <<local, stash, exposed>>
    BY <1>2, OnlyFinalizingTouches
  <2>2. QED
    BY <1>1, <2>1 DEF CheckoutSetAside, AppliedBeforeDrop
<1>3. CASE t \notin Finalizing
  BY <1>1, <1>3 DEF CheckoutSetAside, AppliedBeforeDrop, Finalizing, SetAside
<1>4. QED
  BY <1>2, <1>3

LEMMA SessionKeepsChanges ==
    ASSUME TypeOK, UserChangesKept, NEW s \in Sessions, WorktreeInStep(s),
           CheckoutSetAside(s), AppliedBeforeDrop(s), SessionStep(s)
    PROVE  UserChangesKept'
<1> DEFINE mine == made \ exposed
<1>1. mine \subseteq local \cup StashedEdits(stash) /\ mine' = mine
  BY OnlyFinalizingTouches DEF UserChangesKept, StashedEdits
<1>2. stash \in Seq(Entries)
  BY DEF TypeOK, Entries
<1>s. SUFFICES mine \subseteq local' \cup StashedEdits(stash')
  BY <1>1 DEF UserChangesKept, StashedEdits
<1>3. CASE UNCHANGED <<local, stash>>
  BY <1>1, <1>3
<1>4. CASE StashPush(s)
  <2>1. CASE CleanCheckout
    BY <1>1, <1>4, <2>1 DEF StashPush, CleanCheckout
  <2>2. CASE ~CleanCheckout
    <3> DEFINE entry == [edits |-> local, undone |-> undone]
    <3>1. entry \in Entries /\ entry.edits = local /\ stash' = <<entry>> \o stash
      BY <1>4, <2>2 DEF StashPush, TypeOK, Entries
    <3>2. StashedEdits(stash') = local \cup StashedEdits(stash)
      BY <1>2, <3>1, PushedEdits
    <3>3. QED
      BY <1>1, <3>2
  <2>3. QED
    BY <2>1, <2>2
<1>5. CASE Sync(s) \/ StashApplyFails(s)
  <2>1. pc[s] \in {"sync", "apply"}
    BY <1>5 DEF Sync, StashApplyFails, Goto
  <2>2. local \subseteq exposed
    BY <2>1 DEF WorktreeInStep, CheckoutSetAside, SetAside, Committed
  <2>3. stash' = stash
    BY <1>5 DEF Sync, StashApplyFails
  <2>4. QED
    BY <1>1, <2>2, <2>3
<1>6. CASE StashApply(s)
  BY <1>1, <1>6 DEF StashApply
<1>7. CASE StashDrop(s)
  <2>1. CASE stash # << >> /\ stash' = Tail(stash)
    <3>1. Head(stash).edits \subseteq local
      BY <1>7, <2>1 DEF StashDrop, Goto, AppliedBeforeDrop
    <3>2. local' = local
      BY <1>7 DEF StashDrop
    <3>3. QED
      BY <1>1, <1>2, <2>1, <3>1, <3>2, PoppedEdits
  <2>2. CASE UNCHANGED stash
    BY <1>1, <1>7, <2>2 DEF StashDrop
  <2>3. QED
    BY <1>7, <2>1, <2>2 DEF StashDrop
<1>8. QED
  BY <1>3, <1>4, <1>5, <1>6, <1>7, OnlyFinalizingTouches

\* An edit the user makes during a merge counts as exposed.
LEMMA UserStep ==
    ASSUME UserInv, NEW e \in Edits, UserEdits(e)
    PROVE  UserInv'
<1>1. WorkInv'
  BY WorkNext DEF UserInv, FinalizeNext
<1>2. /\ UNCHANGED <<pc, stash>> /\ local' = local \cup {e} /\ made' = made \cup {e}
      /\ exposed' = IF Meanwhile THEN exposed \cup {e} ELSE exposed
  BY DEF UserEdits
<1>3. \A s, t \in Finalizing' : s = t
  BY <1>2 DEF UserInv, Finalizing
<1>4. ASSUME NEW s \in Sessions PROVE CheckoutSetAside(s)'
  BY <1>2 DEF UserInv, CheckoutSetAside, Meanwhile, SetAside
<1>5. ASSUME NEW s \in Sessions PROVE AppliedBeforeDrop(s)'
  BY <1>2 DEF UserInv, AppliedBeforeDrop
<1>6. UserChangesKept'
  BY <1>2 DEF UserInv, UserChangesKept
<1>7. QED
  BY <1>1, <1>3, <1>4, <1>5, <1>6 DEF UserInv

LEMMA UserInit == FinalizeInit => UserInv
<1> SUFFICES ASSUME FinalizeInit PROVE UserInv
  OBVIOUS
<1>1. QED
  BY WorkInit DEF FinalizeInit, UserInv, Finalizing, CheckoutSetAside, AppliedBeforeDrop, SetAside,
     UserChangesKept

LEMMA UserNext == ASSUME MaxFinalizing = 1 PROVE UserInv /\ [FinalizeNext]_finalizeVars => UserInv'
<1>1. ASSUME UserInv, NEW s \in Sessions, SessionStep(s) PROVE UserInv'
  <2>1. WorkInv' /\ TypeOK /\ WorkSafe(s)
    BY <1>1, WorkNext DEF UserInv, WorkInv, FinalizeNext
  <2>2. \A t, u \in Finalizing' : t = u
    BY <1>1, <2>1, OneFinalizes DEF UserInv
  <2>3. ASSUME NEW t \in Sessions PROVE CheckoutSetAside(t)' /\ AppliedBeforeDrop(t)'
    <3>1. CASE t = s
      BY <1>1, <2>1, <3>1, OwnCheckoutSetAside DEF UserInv, WorkSafe
    <3>2. CASE t # s
      BY <1>1, <2>1, <3>2, OtherCheckoutSetAside DEF UserInv
    <3>3. QED
      BY <3>1, <3>2
  <2>4. UserChangesKept'
    BY <1>1, <2>1, SessionKeepsChanges DEF UserInv, WorkSafe
  <2>5. QED
    BY <2>1, <2>2, <2>3, <2>4 DEF UserInv
<1>2. ASSUME UserInv, UNCHANGED finalizeVars PROVE UserInv'
  <2>1. WorkInv'
    BY <1>2, WorkNext DEF UserInv
  <2>2. QED
    BY <1>2, <2>1 DEF UserInv, finalizeVars, checkout, historyVars, Finalizing, CheckoutSetAside,
       AppliedBeforeDrop, UserChangesKept
<1>3. QED
  BY <1>1, <1>2, UserStep DEF FinalizeNext

\* Around the merge, stash, reset, apply and drop lose no change the user had made
\* before it, as long as sessions finalise one at a time; the run WorktreeStashes
\* shows that they do when two finalise together.
THEOREM ChangesAreKept == ASSUME MaxFinalizing = 1 PROVE FinalizeSpec => []UserChangesKept
<1>1. UserInv => UserChangesKept
  BY DEF UserInv
<1>2. UserInv /\ [FinalizeNext]_finalizeVars => UserInv'
  BY UserNext
<1>3. QED
  BY <1>1, <1>2, UserInit, PTL DEF FinalizeSpec

-----------------------------------------------------------------------------
(* What is merged is checked out.                                          *)

StashedUndone(q) == UNION {entry.undone : entry \in ToSet(q)}

\* The merged work that the checkout lacks, or will lack when a stash is applied.
Lacking == undone \cup StashedUndone(stash)

UpToCleanup == {"session", "message", "commit", "status", "push", "rebase", "conflict",
                "merge", "sync", "drop"}

\* A run's work is lacking only from its merge until the checkout is synchronized,
\* and meanwhile no stash takes it; a run that has cleaned up left nothing lacking.
Settled(s) ==
    /\ \A n \in 1 .. MaxRuns : <<s, n>> \in Lacking => n <= runs[s]
    /\ pc[s] \in UpToCleanup => ~done[s]
    /\ pc[s] \in UpToCleanup \ {"sync"} \/ done[s] => Work(s) \notin Lacking
    /\ pc[s] = "sync" =>
          /\ Work(s) \notin StashedUndone(stash)
          /\ MergeInCheckout(s) => Work(s) \notin undone

\* As long as sessions have finalised one at a time.
CheckoutInv ==
    /\ WorkInv
    /\ ~overlapped => /\ \A s, t \in Finalizing : s = t
                      /\ \A s \in Sessions : Settled(s)

LEMMA PushedUndone ==
    ASSUME NEW q \in Seq(Entries), NEW entry \in Entries
    PROVE  StashedUndone(<<entry>> \o q) = entry.undone \cup StashedUndone(q)
<1>1. UNION {e.undone : e \in {entry} \cup ToSet(q)} = entry.undone \cup UNION {e.undone : e \in ToSet(q)}
  BY Zenon
<1>2. QED
  BY <1>1, PushedEntry DEF StashedUndone

LEMMA PoppedUndone ==
    ASSUME NEW q \in Seq(Entries), q # << >>
    PROVE  StashedUndone(Tail(q)) \subseteq StashedUndone(q)
  BY PoppedEntry DEF StashedUndone

\* Only a merge makes the checkout lack anything, and then the work merged; stash
\* and apply move what it lacks to and fro.
LEMMA LackingSteps ==
    ASSUME TypeOK, NEW s \in Sessions, SessionStep(s)
    PROVE  \/ Lacking' \subseteq Lacking
           \/ Merge(s) /\ Lacking' \subseteq Lacking \cup {Work(s)}
<1>1. stash \in Seq(Entries)
  BY DEF TypeOK, Entries
<1>2. CASE Merge(s)
  BY <1>2 DEF Merge, MergeInto, CreateMergeWorktree, Lacking, StashedUndone
<1>3. CASE StashPush(s)
  <2>1. CASE CleanCheckout
    BY <1>3, <2>1 DEF StashPush, CleanCheckout, Lacking, StashedUndone
  <2>2. CASE ~CleanCheckout
    <3> DEFINE entry == [edits |-> local, undone |-> undone]
    <3>1. /\ entry \in Entries /\ entry.undone = undone
          /\ stash' = <<entry>> \o stash /\ undone' = {}
      BY <1>3, <2>2 DEF StashPush, TypeOK, Entries
    <3>2. StashedUndone(stash') = undone \cup StashedUndone(stash)
      BY <1>1, <3>1, PushedUndone
    <3>3. QED
      BY <3>1, <3>2 DEF Lacking
  <2>3. QED
    BY <2>1, <2>2
<1>4. CASE StashApply(s)
  <2>1. stash # << >> /\ stash' = stash /\ undone' = undone \cup Head(stash).undone
    BY <1>4 DEF StashApply
  <2>2. Head(stash).undone \subseteq StashedUndone(stash)
    BY <1>1, <2>1, PoppedEntry DEF StashedUndone
  <2>3. QED
    BY <2>1, <2>2 DEF Lacking
<1>5. CASE StashDrop(s)
  <2>1. undone' = undone /\ stash' \in {stash, Tail(stash)}
        /\ (stash' = Tail(stash) => stash # << >> \/ stash' = stash)
    BY <1>5 DEF StashDrop
  <2>2. QED
    BY <1>1, <2>1, PoppedUndone DEF Lacking
<1>6. CASE Sync(s) \/ StashApplyFails(s)
  BY <1>6 DEF Sync, SyncSkipsMergedIn, SyncCheckout, StashApplyFails, Lacking
<1>7. CASE UNCHANGED <<undone, stash>>
  BY <1>7 DEF Lacking
<1>8. QED
  <2>1. SUFFICES ASSUME ~Merge(s), ~StashPush(s), ~StashApply(s), ~StashDrop(s), ~Sync(s),
                        ~StashApplyFails(s)
                 PROVE  UNCHANGED <<undone, stash>>
    BY <1>2, <1>3, <1>4, <1>5, <1>6, <1>7
  <2>2. QED
    BY <2>1 DEF SessionStep, Start, StartFails, SessionEnds, GenerateMessage, GiveUpEarly,
       CommitWorktree, ReadStatus, Rebase, RebaseConflicts, SubSessionCompletes,
       RebaseAborted, GiveUpMerge, DropWorktree, DeleteBranch, NothingToRestore,
       EmitSummary, UpdateTask, Crash, UnchangedFinal, checkout

\* How a run comes to its cleanup.
LEMMA CleanupSteps ==
    ASSUME TypeOK, NEW s \in Sessions, SessionStep(s)
    PROVE  \/ Start(s) \/ Merge(s) \/ Sync(s)
           \/ /\ runs'[s] = runs[s] /\ pc'[s] # "sync"
              /\ pc'[s] \in UpToCleanup =>
                    pc[s] \in UpToCleanup \ {"sync"} /\ done'[s] = done[s]
              /\ done'[s] => done[s] \/ pc[s] = "drop"
  BY DEF SessionStep, StartFails, SessionEnds, GenerateMessage, GiveUpEarly, CommitWorktree,
     ReadStatus, StashPush, Rebase, RebaseConflicts, SubSessionCompletes, RebaseAborted,
     GiveUpMerge, DropWorktree, DeleteBranch, NothingToRestore, StashApply, StashApplyFails,
     StashDrop, EmitSummary, UpdateTask, Crash, UnchangedFinal, Goto, TypeOK, UpToCleanup,
     sessionVars

LEMMA OwnSettled ==
    ASSUME TypeOK, NEW s \in Sessions, SessionStep(s), Settled(s)
    PROVE  Settled(s)'
<1> USE DEF Settled, UpToCleanup, Work
<1>1. CASE Start(s)
  <2>1. /\ runs'[s] = runs[s] + 1 /\ runs'[s] \in 1 .. MaxRuns /\ pc'[s] = "session"
        /\ done'[s] = FALSE /\ runs[s] \in Nat
    BY <1>1, FinalizeAssumption DEF Start, Goto, TypeOK
  <2>2. Lacking' = Lacking
    BY <1>1 DEF Start, checkout, Lacking
  <2>3. <<s, runs'[s]>> \notin Lacking
    BY <2>1
  <2>4. \A n \in 1 .. MaxRuns : n <= runs[s] => n <= runs'[s]
    BY <2>1
  <2>5. QED
    BY <2>1, <2>2, <2>3, <2>4
<1>2. CASE Merge(s)
  <2>1. /\ pc[s] = "merge" /\ pc'[s] = "sync" /\ runs' = runs /\ done' = done
        /\ stash' = stash /\ (MergeInCheckout(s) => undone' = undone)
    BY <1>2 DEF Merge, MergeInto, Goto, TypeOK, sessionVars
  <2>2. Lacking' \subseteq Lacking \cup {Work(s)}
    BY LackingSteps
  <2>3. \A n \in 1 .. MaxRuns : <<s, n>> = Work(s) => n <= runs[s]
    BY DEF TypeOK
  <2>4. StashedUndone(stash)' = StashedUndone(stash)
    BY <2>1
  <2>5. MergeInCheckout(s)' = MergeInCheckout(s)
    BY DEF MergeInCheckout
  <2>6. Work(s) \notin Lacking /\ ~done[s]
    BY <2>1
  <2>7. Work(s)' \notin StashedUndone(stash)'
    BY <2>1, <2>4, <2>6 DEF Lacking
  <2>8. MergeInCheckout(s)' => Work(s)' \notin undone'
    BY <2>1, <2>5, <2>6 DEF Lacking
  <2>9. \A n \in 1 .. MaxRuns : <<s, n>> \in Lacking' => n <= runs'[s]
    BY <2>1, <2>2, <2>3
  <2>10. QED
    BY <2>1, <2>6, <2>7, <2>8, <2>9
<1>3. CASE Sync(s)
  <2>1. /\ pc[s] = "sync" /\ pc'[s] = "drop" /\ runs' = runs /\ done' = done
        /\ stash' = stash
        /\ undone' = IF MergeInCheckout(s) THEN undone ELSE {}
    BY <1>3 DEF Sync, SyncSkipsMergedIn, SyncCheckout, Goto, TypeOK, sessionVars
  <2>2. StashedUndone(stash)' = StashedUndone(stash)
    BY <2>1
  <2>3. Lacking' \subseteq Lacking
    BY <2>1, <2>2 DEF Lacking
  <2>4. Work(s)' = Work(s) /\ Work(s) \notin StashedUndone(stash) /\ Work(s) \notin undone'
    BY <2>1
  <2>5. Work(s)' \notin Lacking'
    BY <2>2, <2>4 DEF Lacking
  <2>6. QED
    BY <2>1, <2>3, <2>5
<1>4. CASE ~Start(s) /\ ~Merge(s) /\ ~Sync(s)
  <2>1. /\ runs'[s] = runs[s] /\ pc'[s] # "sync"
        /\ pc'[s] \in UpToCleanup =>
              pc[s] \in UpToCleanup \ {"sync"} /\ done'[s] = done[s]
        /\ done'[s] => done[s] \/ pc[s] = "drop"
    BY <1>4, CleanupSteps
  <2>2. Lacking' \subseteq Lacking /\ Work(s)' = Work(s)
    BY <1>4, <2>1, LackingSteps
  <2>3. QED
    BY <2>1, <2>2
<1>5. QED
  BY <1>1, <1>2, <1>3, <1>4

LEMMA OtherSettled ==
    ASSUME TypeOK, NEW s \in Sessions, SessionStep(s), NEW t \in Sessions, t # s,
           \A u, v \in Finalizing : u = v, Settled(t)
    PROVE  Settled(t)'
<1>1. pc'[t] = pc[t] /\ runs'[t] = runs[t] /\ done'[t] = done[t] /\ Work(t)' = Work(t)
  BY OthersStay DEF Work
<1>2. Lacking' \subseteq Lacking \cup {Work(s)}
  BY LackingSteps
<1>3. Work(t) # Work(s) /\ \A n \in 1 .. MaxRuns : <<t, n>> # Work(s)
  BY DEF Work
<1>4. ASSUME pc[t] = "sync"
      PROVE  UNCHANGED <<undone, stash>>
  <2>1. t \in Finalizing
    BY <1>4 DEF Finalizing
  <2>2. s \notin Finalizing
    BY <2>1
  <2>3. QED
    BY <2>2, OnlyFinalizingTouches
<1>5. MergeInCheckout(t)' = MergeInCheckout(t)
  BY DEF MergeInCheckout
<1>6. pc'[t] = "sync" =>
          /\ Work(t)' \notin StashedUndone(stash)'
          /\ MergeInCheckout(t)' => Work(t)' \notin undone'
  BY <1>1, <1>4, <1>5 DEF Settled, StashedUndone
<1>7. \A n \in 1 .. MaxRuns : <<t, n>> \in Lacking' => n <= runs'[t]
  BY <1>1, <1>2, <1>3 DEF Settled
<1>8. pc'[t] \in UpToCleanup \ {"sync"} \/ done'[t] => Work(t)' \notin Lacking'
  BY <1>1, <1>2, <1>3 DEF Settled
<1>9. QED
  BY <1>1, <1>6, <1>7, <1>8 DEF Settled

\* Two sessions finalise together only once that is noted.
LEMMA OverlapSteps ==
    ASSUME TypeOK, NEW s \in Sessions, SessionStep(s), ~overlapped',
           ~overlapped => \A t, u \in Finalizing : t = u
    PROVE  ~overlapped /\ \A t, u \in Finalizing' : t = u
<1>1. CASE SessionEnds(s)
  <2>1. ~overlapped /\ Finalizing = {}
    BY <1>1 DEF SessionEnds
  <2>2. Finalizing' \subseteq {s}
    BY <2>1, FinalizingSteps
  <2>3. QED
    BY <2>1, <2>2
<1>2. CASE ~SessionEnds(s)
  <2>1. UNCHANGED overlapped
    BY <1>2 DEF SessionStep, Start, StartFails, GenerateMessage, GiveUpEarly, historyVars,
       CommitWorktree, ReadStatus, StashPush, Rebase, RebaseConflicts, SubSessionCompletes,
       RebaseAborted, Merge, Sync, GiveUpMerge, DropWorktree, DeleteBranch,
       NothingToRestore, StashApply, StashApplyFails, StashDrop, EmitSummary, UpdateTask,
       Crash, UnchangedFinal
  <2>2. Finalizing' \subseteq Finalizing
    BY <1>2, FinalizingSteps
  <2>3. QED
    BY <2>1, <2>2
<1>3. QED
  BY <1>1, <1>2

LEMMA CheckoutInit == FinalizeInit => CheckoutInv
<1> SUFFICES ASSUME FinalizeInit PROVE CheckoutInv
  OBVIOUS
<1>1. Lacking = {}
  BY DEF FinalizeInit, Lacking, StashedUndone, ToSet
<1>2. QED
  BY <1>1, WorkInit DEF FinalizeInit, CheckoutInv, Finalizing, Settled, UpToCleanup

LEMMA CheckoutNext == CheckoutInv /\ [FinalizeNext]_finalizeVars => CheckoutInv'
<1>1. ASSUME CheckoutInv, NEW s \in Sessions, SessionStep(s) PROVE CheckoutInv'
  <2>1. WorkInv' /\ TypeOK
    BY <1>1, WorkNext DEF CheckoutInv, WorkInv, FinalizeNext
  <2>2. ASSUME ~overlapped'
        PROVE  /\ \A t, u \in Finalizing' : t = u
               /\ \A t \in Sessions : Settled(t)'
    <3>1. ~overlapped /\ \A t, u \in Finalizing' : t = u
      BY <1>1, <2>1, <2>2, OverlapSteps DEF CheckoutInv
    <3>2. (\A t, u \in Finalizing : t = u) /\ \A t \in Sessions : Settled(t)
      BY <1>1, <3>1 DEF CheckoutInv
    <3>3. ASSUME NEW t \in Sessions PROVE Settled(t)'
      <4>1. CASE t = s
        BY <1>1, <2>1, <3>2, <4>1, OwnSettled
      <4>2. CASE t # s
        BY <1>1, <2>1, <3>2, <4>2, OtherSettled
      <4>3. QED
        BY <4>1, <4>2
    <3>4. QED
      BY <3>1, <3>3
  <2>3. QED
    BY <2>1, <2>2 DEF CheckoutInv
<1>2. ASSUME CheckoutInv, \/ UNCHANGED finalizeVars \/ \E e \in Edits : UserEdits(e)
      PROVE  CheckoutInv'
  <2>1. WorkInv'
    BY <1>2, WorkNext DEF CheckoutInv, FinalizeNext
  <2>2. UNCHANGED <<pc, runs, done, undone, stash, overlapped>>
    BY <1>2 DEF UserEdits, finalizeVars, sessionVars, checkout, historyVars
  <2>3. QED
    BY <1>2, <2>1, <2>2 DEF CheckoutInv, Finalizing, Settled, Lacking, StashedUndone, Work,
       MergeInCheckout
<1>3. QED
  BY <1>1, <1>2 DEF FinalizeNext

\* When a run has merged and cleaned up, the user's checkout has the merged work, however
\* its commands failed, runs were killed or branches run again, unless two sessions have
\* finalised together.
THEOREM MergedStaysCheckedOut == FinalizeSpec => []MergedIsCheckedOut
<1>1. CheckoutInv => MergedIsCheckedOut
  BY FinalizeAssumption DEF CheckoutInv, Settled, Lacking, MergedIsCheckedOut
<1>2. QED
  BY <1>1, CheckoutInit, CheckoutNext, PTL DEF FinalizeSpec
=============================================================================
