----------------------------- MODULE IdunnProofs -----------------------------
(***************************************************************************)
(* Type correctness, for every number of processes, releases and faults    *)
(* and every policy; and then that the live tree stays whole.  IndInv is   *)
(* inductive: each step of a process keeps what holds of the root and what *)
(* the process knows, and the other processes, which are at rest, know     *)
(* nothing that could become false.                                        *)
(***************************************************************************)
EXTENDS IdunnInvariant, TLAPS

(* Every continuation of a failed or finished call is a step of a process. *)
LEMMA Continuations ==
    ASSUME NEW c
    PROVE  ErrTo(c) \in Pcs /\ RetTo(c) \in Pcs
BY DEF ErrTo, RetTo, Pcs, TransactionPcs, UpdaterPcs, LauncherPcs, Outcomes, Resting

(* The edits a launcher, an updater or the application makes to a probation
   record give a probation record. *)
LEMMA ProbationEdits ==
    ASSUME NEW r \in Probation, NEW s \in ProbationStatus, NEW b \in BOOLEAN,
           NEW v \in VersionOrNone, NEW w \in VersionOrNone
    PROVE  /\ [r EXCEPT !.status = s] \in Probation
           /\ [r EXCEPT !.restartPending = b] \in Probation
           /\ [r EXCEPT !.attempts = @ + 1] \in Probation
           /\ [r EXCEPT !.status = s, !.restartPending = b] \in Probation
           /\ [r EXCEPT !.status = s, !.restartPending = b, !.blocked = v] \in Probation
           /\ [r EXCEPT !.restarts = IF @ <= Restarts THEN @ + 1 ELSE @,
                        !.restartPending = b] \in Probation
           /\ [NoProbation EXCEPT !.status = s, !.version = v, !.previous = w,
                                  !.blocked = r.blocked] \in Probation
           /\ NoProbation \in Probation
           /\ r.version \in VersionOrNone /\ r.previous \in VersionOrNone
           /\ r.blocked \in VersionOrNone
<1>1. [r EXCEPT !.status = s] \in Probation
    BY DEF Probation
<1>2. [r EXCEPT !.restartPending = b] \in Probation
    BY DEF Probation
<1>3. [r EXCEPT !.attempts = @ + 1] \in Probation
    BY DEF Probation
<1>4. [r EXCEPT !.status = s, !.restartPending = b] \in Probation
    BY DEF Probation
<1>5. [r EXCEPT !.status = s, !.restartPending = b, !.blocked = v] \in Probation
    BY DEF Probation
<1>6. [r EXCEPT !.restarts = IF @ <= Restarts THEN @ + 1 ELSE @,
                !.restartPending = b] \in Probation
    <2>1. \A n \in Nat : [r EXCEPT !.restarts = n, !.restartPending = b] \in Probation
        BY DEF Probation
    <2>2. (IF r.restarts <= Restarts THEN r.restarts + 1 ELSE r.restarts) \in Nat
        BY DEF Probation
    <2> QED BY <2>1, <2>2
<1>7. NoProbation \in Probation
    BY PolicyAssumption DEF Probation, NoProbation, NoVersion, VersionOrNone
<1>8. r.blocked \in VersionOrNone /\ r.version \in VersionOrNone /\ r.previous \in VersionOrNone
    BY DEF Probation
<1>9. [NoProbation EXCEPT !.status = s, !.version = v, !.previous = w, !.blocked = r.blocked]
        \in Probation
    BY <1>7, <1>8 DEF Probation
<1> QED
    BY <1>1, <1>2, <1>3, <1>4, <1>5, <1>6, <1>7, <1>8, <1>9

(* Moving the last record of a journal on gives a record. *)
LEMMA RecordEdits ==
    ASSUME NEW r \in Record, NEW s \in JournalStates
    PROVE  [r EXCEPT !.state = s] \in Record /\ NoRecord \in Record
           /\ r.from \in VersionOrNone /\ r.to \in VersionOrNone
BY PolicyAssumption DEF Record, NoRecord, NoVersion, VersionOrNone

(* A step of the journal keeps the types, whatever it records. *)
LEMMA AppendStepTypes ==
    ASSUME NEW p \in Procs, NEW at, NEW s \in JournalStates, NEW next \in Pcs,
           TypeOK, AppendStep(p, at, s, next)
    PROVE  TypeOK'
<1>1. rec[p] \in Record /\ Stepped(p, s) \in Record
    BY RecordEdits DEF TypeOK, Stepped
<1>2. ErrTo(ctx[p]) \in Pcs
    BY Continuations
<1> QED
    BY <1>1, <1>2 DEF TypeOK, AppendStep, JournalAppend, WrittenRecord, Goto, Faulty, GotoAll,
                      UnchangedButJournal

(* Removing a tree keeps the types of what it touches. *)
LEMMA RemoveTreeTypes ==
    ASSUME NEW p \in Procs, NEW v, NEW next \in Pcs, TypeOK, RemoveTree(p, v, next)
    PROVE  /\ dirs' \in [Versions -> {"absent", "partial", "whole"}]
           /\ pc' \in [Procs -> Pcs] /\ faults' \in Nat
BY DEF TypeOK, RemoveTree, Goto, GotoAll

(* Each step of the journal, recovery, rollback, swap and collection keeps the
   types. *)
LEMMA TransactionTypes ==
    ASSUME NEW p \in Procs, TypeOK, TransactionStep(p)
    PROVE  TypeOK'
<1> USE Continuations
<1>0. journal \in Record /\ rec[p] \in Record /\ rec[p].from \in VersionOrNone
      /\ rec[p].to \in VersionOrNone
    BY RecordEdits DEF TypeOK, JournalStates
<1>1. CASE RecoverResult(p)
    <2>1. RecoverTo(ctx[p], journal) \in Pcs
        BY DEF RecoverTo, Pcs, TransactionPcs, LauncherPcs
    <2> QED BY <1>0, <1>1, <2>1 DEF RecoverResult, TypeOK, Goto, GotoAll, disk
<1>2. CASE RecoverAmbiguous(p)
    BY <1>2 DEF RecoverAmbiguous, TypeOK, Goto, GotoAll, disk, locals, Pcs, TransactionPcs
<1>3. CASE Rollback(p)
    <2>1. UndoTo("undo", journal) \in Pcs /\ "aborted" \in Pcs
        BY DEF UndoTo, Pcs, TransactionPcs, UpdaterPcs, Outcomes
    <2> QED BY <1>0, <1>3, <2>1 DEF Rollback, TypeOK, Goto, Faulty, GotoAll, disk, Contexts
<1>4. CASE RestorePointer(p)
    <2>1. AfterRestore(rec[p]) \in Pcs
        BY DEF AfterRestore, Pcs, TransactionPcs
    <2>2. NoVersion \in VersionOrNone
        BY PolicyAssumption DEF NoVersion, VersionOrNone
    <2> QED BY <1>0, <1>4, <2>1, <2>2
            DEF RestorePointer, TypeOK, Written, Goto, Faulty, GotoAll, locals
<1>5. CASE RollbackHook(p)
    BY <1>0, <1>5 DEF RollbackHook, TypeOK, Goto, GotoAll, disk, locals, Pcs, TransactionPcs
<1>6. CASE RollbackTree(p)
    <2>1. "rbrecord" \in Pcs
        BY DEF Pcs, TransactionPcs
    <2> QED BY <1>6, <2>1, RemoveTreeTypes DEF RollbackTree, TypeOK, Goto, GotoAll, locals
<1>7. CASE RollbackRecord(p)
    BY <1>7, AppendStepTypes DEF RollbackRecord, Pcs, TransactionPcs, JournalStates
<1>8. CASE CleanOrphans(p)
    BY <1>8 DEF CleanOrphans, TypeOK, Written, Goto, Faulty, GotoAll, locals
<1>9. CASE Complete(p)
    BY <1>9 DEF Complete, TypeOK, Goto, GotoAll, disk, locals, Pcs, TransactionPcs
<1>10. CASE RecordSwapped(p)
    <2>1. {"verify", "install", "complete"} \subseteq Pcs
        BY DEF Pcs, TransactionPcs, UpdaterPcs
    <2> QED BY <1>10, <2>1, AppendStepTypes DEF RecordSwapped, JournalStates
<1>11. CASE WriteInstall(p)
    BY <1>0, <1>11 DEF WriteInstall, TypeOK, Written, Goto, Faulty, GotoAll, locals, Pcs, TransactionPcs
<1>12. CASE RecordCommitted(p)
    <2>1. {"promote", "settle"} \subseteq Pcs
        BY DEF Pcs, TransactionPcs, UpdaterPcs
    <2> QED BY <1>12, <2>1, AppendStepTypes DEF RecordCommitted, JournalStates
<1>13. CASE SettleCommitted(p)
    BY <1>0, <1>13 DEF SettleCommitted, PromoteLauncher, TypeOK, Written, Goto, Faulty, GotoAll,
                       locals, Pcs, TransactionPcs
<1>14. CASE Migrate(p)
    BY <1>0, <1>14 DEF Migrate, TypeOK, Goto, GotoAll, disk, locals, Pcs, TransactionPcs
<1>15. CASE RecordMigrated(p)
    BY <1>15, AppendStepTypes DEF RecordMigrated, Pcs, TransactionPcs, JournalStates
<1>16. CASE Swap(p)
    BY <1>0, <1>16 DEF Swap, TypeOK, Written, Goto, Faulty, GotoAll, locals, Pcs, TransactionPcs
<1>17. CASE GC(p)
    <2>1. AfterGC(p) \in Pcs
        BY DEF AfterGC, Pcs, UpdaterPcs, LauncherPcs, Outcomes
    <2> QED BY <1>17, <2>1 DEF GC, TypeOK, Goto, Faulty, GotoAll, locals
<1> QED
    BY <1>1, <1>2, <1>3, <1>4, <1>5, <1>6, <1>7, <1>8, <1>9, <1>10, <1>11, <1>12, <1>13,
       <1>14, <1>15, <1>16, <1>17 DEF TransactionStep

(* Each step of a check and of an apply keeps the types. *)
LEMMA UpdaterTypes ==
    ASSUME NEW p \in Procs, TypeOK,
           UpdaterStep(p) \/ Apply(p) \/ \E v \in Versions : CheckForUpdate(p, v)
    PROVE  TypeOK'
<1> USE Continuations
<1>0. /\ journal \in Record /\ rec[p] \in Record /\ NoRecord \in Record
      /\ rel[p] \in Releases /\ rel[p].from \in VersionOrNone /\ rel[p].to \in VersionOrNone
      /\ NoRelease \in Releases
      /\ probation \in Probation /\ NoProbation \in Probation
    <2>1. journal \in Record /\ rec[p] \in Record /\ NoRecord \in Record
        BY RecordEdits DEF TypeOK, JournalStates
    <2>2. rel[p] \in Releases /\ rel[p].from \in VersionOrNone /\ rel[p].to \in VersionOrNone
        BY DEF TypeOK, Releases
    <2>3. NoRelease \in Releases
        BY PolicyAssumption DEF Releases, NoRelease, NoVersion, VersionOrNone
    <2>4. probation \in Probation /\ NoProbation \in Probation
        BY ProbationEdits DEF TypeOK, ProbationStatus, VersionOrNone
    <2> QED BY <2>1, <2>2, <2>3, <2>4
<1>1. CASE Recheck(p)
    BY <1>1 DEF Recheck, TypeOK, Goto, GotoAll, disk, Contexts, Pcs, TransactionPcs
<1>2. CASE Preflight(p)
    <2>1. PreflightTo(p) \in Pcs
        BY DEF PreflightTo, Pcs, UpdaterPcs, Outcomes
    <2> QED BY <1>2, <2>1 DEF Preflight, TypeOK, Goto, GotoAll, disk, locals
<1>3. CASE ArmProbation(p)
    <2>1. FallbackOf(rel[p].to, rel[p].from) \in VersionOrNone
        BY <1>0, ProbationEdits DEF FallbackOf, Probation
    <2> DEFINE armed == [NoProbation EXCEPT
                            !.status = "probation", !.version = rel[p].to,
                            !.previous = FallbackOf(rel[p].to, rel[p].from),
                            !.blocked = probation.blocked]
    <2>2. armed \in Probation
        BY <1>0, <2>1, ProbationEdits DEF ProbationStatus
    <2>4. probation' = probation \/ probation' = armed
        BY <1>3 DEF ArmProbation
    <2>3. pc' \in [Procs -> Pcs] /\ faults' \in Nat
        BY <1>3 DEF ArmProbation, TypeOK, Written, Goto, Faulty, GotoAll, Pcs, UpdaterPcs
    <2> QED BY <1>0, <1>3, <2>2, <2>4, <2>3 DEF ArmProbation, TypeOK
<1>4. CASE Begin(p)
    <2>1. [state |-> "BEGIN", from |-> rel[p].from, to |-> rel[p].to] \in Record
        BY <1>0 DEF Record, JournalStates
    <2> QED BY <1>4, <2>1 DEF Begin, JournalAppend, WrittenRecord, TypeOK, Goto, Faulty, GotoAll,
                              Contexts, Pcs, UpdaterPcs
<1>5. CASE StageFiles(p)
    BY <1>5, PolicyAssumption
    DEF StageFiles, TypeOK, Written, Goto, Faulty, GotoAll, locals, Pcs, UpdaterPcs
<1>6. CASE StagePlace(p)
    BY <1>6 DEF StagePlace, TypeOK, Goto, Faulty, GotoAll, locals, Pcs, UpdaterPcs
<1>7. CASE RecordStaged(p)
    BY <1>7, AppendStepTypes DEF RecordStaged, Pcs, UpdaterPcs, JournalStates
<1>8. CASE QuiesceHeld(p)
    BY <1>8 DEF QuiesceHeld, TypeOK, Goto, GotoAll, disk, locals, Pcs, TransactionPcs
<1>9. CASE QuiesceTimeout(p)
    <2>1. {"defer", "migrate"} \subseteq Pcs
        BY DEF Pcs, UpdaterPcs, TransactionPcs
    <2> QED BY <1>9, <2>1 DEF QuiesceTimeout, TypeOK, Goto, GotoAll, disk, locals
<1>10. CASE RecordDeferred(p)
    <2>1. Stepped(p, "DEFERRED") \in Record
        BY <1>0, RecordEdits DEF Stepped, JournalStates
    <2>2. "deferred" \in Pcs
        BY DEF Pcs, UpdaterPcs, Outcomes
    <2> QED BY <1>0, <1>10, <2>1, <2>2 DEF RecordDeferred, TypeOK, Goto, Faulty, GotoAll, locals
<1>11. CASE Verify(p)
    BY <1>11 DEF Verify, TypeOK, Goto, GotoAll, disk, locals, Pcs, TransactionPcs
<1>12. CASE PromoteAfterCommit(p)
    <2>1. launcherNext' \in VersionOrNone /\ pending' \subseteq Versions
        <3>1. rec[p].to \in VersionOrNone
            BY <1>0 DEF Record
        <3>2. \/ launcherNext' = launcherNext /\ pending' = pending
              \/ launcherNext' = rec[p].to /\ pending' = pending \ {rec[p].to}
            BY <1>12 DEF PromoteAfterCommit, PromoteLauncher
        <3> QED BY <3>1, <3>2 DEF TypeOK
    <2> QED BY <1>12, <2>1 DEF PromoteAfterCommit, TypeOK, Goto, Faulty, GotoAll, locals, Pcs,
                               UpdaterPcs, TransactionPcs
<1>13. CASE SweepStaging(p)
    BY <1>13 DEF SweepStaging, TypeOK, Goto, Faulty, GotoAll, locals, Pcs, TransactionPcs
<1>14. CASE ReportOutcome(p)
    BY <1>0, <1>14 DEF ReportOutcome, Forget, Release, TypeOK, Goto, GotoAll, disk, Contexts, Pcs,
                       Resting
<1>15. CASE Apply(p)
    BY <1>15 DEF Apply, TypeOK, Goto, GotoAll, disk, Contexts, Pcs, TransactionPcs
<1>16. CASE \E v \in Versions : CheckForUpdate(p, v)
    <2> PICK v \in Versions : CheckForUpdate(p, v)
        BY <1>16
    <2>1. [from |-> current, to |-> v] \in Releases
        BY DEF Releases, TypeOK, Versions, VersionOrNone
    <2> QED BY <2>1 DEF CheckForUpdate, TypeOK, Goto, GotoAll, disk, Pcs, Resting
<1> QED
    BY <1>1, <1>2, <1>3, <1>4, <1>5, <1>6, <1>7, <1>8, <1>9, <1>10, <1>11, <1>12, <1>13,
       <1>14, <1>15, <1>16 DEF UpdaterStep

(* Each step of a start keeps the types. *)
LEMMA LauncherTypes ==
    ASSUME NEW p \in Procs, TypeOK, LauncherStep(p) \/ Start(p)
    PROVE  TypeOK'
<1> USE Continuations
<1>0. /\ journal \in Record /\ NoRecord \in Record /\ NoRelease \in Releases
      /\ probation \in Probation /\ NoProbation \in Probation /\ loc[p] \in Probation
      /\ loc[p].previous \in VersionOrNone /\ loc[p].version \in VersionOrNone
      /\ NoVersion \in VersionOrNone
    <2>1. journal \in Record /\ NoRecord \in Record
        BY RecordEdits DEF TypeOK, JournalStates
    <2>2. NoRelease \in Releases /\ NoVersion \in VersionOrNone
        BY PolicyAssumption DEF Releases, NoRelease, NoVersion, VersionOrNone
    <2>3. probation \in Probation /\ loc[p] \in Probation
        BY DEF TypeOK
    <2>4. NoProbation \in Probation /\ loc[p].previous \in VersionOrNone
          /\ loc[p].version \in VersionOrNone
        BY <2>2, <2>3, ProbationEdits DEF ProbationStatus
    <2> QED BY <2>1, <2>2, <2>3, <2>4
<1>1. CASE ResumeLock(p)
    BY <1>1 DEF ResumeLock, TypeOK, Goto, GotoAll, disk, Contexts, Pcs, LauncherPcs
<1>2. CASE ResumeDeferred(p)
    BY <1>0, <1>2 DEF ResumeDeferred, TypeOK, Goto, GotoAll, disk, Pcs, TransactionPcs
<1>3. CASE CheckProbation(p)
    <2>1. FinishContext(ctx[p]) \in Contexts
        BY DEF FinishContext, Contexts
    <2>2. Counted(probation) \in Probation
        BY <1>0, ProbationEdits DEF Counted, ProbationStatus
    <2>3. ProbationTo(FinishContext(ctx[p]), probation) \in Pcs
        BY DEF ProbationTo, Pcs, LauncherPcs
    <2> QED BY <1>0, <1>3, <2>1, <2>2, <2>3 DEF CheckProbation, TypeOK, Goto, GotoAll, disk
<1>4. CASE CountStart(p)
    BY <1>0, <1>4 DEF CountStart, WriteProbation, TypeOK, Written, Goto, Faulty, GotoAll, locals
<1>5. CASE RevertLock(p)
    BY <1>5 DEF RevertLock, TypeOK, Goto, GotoAll, disk, locals, Pcs, LauncherPcs
<1>6. CASE RevertRecord(p)
    <2>1. \A s \in {"reverting", "kept"} : [loc[p] EXCEPT !.status = s] \in Probation
        BY <1>0, ProbationEdits DEF ProbationStatus
    <2>2. probation' \in Probation /\ loc' \in [Procs -> Probation]
        BY <1>0, <1>6, <2>1 DEF RevertRecord, WriteProbation, TypeOK
    <2> QED BY <1>6, <2>2 DEF RevertRecord, WriteProbation, TypeOK, Written, Goto, Faulty, GotoAll,
                              Pcs, LauncherPcs
<1>7. CASE RevertSwap(p)
    BY <1>0, <1>7 DEF RevertSwap, TypeOK, Written, Goto, Faulty, GotoAll, locals, Pcs, LauncherPcs
<1>8. CASE RevertHook(p)
    BY <1>0, <1>8 DEF RevertHook, TypeOK, Goto, GotoAll, disk, locals, Pcs, LauncherPcs
<1>9. CASE RevertInstall(p)
    BY <1>0, <1>9 DEF RevertInstall, TypeOK, Written, Goto, Faulty, GotoAll, locals, Pcs, LauncherPcs
<1>10. CASE RevertDone(p)
    <2>1. probation' \in Probation
        BY <1>0, <1>10, ProbationEdits DEF RevertDone, WriteProbation, ProbationStatus
    <2> QED BY <1>10, <2>1 DEF RevertDone, WriteProbation, TypeOK, Written, Goto, Faulty, GotoAll,
                               locals, Pcs, LauncherPcs
<1>11. CASE RevertRemove(p)
    BY <1>11, RemoveTreeTypes DEF RevertRemove, TypeOK, Faulty, GotoAll, locals
<1>12. CASE UpdateSelf(p)
    BY <1>12 DEF UpdateSelf, Release, TypeOK, Goto, Faulty, GotoAll, locals, Pcs, LauncherPcs
<1>13. CASE DropStaged(p)
    BY <1>0, <1>13 DEF DropStaged, TypeOK, Goto, Faulty, GotoAll, locals, Pcs, LauncherPcs
<1>14. CASE RunApplication(p)
    BY <1>0, <1>14 DEF RunApplication, Forget, Release, TypeOK, Goto, GotoAll, disk, Contexts, Pcs,
                       Resting
<1>15. CASE Start(p)
    BY <1>15 DEF Start, TypeOK, Goto, GotoAll, disk, Contexts, Pcs, TransactionPcs
<1> QED
    BY <1>1, <1>2, <1>3, <1>4, <1>5, <1>6, <1>7, <1>8, <1>9, <1>10, <1>11, <1>12, <1>13,
       <1>14, <1>15 DEF LauncherStep

(* What the running application does to its probation record keeps the types. *)
LEMMA ApplicationTypes ==
    ASSUME TypeOK, Application
    PROVE  TypeOK'
<1>0. probation \in Probation
    BY DEF TypeOK
<1>1. CASE MarkHealthy
    BY <1>0, <1>1, ProbationEdits DEF MarkHealthy, TypeOK, ProbationStatus, locals, VersionOrNone
<1>2. CASE MarkUnhealthy
    BY <1>0, <1>2, ProbationEdits DEF MarkUnhealthy, TypeOK, ProbationStatus, locals, VersionOrNone
<1>3. CASE Relaunch
    <2>1. probation' \in Probation
        <3>1. "confirmed" \in ProbationStatus /\ TRUE \in BOOLEAN /\ 0 \in VersionOrNone
            BY PolicyAssumption DEF ProbationStatus, VersionOrNone
        <3> QED BY <1>0, <1>3, <3>1, ProbationEdits DEF Relaunch
    <2> QED BY <1>3, <2>1, PolicyAssumption
            DEF Relaunch, ReleaseApp, TypeOK, locals, VersionOrNone, NoVersion
<1>4. CASE AppExit
    BY <1>4, PolicyAssumption DEF AppExit, ReleaseApp, TypeOK, disk, locals, VersionOrNone, NoVersion
<1> QED BY <1>1, <1>2, <1>3, <1>4 DEF Application

(* A failed step and a crash keep the types. *)
LEMMA FaultTypes ==
    ASSUME NEW p \in Procs, TypeOK, Fail(p) \/ Crash(p)
    PROVE  TypeOK'
<1>1. CASE Fail(p)
    BY <1>1, Continuations DEF Fail, TypeOK, Faulty, GotoAll, disk, locals
<1>2. CASE Crash(p)
    <2>1. NoRecord \in Record /\ NoRelease \in Releases /\ NoProbation \in Probation
        BY PolicyAssumption DEF Record, NoRecord, Releases, NoRelease, Probation, NoProbation,
                                NoVersion, VersionOrNone
    <2> QED BY <1>2, <2>1 DEF Crash, Forget, Release, TypeOK, GotoAll, disk, Contexts, Pcs, Resting
<1> QED BY <1>1, <1>2

(* An empty install root has the types. *)
LEMMA InitTypes == Init => TypeOK
<1>1. NoRecord \in Record /\ NoRelease \in Releases /\ NoProbation \in Probation
      /\ NoVersion \in VersionOrNone
    BY PolicyAssumption DEF Record, NoRecord, Releases, NoRelease, Probation, NoProbation,
                            NoVersion, VersionOrNone
<1> QED BY <1>1 DEF Init, TypeOK, Contexts, Pcs, Resting

(* Every step of every process keeps every variable in its type. *)
LEMMA NextTypes ==
    ASSUME TypeOK, [Next]_vars
    PROVE  TypeOK'
<1>1. CASE \E p \in Procs : ProcStep(p) \/ Fail(p) \/ Crash(p) \/ Start(p) \/ Apply(p)
    BY <1>1, TransactionTypes, UpdaterTypes, LauncherTypes, FaultTypes DEF ProcStep
<1>2. CASE \E p \in Updaters, v \in Versions : CheckForUpdate(p, v)
    BY <1>2, UpdaterTypes DEF Procs
<1>3. CASE Application
    BY <1>3, ApplicationTypes
<1>4. CASE UNCHANGED vars
    BY <1>4 DEF vars, disk, locals, TypeOK
<1> QED BY <1>1, <1>2, <1>3, <1>4 DEF Next

(* The install root and the processes on it stay within their types, for any
   number of processes, releases and faults and every policy. *)
THEOREM TypeCorrect == Spec => []TypeOK
<1>1. Init => TypeOK
    BY InitTypes
<1>2. TypeOK /\ [Next]_vars => TypeOK'
    BY NextTypes
<1> QED BY <1>1, <1>2, PTL DEF Spec

-----------------------------------------------------------------------------

\* RootInv without OneActive, which the frame lemma provides.
RootOK == CurrentWhole /\ FallbackWhole /\ DeferredWhole /\ InFlightOK /\ ProbationOK

\* p moves and nobody else does.
Keeps(p) ==
    \A q \in Procs \ {p} :
        /\ pc'[q] = pc[q] /\ ctx'[q] = ctx[q] /\ rec'[q] = rec[q]
        /\ rel'[q] = rel[q] /\ loc'[q] = loc[q]

\* p changes none of its locals but where it is.
Same(p) == ctx'[p] = ctx[p] /\ rec'[p] = rec[p] /\ rel'[p] = rel[p] /\ loc'[p] = loc[p]

\* Nothing the root's invariant speaks of changes.
Quiet == UNCHANGED <<journal, current, dirs, probation>>

\* p moves its transaction on to s, or reports an error, with the record
\* written or not.
Advanced(p, at, s, next) ==
    /\ Keeps(p) /\ pc[p] = at /\ ctx'[p] = ctx[p] /\ rel'[p] = rel[p] /\ loc'[p] = loc[p]
    /\ UNCHANGED <<current, dirs, probation>>
    /\ \/ journal' = journal /\ pc'[p] = ErrTo(ctx[p])
       \/ /\ journal'.state = s /\ journal'.from = journal.from /\ journal'.to = journal.to
          /\ (pc'[p] = next /\ rec'[p] = journal') \/ pc'[p] = ErrTo(ctx[p])

(* A process at rest knows nothing that a step of another one can falsify. *)
LEMMA OthersAtRest ==
    ASSUME NEW p \in Procs, TypeOK', Keeps(p), ProcInv(p)',
           \A q \in Procs \ {p} : ~Active(q) /\ ProcInv(q)
    PROVE  OneActive' /\ \A q \in Procs : ProcInv(q)'
<1>1. OneActive'
    BY DEF OneActive, Active, Keeps
<1>2. ASSUME NEW q \in Procs \ {p}
      PROVE  ProcInv(q)'
    <2>1. pc[q] \in {"idle", "checked"} /\ pc'[q] = pc[q] /\ ctx'[q] = ctx[q] /\ rel'[q] = rel[q]
        BY <1>2 DEF Active, Resting, Keeps
    <2>2. InContext(q)'
        BY <1>2, <2>1 DEF ProcInv, InContext
    <2>3. ctx[q] = "none"
        BY <1>2, <2>1 DEF ProcInv, InContext, PcsOf, RecoveryPcs, RevertPcs
    <2>4. journal'.state \in JournalStates \cup {"NONE"}
        BY DEF TypeOK, Record
    <2>5. KnowsJournal(q)'
        BY <2>1, <2>3, <2>4 DEF KnowsJournal, StatesAt, SyncedPcs, RecoveryPcs, RevertPcs
    <2>6. KnowsRelease(q)'
        BY <1>2, <2>1, <2>3 DEF ProcInv, KnowsRelease
    <2>7. KnowsTree(q)'
        BY <2>1 DEF KnowsTree, TargetPcs
    <2>8. KnowsProbation(q)'
        BY <2>1 DEF KnowsProbation, RevertPcs
    <2> QED BY <2>2, <2>5, <2>6, <2>7, <2>8 DEF ProcInv
<1> QED BY <1>1, <1>2

(* What holds of the root does not depend on the state of the processes. *)
LEMMA RootKept ==
    ASSUME RootOK, UNCHANGED <<journal, current, dirs, probation>>
    PROVE  RootOK'
BY DEF RootOK, CurrentWhole, FallbackWhole, DeferredWhole, InFlightOK, ProbationOK, InFlight,
   Interrupted, ProbationPins

(* A call that fails continues where its caller handles the error, and there
   it relies on nothing but the transaction it may have to undo. *)
LEMMA ErrorExit ==
    ASSUME NEW p \in Procs, TypeOK, TypeOK', ProcInv(p), ctx[p] # "none",
           pc'[p] = ErrTo(ctx[p]), ctx'[p] = ctx[p], rel'[p] = rel[p],
           ctx[p] = "txn" => journal'.state \in InterruptedStates \cup {"COMMITTED"}
    PROVE  ProcInv(p)'
<1>1. InContext(p)'
    BY DEF TypeOK, Contexts, InContext, PcsOf, ErrTo, RecoveryPcs, RevertPcs
<1>2. /\ pc'[p] \in {"recheck", "aborted", "undo", "self", "run"}
      /\ pc'[p] = "undo" => ctx[p] = "txn"
    BY DEF ErrTo
<1>3. journal'.state \in JournalStates \cup {"NONE"}
    BY DEF TypeOK, Record
<1>4. KnowsJournal(p)'
    BY <1>2, <1>3 DEF KnowsJournal, StatesAt, SyncedPcs, RecoveryPcs, RevertPcs
<1>5. KnowsRelease(p)'
    BY <1>2 DEF ProcInv, KnowsRelease
<1>6. KnowsTree(p)'
    BY <1>2 DEF KnowsTree, TargetPcs
<1>7. KnowsProbation(p)'
    BY <1>2 DEF KnowsProbation, RevertPcs
<1> QED BY <1>1, <1>4, <1>5, <1>6, <1>7 DEF ProcInv

(* A journal record of a process whose history is the journal on disk: it
   advances the state of the transaction and nothing else, or fails. *)
LEMMA Appended ==
    ASSUME NEW p \in Procs, NEW at \in SyncedPcs, NEW s, NEW next, IndInv,
           AppendStep(p, at, s, next)
    PROVE  Advanced(p, at, s, next)
<1>1. rec[p] = journal /\ journal \in Record
    BY DEF IndInv, ProcInv, KnowsJournal, AppendStep, TypeOK
<1> DEFINE r == [journal EXCEPT !.state = s]
<1>2. r.state = s /\ r.from = journal.from /\ r.to = journal.to
    BY <1>1 DEF Record
<1> HIDE DEF r
<1>3. /\ pc[p] = at /\ ctx' = ctx /\ rel' = rel /\ loc' = loc
      /\ UNCHANGED <<current, dirs, probation>>
    BY DEF AppendStep, UnchangedButJournal
<1>4. \/ journal' = journal /\ pc' = [pc EXCEPT ![p] = ErrTo(ctx[p])] /\ rec' = rec
      \/ journal' = r /\ pc' = [pc EXCEPT ![p] = next] /\ rec' = [rec EXCEPT ![p] = r]
      \/ journal' = r /\ pc' = [pc EXCEPT ![p] = ErrTo(ctx[p])] /\ rec' = rec
    BY <1>1 DEF AppendStep, JournalAppend, WrittenRecord, Goto, Faulty, GotoAll, Stepped, r
<1> QED BY <1>2, <1>3, <1>4 DEF IndInv, TypeOK, Keeps, Advanced

(* Opening the journal and choosing what to do with it. *)
LEMMA RecoverySteps ==
    ASSUME NEW p \in Procs, IndInv, TypeOK',
           \/ RecoverResult(p) \/ RecoverAmbiguous(p) \/ Rollback(p)
           \/ RollbackHook(p) \/ CleanOrphans(p)
    PROVE  Keeps(p) /\ RootOK' /\ ProcInv(p)'
<1>0. /\ journal.state \in JournalStates \cup {"NONE"}
      /\ ProcInv(p) /\ ctx[p] \in Contexts /\ RootOK
    BY DEF IndInv, TypeOK, Record, RootInv, RootOK
<1> USE DEF InContext, KnowsJournal, KnowsRelease, KnowsTree, KnowsProbation, PcsOf, StatesAt,
            SyncedPcs, TargetPcs, RecoveryPcs, RevertPcs, InterruptedStates, SettledStates
<1>1. CASE RecoverResult(p)
    <2>1. /\ pc[p] = "recover" /\ pc'[p] = RecoverTo(ctx[p], journal) /\ ctx'[p] = ctx[p]
          /\ rec'[p] = journal /\ rel'[p] = rel[p] /\ loc'[p] = loc[p]
          /\ UNCHANGED <<journal, current, dirs, probation>>
          /\ Keeps(p)
        BY <1>1 DEF RecoverResult, Keeps, Goto, GotoAll, IndInv, TypeOK, disk
    <2>2. ProcInv(p)'
        BY <1>0, <2>1 DEF ProcInv, RecoverTo, ErrTo, RetTo, JournalStates, Contexts, Resting
    <2> QED BY <1>0, <2>1, <2>2, RootKept
<1>2. CASE RecoverAmbiguous(p)
    <2>1. /\ pc[p] = "ambiguous" /\ pc'[p] \in {"complete", "restore"}
          /\ Same(p) /\ Keeps(p) /\ UNCHANGED <<journal, current, dirs, probation>>
        BY <1>2 DEF RecoverAmbiguous, Keeps, Same, Goto, GotoAll, IndInv, TypeOK, disk, locals
    <2>2. ProcInv(p)'
        BY <1>0, <2>1 DEF ProcInv, Same, Contexts, Resting
    <2> QED BY <1>0, <2>1, <2>2, RootKept
<1>3. CASE Rollback(p)
    <2>1. /\ pc[p] = "undo" /\ ctx'[p] = "undo"
          /\ (pc'[p] = UndoTo("undo", journal) /\ rec'[p] = journal) \/ pc'[p] = "aborted"
          /\ rel'[p] = rel[p] /\ loc'[p] = loc[p]
          /\ UNCHANGED <<journal, current, dirs, probation>>
          /\ Keeps(p)
        BY <1>3 DEF Rollback, Keeps, Goto, GotoAll, Faulty, IndInv, TypeOK, disk, locals
    <2>2. ProcInv(p)'
        BY <1>0, <2>1 DEF ProcInv, Contexts, Resting, UndoTo, JournalStates, ErrTo
    <2> QED BY <1>0, <2>1, <2>2, RootKept
<1>4. CASE CleanOrphans(p)
    <2>1. /\ pc[p] = "clean" /\ pc'[p] \in {RetTo(ctx[p]), ErrTo(ctx[p])}
          /\ Same(p)
          /\ UNCHANGED <<journal, current, dirs, probation>>
          /\ Keeps(p)
        BY <1>4
        DEF CleanOrphans, Keeps, Written, Goto, GotoAll, Faulty, IndInv, TypeOK, locals, Same
    <2>2. ProcInv(p)'
        BY <1>0, <2>1 DEF ProcInv, Contexts, Resting, RetTo, ErrTo, Same, JournalStates
    <2> QED BY <1>0, <2>1, <2>2, RootKept
<1>5. CASE RollbackHook(p)
    <2>1. /\ pc[p] = "rbhook" /\ pc'[p] = "rmtree"
          /\ Same(p)
          /\ UNCHANGED <<journal, current, dirs, probation>>
          /\ Keeps(p)
        BY <1>5 DEF RollbackHook, Keeps, Goto, GotoAll, IndInv, TypeOK, locals, Same, disk
    <2>2. ProcInv(p)'
        BY <1>0, <2>1 DEF ProcInv, Contexts, Resting, RetTo, ErrTo, Same
    <2> QED BY <1>0, <2>1, <2>2, RootKept
<1> QED BY <1>1, <1>2, <1>3, <1>4, <1>5

(* A rollback restores the pointer before it removes the tree: the tree it
   removes is the one the transaction was going to, never the live one. *)
LEMMA RollbackSteps ==
    ASSUME NEW p \in Procs, IndInv, TypeOK',
           RestorePointer(p) \/ RollbackTree(p) \/ RollbackRecord(p)
    PROVE  Keeps(p) /\ RootOK' /\ ProcInv(p)'
<1>0. /\ journal.state \in JournalStates \cup {"NONE"}
      /\ ProcInv(p) /\ ctx[p] \in Contexts /\ RootOK
    BY DEF IndInv, TypeOK, Record, RootInv, RootOK
<1> USE DEF InContext, KnowsJournal, KnowsRelease, KnowsTree, KnowsProbation, PcsOf, StatesAt,
            SyncedPcs, TargetPcs, RecoveryPcs, RevertPcs, InterruptedStates, SettledStates
<1>1. CASE RestorePointer(p)
    <2>1. /\ pc[p] = "restore" /\ Keeps(p) /\ Same(p)
          /\ UNCHANGED <<journal, dirs, probation>>
          /\ \/ pc'[p] = AfterRestore(rec[p]) /\ current' = rec[p].from
             \/ pc'[p] = ErrTo(ctx[p]) /\ current' \in {current, rec[p].from}
        BY <1>1
        DEF RestorePointer, Keeps, Same, Written, Goto, GotoAll, Faulty, IndInv, TypeOK, locals
    <2>2. Interrupted(journal) /\ rec[p] = journal
        BY <1>0, <2>1 DEF ProcInv, Interrupted
    <2>3. RootOK'
        BY <1>0, <2>1, <2>2
        DEF RootOK, CurrentWhole, FallbackWhole, DeferredWhole, InFlightOK, ProbationOK,
            InFlight, Interrupted, ProbationPins
    <2>4. ProcInv(p)'
        BY <1>0, <2>1, <2>2
        DEF ProcInv, AfterRestore, ErrTo, Same, Contexts, Resting, JournalStates
    <2> QED BY <2>1, <2>3, <2>4
<1>2. CASE RollbackTree(p)
    <2>1. pc[p] = "rmtree" /\ Interrupted(journal) /\ rec[p] = journal /\ current = journal.from
        BY <1>0, <1>2 DEF ProcInv, Interrupted, RollbackTree
    <2>2. /\ Keeps(p) /\ Same(p)
          /\ UNCHANGED <<journal, current, probation>>
          /\ pc'[p] \in {"rmtree", "rbrecord"}
          /\ \A v \in Versions \ {journal.to} : dirs'[v] = dirs[v]
        BY <1>2, <2>1
        DEF RollbackTree, RemoveTree, Keeps, Same, Goto, GotoAll, IndInv, TypeOK, locals
    <2>3. RootOK'
        <3>1. current # NoVersion => current \in Versions
            BY DEF IndInv, TypeOK, VersionOrNone, NoVersion, Versions
        <3>2. journal.to # current
            BY <1>0, <2>1 DEF RootOK, InFlightOK, InFlight, Interrupted
        <3>3. ProbationPins # {} => probation.previous # journal.to
            BY <1>0, <2>1 DEF RootOK, ProbationOK, InFlight, Interrupted, ProbationPins
        <3> QED BY <1>0, <2>1, <2>2, <3>1, <3>2, <3>3
                DEF RootOK, CurrentWhole, FallbackWhole, DeferredWhole, InFlightOK,
                    ProbationOK, InFlight, Interrupted, ProbationPins
    <2>4. ProcInv(p)'
        BY <1>0, <2>1, <2>2 DEF ProcInv, Same, Contexts, Resting, JournalStates
    <2> QED BY <2>2, <2>3, <2>4
<1>3. CASE RollbackRecord(p)
    <2>1. Advanced(p, "rbrecord", "ROLLED_BACK", "clean")
        BY <1>3, Appended DEF RollbackRecord
    <2>2. RootOK'
        BY <1>0, <2>1
        DEF Advanced, RootOK, CurrentWhole, FallbackWhole, DeferredWhole, InFlightOK,
            ProbationOK, InFlight, Interrupted, ProbationPins
    <2>3. ProcInv(p)'
        BY <1>0, <2>1 DEF Advanced, ProcInv, ErrTo, Contexts, Resting, JournalStates
    <2> QED BY <2>1, <2>2, <2>3 DEF Advanced
<1> QED BY <1>1, <1>2, <1>3

(* A transaction whose swap happened is recorded as swapped and committed. *)
LEMMA CompletionSteps ==
    ASSUME NEW p \in Procs, IndInv, TypeOK',
           \/ Complete(p) \/ RecordSwapped(p) \/ WriteInstall(p) \/ RecordCommitted(p)
           \/ SettleCommitted(p)
    PROVE  Keeps(p) /\ RootOK' /\ ProcInv(p)'
<1>0. /\ journal.state \in JournalStates \cup {"NONE"}
      /\ ProcInv(p) /\ ctx[p] \in Contexts /\ RootOK
    BY DEF IndInv, TypeOK, Record, RootInv, RootOK
<1> USE DEF InContext, KnowsJournal, KnowsRelease, KnowsTree, KnowsProbation, PcsOf, StatesAt,
            SyncedPcs, TargetPcs, RecoveryPcs, RevertPcs, InterruptedStates, SettledStates
<1>1. CASE Complete(p)
    <2>1. /\ pc[p] = "complete" /\ Keeps(p) /\ Same(p) /\ Quiet
          /\ pc'[p] = IF current # rec[p].to THEN ErrTo(ctx[p])
                      ELSE IF rec[p].state = "MIGRATED" THEN "swapped" ELSE "install"
        BY <1>1 DEF Complete, Keeps, Same, Quiet, Goto, GotoAll, IndInv, TypeOK, disk, locals
    <2>2. ProcInv(p)'
        BY <1>0, <2>1 DEF ProcInv, ErrTo, Same, Quiet, Contexts, Resting, JournalStates
    <2> QED BY <1>0, <2>1, <2>2, RootKept DEF Quiet
<1>2. CASE RecordSwapped(p)
    <2> DEFINE next == CASE ctx[p] = "txn" -> (IF VerifyAfterApply THEN "verify" ELSE "install")
                         [] ctx[p] = "resume" -> "complete"
                         [] OTHER -> "install"
    <2>1. Advanced(p, "swapped", "SWAPPED", next)
        BY <1>2, Appended DEF RecordSwapped
    <2>2. RootOK'
        BY <1>0, <2>1
        DEF Advanced, ProcInv, RootOK, CurrentWhole, FallbackWhole, DeferredWhole, InFlightOK,
            ProbationOK, InFlight, Interrupted, ProbationPins
    <2>3. ProcInv(p)'
        BY <1>0, <2>1 DEF Advanced, ProcInv, ErrTo, Contexts, Resting, JournalStates
    <2> QED BY <2>1, <2>2, <2>3 DEF Advanced
<1>3. CASE WriteInstall(p)
    <2>1. /\ pc[p] = "install" /\ Keeps(p) /\ Same(p) /\ Quiet
          /\ pc'[p] \in {"commit", ErrTo(ctx[p])}
        BY <1>3
        DEF WriteInstall, Keeps, Same, Quiet, Written, Goto, Faulty, GotoAll, IndInv, TypeOK,
            locals
    <2>2. ProcInv(p)'
        BY <1>0, <2>1 DEF ProcInv, ErrTo, Same, Quiet, Contexts, Resting, JournalStates
    <2> QED BY <1>0, <2>1, <2>2, RootKept DEF Quiet
<1>4. CASE RecordCommitted(p)
    <2>1. Advanced(p, "commit", "COMMITTED", IF ctx[p] = "txn" THEN "promote" ELSE "settle")
        BY <1>4, Appended DEF RecordCommitted
    <2>2. RootOK'
        BY <1>0, <2>1
        DEF Advanced, ProcInv, RootOK, CurrentWhole, FallbackWhole, DeferredWhole, InFlightOK,
            ProbationOK, InFlight, Interrupted, ProbationPins
    <2>3. ProcInv(p)'
        BY <1>0, <2>1 DEF Advanced, ProcInv, ErrTo, Contexts, Resting, JournalStates
    <2> QED BY <2>1, <2>2, <2>3 DEF Advanced
<1>5. CASE SettleCommitted(p)
    <2>1. /\ pc[p] = "settle" /\ Keeps(p) /\ Same(p) /\ Quiet
          /\ pc'[p] \in {"clean", ErrTo(ctx[p])}
        BY <1>5
        DEF SettleCommitted, Keeps, Same, Quiet, Written, Goto, Faulty, GotoAll, IndInv,
            TypeOK, locals
    <2>2. ProcInv(p)'
        BY <1>0, <2>1 DEF ProcInv, ErrTo, Same, Quiet, Contexts, Resting, JournalStates
    <2> QED BY <1>0, <2>1, <2>2, RootKept DEF Quiet
<1> QED BY <1>1, <1>2, <1>3, <1>4, <1>5

(* The migration, the swap, and the collection of old versions: the swap finds
   a whole tree, and the collection spares the live one and the fallback. *)
LEMMA SwitchSteps ==
    ASSUME NEW p \in Procs, IndInv, TypeOK', Migrate(p) \/ RecordMigrated(p) \/ Swap(p) \/ GC(p)
    PROVE  Keeps(p) /\ RootOK' /\ ProcInv(p)'
<1>0. /\ journal.state \in JournalStates \cup {"NONE"}
      /\ ProcInv(p) /\ ctx[p] \in Contexts /\ RootOK
    BY DEF IndInv, TypeOK, Record, RootInv, RootOK
<1> USE DEF InContext, KnowsJournal, KnowsRelease, KnowsTree, KnowsProbation, PcsOf, StatesAt,
            SyncedPcs, TargetPcs, RecoveryPcs, RevertPcs, InterruptedStates, SettledStates
<1>1. CASE Migrate(p)
    <2>1. /\ pc[p] = "migrate" /\ Keeps(p) /\ Same(p) /\ Quiet
          /\ pc'[p] \in {"migrate", "migrated"}
        BY <1>1 DEF Migrate, Keeps, Same, Quiet, Goto, GotoAll, IndInv, TypeOK, disk, locals
    <2>2. ProcInv(p)'
        BY <1>0, <2>1 DEF ProcInv, Same, Quiet, Contexts, Resting, JournalStates
    <2> QED BY <1>0, <2>1, <2>2, RootKept DEF Quiet
<1>2. CASE RecordMigrated(p)
    <2>1. Advanced(p, "migrated", "MIGRATED", "swap")
        BY <1>2, Appended DEF RecordMigrated
    <2>2. RootOK'
        BY <1>0, <2>1
        DEF Advanced, ProcInv, RootOK, CurrentWhole, FallbackWhole, DeferredWhole, InFlightOK,
            ProbationOK, InFlight, Interrupted, ProbationPins
    <2>3. ProcInv(p)'
        BY <1>0, <2>1 DEF Advanced, ProcInv, ErrTo, Contexts, Resting, JournalStates
    <2> QED BY <2>1, <2>2, <2>3 DEF Advanced
<1>3. CASE Swap(p)
    <2>1. /\ pc[p] = "swap" /\ Keeps(p) /\ Same(p)
          /\ UNCHANGED <<journal, dirs, probation>>
          /\ \/ pc'[p] = "swapped" /\ current' = rec[p].to
             \/ pc'[p] = ErrTo(ctx[p]) /\ current' \in {current, rec[p].to}
        BY <1>3 DEF Swap, Keeps, Same, Written, Goto, GotoAll, Faulty, IndInv, TypeOK, locals
    <2>2. /\ journal.state = "MIGRATED" /\ rec[p] = journal /\ dirs[journal.to] = "whole"
          /\ journal.to # NoVersion
        BY <1>0, <2>1
        DEF ProcInv, RootOK, InFlightOK, InFlight, Interrupted, Versions, NoVersion
    <2>3. RootOK'
        BY <1>0, <2>1, <2>2
        DEF RootOK, CurrentWhole, FallbackWhole, DeferredWhole, InFlightOK, ProbationOK,
            InFlight, Interrupted, ProbationPins
    <2>4. ProcInv(p)'
        BY <1>0, <2>1, <2>2 DEF ProcInv, ErrTo, Same, Contexts, Resting, JournalStates
    <2> QED BY <2>1, <2>3, <2>4
<1>4. CASE GC(p)
    <2>1. /\ pc[p] = "gc" /\ Keeps(p) /\ Same(p)
          /\ UNCHANGED <<journal, current, probation>>
          /\ pc'[p] \in {"gc", AfterGC(p)}
          /\ \A v \in Versions \ Victims : dirs'[v] = dirs[v]
        BY <1>4 DEF GC, Keeps, Same, Goto, GotoAll, Faulty, IndInv, TypeOK, locals
    <2>2. journal.state = "COMMITTED"
        BY <1>0, <2>1 DEF ProcInv
    <2>3. current # NoVersion => current \in Versions \ Victims
        BY <1>0, PolicyAssumption
        DEF Victims, Retained, InstalledVersions, Exists, RootOK, CurrentWhole, IndInv, TypeOK,
            VersionOrNone, NoVersion, Versions
    <2>4. ProbationPins \cap Victims = {}
        BY DEF Victims
    <2>5. RootOK'
        BY <1>0, <2>1, <2>2, <2>3, <2>4
        DEF RootOK, CurrentWhole, FallbackWhole, DeferredWhole, InFlightOK, ProbationOK,
            InFlight, Interrupted, ProbationPins
    <2>6. ProcInv(p)'
        BY <1>0, <2>1, <2>2 DEF ProcInv, AfterGC, Same, Contexts, Resting, JournalStates
    <2> QED BY <2>1, <2>5, <2>6
<1> QED BY <1>1, <1>2, <1>3, <1>4

(* Up to BEGIN: the fallback that is armed is whole, and the release that
   begins differs from the live version and from what a probation returns to. *)
LEMMA PreparationSteps ==
    ASSUME NEW p \in Procs, IndInv, TypeOK', Uniform,
           Recheck(p) \/ Preflight(p) \/ ArmProbation(p) \/ Begin(p)
    PROVE  Keeps(p) /\ RootOK' /\ ProcInv(p)'
<1>0. /\ journal.state \in JournalStates \cup {"NONE"}
      /\ ProcInv(p) /\ ctx[p] \in Contexts /\ RootOK
    BY DEF IndInv, TypeOK, Record, RootInv, RootOK
<1> USE DEF InContext, KnowsJournal, KnowsRelease, KnowsTree, KnowsProbation, PcsOf, StatesAt,
            SyncedPcs, TargetPcs, RecoveryPcs, RevertPcs, InterruptedStates, SettledStates
<1>1. CASE Recheck(p)
    <2>1. /\ pc[p] = "recheck" /\ Keeps(p) /\ Quiet
          /\ pc'[p] = "recover" /\ ctx'[p] = "apply"
          /\ rec'[p] = rec[p] /\ rel'[p] = rel[p] /\ loc'[p] = loc[p]
        BY <1>1 DEF Recheck, Keeps, Quiet, Goto, GotoAll, IndInv, TypeOK, disk
    <2>2. ProcInv(p)'
        BY <1>0, <2>1 DEF ProcInv, Quiet, Contexts, Resting, JournalStates
    <2> QED BY <1>0, <2>1, <2>2, RootKept DEF Quiet
<1>2. CASE Preflight(p)
    <2>1. /\ pc[p] = "preflight" /\ Keeps(p) /\ Same(p) /\ Quiet
          /\ pc'[p] = PreflightTo(p)
        BY <1>2 DEF Preflight, Keeps, Same, Quiet, Goto, GotoAll, IndInv, TypeOK, disk, locals
    <2>2. ProcInv(p)'
        BY <1>0, <2>1 DEF ProcInv, PreflightTo, Same, Quiet, Contexts, Resting, JournalStates
    <2> QED BY <1>0, <2>1, <2>2, RootKept DEF Quiet
<1>3. CASE ArmProbation(p)
    <2> DEFINE v == rel[p].to
               back == FallbackOf(v, rel[p].from)
               armed == [NoProbation EXCEPT !.status = "probation", !.version = v,
                                            !.previous = back, !.blocked = probation.blocked]
    <2>1. /\ pc[p] = "arm" /\ ctx[p] = "apply" /\ v \in Versions /\ current = rel[p].from /\ v # current
        BY <1>0, <1>3 DEF ProcInv, ArmProbation, Contexts, Resting
    <2>2. /\ Keeps(p) /\ UNCHANGED <<journal, current, dirs>>
          /\ rec'[p] = journal /\ ctx'[p] = ctx[p] /\ rel'[p] = rel[p] /\ loc'[p] = loc[p]
        BY <1>3 DEF ArmProbation, Keeps, Written, Goto, Faulty, GotoAll, IndInv, TypeOK
    <2>3. \/ /\ current = NoVersion \/ Attempts[v] = 0
             /\ pc'[p] = "begin" /\ probation' = probation
          \/ pc'[p] = ErrTo(ctx[p]) /\ probation' = probation
          \/ /\ current # NoVersion /\ Attempts[v] # 0
             /\ pc'[p] \in {"begin", ErrTo(ctx[p])} /\ probation' = armed
        BY <1>3, <2>1 DEF ArmProbation, Written, Goto, Faulty, GotoAll, IndInv, TypeOK
    <2>4. armed.status = "probation" /\ armed.version = v /\ armed.previous = back
        BY DEF NoProbation
    <2>5. /\ back # v
          /\ \/ back = current
             \/ back = probation.previous /\ ProbationPins # {} /\ probation.version = current
        BY <2>1 DEF FallbackOf, ProbationPins
    <2> HIDE DEF armed, back
    <2>6. CASE probation' = probation
        <3>1. pc'[p] = "begin" /\ (current = NoVersion \/ Attempts[v] = 0) => probation.status = "none"
            BY <1>0, <2>1 DEF RootOK, ProbationOK
        <3>2. ProcInv(p)'
            BY <1>0, <2>1, <2>2, <2>3, <2>4, <2>5, <2>6, <3>1
            DEF ProcInv, ErrTo, Contexts, Resting, JournalStates
        <3> QED BY <1>0, <2>2, <2>6, <3>2, RootKept
    <2>7. CASE /\ probation' = armed /\ current # NoVersion /\ Attempts[v] # 0
               /\ pc'[p] \in {"begin", ErrTo(ctx[p])}
        <3>1. \A w \in Versions : Attempts[w] # 0
            BY <2>1, <2>7 DEF Uniform
        <3>2. InFlight(journal) => journal.state = "DEFERRED"
            BY <1>0, <2>1 DEF ProcInv, InFlight, Interrupted
        <3>3. back \in Versions /\ dirs[back] = "whole"
            <4>1. current \in Versions /\ dirs[current] = "whole"
                BY <1>0, <2>7, PolicyAssumption
                DEF RootOK, CurrentWhole, IndInv, TypeOK, VersionOrNone, Versions, NoVersion
            <4> QED BY <1>0, <2>5, <4>1 DEF RootOK, ProbationOK
        <3>4. RootOK'
            BY <1>0, <2>1, <2>2, <2>4, <2>5, <2>7, <3>1, <3>2, <3>3
            DEF RootOK, CurrentWhole, FallbackWhole, DeferredWhole, InFlightOK, ProbationOK,
                InFlight, Interrupted, ProbationPins
        <3>5. ProcInv(p)'
            BY <1>0, <2>1, <2>2, <2>4, <2>5, <2>7
            DEF ProcInv, ErrTo, Contexts, Resting, JournalStates
        <3> QED BY <2>2, <3>4, <3>5
    <2> QED BY <2>3, <2>6, <2>7
<1>4. CASE Begin(p)
    <2> DEFINE r == [state |-> "BEGIN", from |-> rel[p].from, to |-> rel[p].to]
    <2>1. /\ pc[p] = "begin" /\ ctx[p] = "apply" /\ rel[p].to \in Versions
          /\ current = rel[p].from /\ rel[p].to # current
        BY <1>0, <1>4 DEF ProcInv, Begin, Contexts, Resting
    <2>2. r.state = "BEGIN" /\ r.from = current /\ r.to = rel[p].to
        BY <2>1
    <2> HIDE DEF r
    <2>3. /\ Keeps(p) /\ UNCHANGED <<current, dirs, probation>>
          /\ rel'[p] = rel[p] /\ loc'[p] = loc[p]
          /\ \/ journal' = r /\ pc'[p] = "stage" /\ ctx'[p] = "txn" /\ rec'[p] = r
             \/ journal' \in {r, journal} /\ pc'[p] = "aborted" /\ ctx'[p] = "apply"
        BY <1>4, <2>1
        DEF Begin, JournalAppend, WrittenRecord, Keeps, Goto, Faulty, GotoAll, ErrTo, IndInv,
            TypeOK, r
    <2>4. RootOK'
        BY <1>0, <2>1, <2>2, <2>3
        DEF ProcInv, RootOK, CurrentWhole, FallbackWhole, DeferredWhole, InFlightOK,
            ProbationOK, InFlight, Interrupted, ProbationPins
    <2>5. ProcInv(p)'
      <3>1. journal'.state \in JournalStates \cup {"NONE"}
        BY DEF TypeOK, Record
      <3> QED
        BY <1>0, <2>1, <2>2, <2>3, <3>1 DEF ProcInv, Contexts, Resting, JournalStates
    <2> QED BY <2>3, <2>4, <2>5
<1> QED BY <1>1, <1>2, <1>3, <1>4

(* From BEGIN to a staged or deferred update: the only directory touched is
   one that was not there. *)
LEMMA StagingSteps ==
    ASSUME NEW p \in Procs, IndInv, TypeOK',
           \/ StageFiles(p) \/ StagePlace(p) \/ RecordStaged(p)
           \/ QuiesceHeld(p) \/ QuiesceTimeout(p) \/ RecordDeferred(p)
    PROVE  Keeps(p) /\ RootOK' /\ ProcInv(p)'
<1>0. /\ journal.state \in JournalStates \cup {"NONE"}
      /\ ProcInv(p) /\ ctx[p] \in Contexts /\ RootOK
    BY DEF IndInv, TypeOK, Record, RootInv, RootOK
<1> USE DEF InContext, KnowsJournal, KnowsRelease, KnowsTree, KnowsProbation, PcsOf, StatesAt,
            SyncedPcs, TargetPcs, RecoveryPcs, RevertPcs, InterruptedStates, SettledStates
<1>1. CASE StageFiles(p)
    <2>1. /\ pc[p] = "stage" /\ Keeps(p) /\ Same(p) /\ Quiet
          /\ pc'[p] \in {"place", ErrTo(ctx[p])}
        BY <1>1
        DEF StageFiles, Keeps, Same, Quiet, Written, Goto, Faulty, GotoAll, IndInv, TypeOK,
            locals
    <2>2. ProcInv(p)'
        BY <1>0, <2>1 DEF ProcInv, ErrTo, Same, Quiet, Contexts, Resting, JournalStates
    <2> QED BY <1>0, <2>1, <2>2, RootKept DEF Quiet
<1>2. CASE StagePlace(p)
    <2>1. pc[p] = "place" /\ rec[p] = journal /\ journal.state = "BEGIN" /\ ctx[p] = "txn"
        BY <1>0, <1>2 DEF ProcInv, StagePlace, Contexts, Resting
    <2>2. /\ Keeps(p) /\ Same(p) /\ UNCHANGED <<journal, current, probation>>
          /\ \A v \in Versions : dirs[v] = "whole" => dirs'[v] = "whole"
          /\ \/ pc'[p] = "staged" /\ dirs'[journal.to] = "whole"
             \/ pc'[p] = ErrTo(ctx[p])
        <3>1. journal.to \in Versions
            BY <1>0, <2>1 DEF RootOK, InFlightOK, InFlight, Interrupted
        <3> QED BY <1>2, <2>1, <3>1
                DEF StagePlace, Exists, Keeps, Same, Goto, Faulty, GotoAll, IndInv, TypeOK,
                    locals
    <2>3. RootOK'
      <3>1. current \in VersionOrNone /\ journal.from \in VersionOrNone
        BY DEF IndInv, TypeOK, Record
      <3>2. /\ current # NoVersion => current \in Versions
            /\ journal.from # NoVersion => journal.from \in Versions
        BY <3>1, PolicyAssumption DEF VersionOrNone, NoVersion, Versions
      <3> QED
        BY <1>0, <2>1, <2>2, <3>2
        DEF RootOK, CurrentWhole, FallbackWhole, DeferredWhole, InFlightOK, ProbationOK,
            InFlight, Interrupted, ProbationPins
    <2>4. ProcInv(p)'
        BY <1>0, <2>1, <2>2 DEF ProcInv, ErrTo, Same, Contexts, Resting, JournalStates
    <2> QED BY <2>2, <2>3, <2>4
<1>3. CASE RecordStaged(p)
    <2>1. Advanced(p, "staged", "STAGED", "quiesce")
        BY <1>3, Appended DEF RecordStaged
    <2>2. RootOK'
        BY <1>0, <2>1
        DEF Advanced, ProcInv, RootOK, CurrentWhole, FallbackWhole, DeferredWhole, InFlightOK,
            ProbationOK, InFlight, Interrupted, ProbationPins
    <2>3. ProcInv(p)'
        BY <1>0, <2>1 DEF Advanced, ProcInv, ErrTo, Contexts, Resting, JournalStates
    <2> QED BY <2>1, <2>2, <2>3 DEF Advanced
<1>4. CASE QuiesceHeld(p)
    <2>1. /\ pc[p] = "quiesce" /\ Keeps(p) /\ Same(p) /\ Quiet /\ pc'[p] = "migrate"
        BY <1>4 DEF QuiesceHeld, Keeps, Same, Quiet, Goto, GotoAll, IndInv, TypeOK, disk, locals
    <2>2. ProcInv(p)'
        BY <1>0, <2>1 DEF ProcInv, Same, Quiet, Contexts, Resting, JournalStates
    <2> QED BY <1>0, <2>1, <2>2, RootKept DEF Quiet
<1>5. CASE QuiesceTimeout(p)
    <2>1. /\ pc[p] = "quiesce" /\ Keeps(p) /\ Same(p) /\ Quiet
          /\ pc'[p] \in {"defer", "migrate", ErrTo(ctx[p])}
        BY <1>5
        DEF QuiesceTimeout, Keeps, Same, Quiet, Goto, GotoAll, IndInv, TypeOK, disk, locals
    <2>2. ProcInv(p)'
        BY <1>0, <2>1 DEF ProcInv, ErrTo, Same, Quiet, Contexts, Resting, JournalStates
    <2> QED BY <1>0, <2>1, <2>2, RootKept DEF Quiet
<1>6. CASE RecordDeferred(p)
    <2>1. /\ pc[p] = "defer" /\ rec[p] = journal /\ ctx[p] = "txn" /\ journal.state = "STAGED"
          /\ dirs[journal.to] = "whole" /\ journal \in Record
        BY <1>0, <1>6 DEF ProcInv, RecordDeferred, Contexts, Resting, IndInv, TypeOK
    <2> DEFINE r == [journal EXCEPT !.state = "DEFERRED"]
    <2>2. r.state = "DEFERRED" /\ r.from = journal.from /\ r.to = journal.to
        BY <2>1 DEF Record
    <2> HIDE DEF r
    <2>3. /\ Keeps(p) /\ Same(p) /\ UNCHANGED <<current, dirs, probation>>
          /\ pc'[p] = "deferred" /\ journal' \in {journal, r}
        BY <1>6, <2>1
        DEF RecordDeferred, Stepped, Keeps, Same, Goto, Faulty, GotoAll, IndInv, TypeOK,
            locals, r
    <2>4. RootOK'
        BY <1>0, <2>1, <2>2, <2>3
        DEF RootOK, CurrentWhole, FallbackWhole, DeferredWhole, InFlightOK, ProbationOK,
            InFlight, Interrupted, ProbationPins
    <2>5. ProcInv(p)'
        BY <1>0, <2>1, <2>2, <2>3 DEF ProcInv, Same, Contexts, Resting, JournalStates
    <2> QED BY <2>3, <2>4, <2>5
<1> QED BY <1>1, <1>2, <1>3, <1>4, <1>5, <1>6

(* The end of an apply, and its start. *)
LEMMA OutcomeSteps ==
    ASSUME NEW p \in Procs, IndInv, TypeOK',
           \/ Verify(p) \/ PromoteAfterCommit(p) \/ SweepStaging(p) \/ ReportOutcome(p) \/ Apply(p)
    PROVE  Keeps(p) /\ RootOK' /\ ProcInv(p)'
<1>0. /\ journal.state \in JournalStates \cup {"NONE"}
      /\ ProcInv(p) /\ ctx[p] \in Contexts /\ RootOK
    BY DEF IndInv, TypeOK, Record, RootInv, RootOK
<1> USE DEF InContext, KnowsJournal, KnowsRelease, KnowsTree, KnowsProbation, PcsOf, StatesAt,
            SyncedPcs, TargetPcs, RecoveryPcs, RevertPcs, InterruptedStates, SettledStates
<1>1. CASE Verify(p) \/ PromoteAfterCommit(p) \/ SweepStaging(p)
    <2>1. /\ Keeps(p) /\ Same(p) /\ Quiet
          /\ \/ pc[p] = "verify" /\ pc'[p] = "install"
             \/ pc[p] = "promote" /\ pc'[p] \in {"sweep", "gc"}
             \/ pc[p] = "sweep" /\ pc'[p] = "gc"
        BY <1>1
        DEF Verify, PromoteAfterCommit, SweepStaging, Keeps, Same, Quiet, Goto, Faulty,
            GotoAll, IndInv, TypeOK, locals, disk
    <2>2. ProcInv(p)'
        BY <1>0, <2>1 DEF ProcInv, ErrTo, Same, Quiet, Contexts, Resting, JournalStates
    <2> QED BY <1>0, <2>1, <2>2, RootKept DEF Quiet
<1>2. CASE ReportOutcome(p)
    <2>1. Keeps(p) /\ Quiet /\ pc'[p] = "idle" /\ ctx'[p] = "none"
        BY <1>2 DEF ReportOutcome, Forget, Keeps, Quiet, Goto, GotoAll, IndInv, TypeOK, disk
    <2>2. ProcInv(p)'
        BY <1>0, <2>1 DEF ProcInv, Quiet, Resting
    <2> QED BY <1>0, <2>1, <2>2, RootKept DEF Quiet
<1>3. CASE Apply(p)
    <2>1. /\ Keeps(p) /\ Quiet /\ pc[p] = "checked" /\ pc'[p] = "recover" /\ ctx'[p] = "plan"
          /\ rel'[p] = rel[p]
        BY <1>3 DEF Apply, Keeps, Quiet, Goto, GotoAll, IndInv, TypeOK, disk
    <2>2. ProcInv(p)'
        BY <1>0, <2>1 DEF ProcInv, Quiet, Resting
    <2> QED BY <1>0, <2>1, <2>2, RootKept DEF Quiet
<1> QED BY <1>1, <1>2, <1>3

(* A start up to the decision about the probation: only a record with a whole
   fallback, under a settled journal, leads to a revert. *)
LEMMA StartSteps ==
    ASSUME NEW p \in Procs, IndInv, TypeOK',
           Start(p) \/ ResumeLock(p) \/ ResumeDeferred(p) \/ CheckProbation(p) \/ CountStart(p)
    PROVE  Keeps(p) /\ RootOK' /\ ProcInv(p)'
<1>0. /\ journal.state \in JournalStates \cup {"NONE"}
      /\ ProcInv(p) /\ ctx[p] \in Contexts /\ RootOK
    BY DEF IndInv, TypeOK, Record, RootInv, RootOK
<1> USE DEF InContext, KnowsJournal, KnowsRelease, KnowsTree, KnowsProbation, PcsOf, StatesAt,
            SyncedPcs, TargetPcs, RecoveryPcs, RevertPcs, InterruptedStates, SettledStates
<1>1. CASE Start(p)
    <2>1. Keeps(p) /\ Quiet /\ pc'[p] = "recover" /\ ctx'[p] = "start"
        BY <1>1 DEF Start, Keeps, Quiet, Goto, GotoAll, IndInv, TypeOK, disk
    <2>2. ProcInv(p)'
        BY <1>0, <2>1 DEF ProcInv, Quiet
    <2> QED BY <1>0, <2>1, <2>2, RootKept DEF Quiet
<1>2. CASE ResumeLock(p)
    <2>1. /\ pc[p] = "resumelock" /\ Keeps(p) /\ Quiet
          /\ \/ pc'[p] = "resume" /\ ctx'[p] = "resume"
             \/ pc'[p] = "probation" /\ ctx'[p] = "skip"
        BY <1>2 DEF ResumeLock, Keeps, Quiet, Goto, GotoAll, IndInv, TypeOK, disk
    <2>2. ProcInv(p)'
        BY <1>0, <2>1 DEF ProcInv, Quiet
    <2> QED BY <1>0, <2>1, <2>2, RootKept DEF Quiet
<1>3. CASE ResumeDeferred(p)
    <2>1. /\ pc[p] = "resume" /\ Keeps(p) /\ Quiet /\ ctx'[p] = ctx[p] /\ rec'[p] = journal
          /\ pc'[p] = IF journal.state = "DEFERRED" THEN "migrate" ELSE "gc"
        BY <1>3 DEF ResumeDeferred, Keeps, Quiet, Goto, GotoAll, IndInv, TypeOK, disk
    <2>2. ProcInv(p)'
        BY <1>0, <2>1 DEF ProcInv, Quiet, Contexts, Resting, RootOK, DeferredWhole
    <2> QED BY <1>0, <2>1, <2>2, RootKept DEF Quiet
<1>4. CASE CheckProbation(p)
    <2> DEFINE c == FinishContext(ctx[p])
               next == ProbationTo(c, probation)
               seen == IF next = "count" THEN Counted(probation) ELSE probation
    <2>1. /\ pc[p] = "probation" /\ Keeps(p) /\ Quiet
          /\ ctx'[p] = c /\ pc'[p] = next /\ loc'[p] = seen
        BY <1>4 DEF CheckProbation, Keeps, Quiet, Goto, GotoAll, IndInv, TypeOK, disk
    <2>2. /\ seen.status = probation.status /\ seen.version = probation.version
          /\ seen.previous = probation.previous
          /\ next # "count" => seen = probation
        BY DEF Counted, IndInv, TypeOK, Probation
    <2>3. c \in {"finish", "locked", "skip"}
        BY DEF FinishContext
    <2>4. next \in {"count", "revert"} =>
             /\ probation.status \in {"probation", "unhealthy", "reverting"}
             /\ next = "count" => probation.status = "probation"
             /\ ~InFlight(journal)
        <3>1. ErrTo(c) \notin {"count", "revert"}
            BY DEF ErrTo
        <3>2. next \in {"count", "revert"} =>
                 \/ probation.status = "reverting" /\ next = "revert"
                 \/ /\ probation.status \in {"probation", "unhealthy", "reverted"}
                    /\ current = probation.version
                    /\ next = "count" => probation.status = "probation"
            BY <3>1 DEF ProbationTo, Failed, IndInv, TypeOK, Probation
        <3>3. journal.state \in SettledStates \cup {"DEFERRED"}
            BY <1>0, <2>1 DEF ProcInv
        <3> QED BY <1>0, <3>2, <3>3 DEF RootOK, InFlightOK, ProbationOK, InFlight, Interrupted
    <2>5. next \in {"count", "revert", "self", "run"} /\ (next \in {"self", "run"} => next = ErrTo(c))
        BY <2>3 DEF ProbationTo, ErrTo
    <2> HIDE DEF c, next, seen
    <2>6. next \in {"count", "revert"} =>
             /\ probation.previous \in Versions /\ dirs[probation.previous] = "whole"
             /\ probation.version # probation.previous
             /\ journal.state \in SettledStates
        BY <1>0, <2>1, <2>4 DEF ProcInv, RootOK, ProbationOK, ProbationPins, InFlight
    <2>7. ProcInv(p)'
        BY <1>0, <2>1, <2>2, <2>3, <2>4, <2>5, <2>6 DEF ProcInv, Quiet, ErrTo
    <2> QED BY <1>0, <2>1, <2>7, RootKept DEF Quiet
<1>5. CASE CountStart(p)
    <2>1. /\ pc[p] = "count" /\ Keeps(p) /\ Same(p) /\ UNCHANGED <<journal, current, dirs>>
          /\ probation' = loc[p] /\ pc'[p] = ErrTo(ctx[p])
        BY <1>5
        DEF CountStart, WriteProbation, Written, Keeps, Same, Goto, Faulty, GotoAll, IndInv,
            TypeOK, locals
    <2>2. RootOK'
        BY <1>0, <2>1
        DEF ProcInv, RootOK, CurrentWhole, FallbackWhole, DeferredWhole, InFlightOK,
            ProbationOK, InFlight, Interrupted, ProbationPins
    <2>3. ProcInv(p)'
        BY <1>0, <2>1 DEF ProcInv, Same, ErrTo, Contexts, Resting, JournalStates
    <2> QED BY <2>1, <2>2, <2>3
<1> QED BY <1>1, <1>2, <1>3, <1>4, <1>5

(* The revert moves the pointer to the whole fallback before it removes the
   version that failed. *)
LEMMA RevertSteps ==
    ASSUME NEW p \in Procs, IndInv, TypeOK',
           \/ RevertLock(p) \/ RevertRecord(p) \/ RevertSwap(p) \/ RevertHook(p)
           \/ RevertInstall(p) \/ RevertDone(p) \/ RevertRemove(p)
    PROVE  Keeps(p) /\ RootOK' /\ ProcInv(p)'
<1>0. /\ journal.state \in JournalStates \cup {"NONE"}
      /\ ProcInv(p) /\ ctx[p] \in Contexts /\ RootOK /\ loc[p] \in Probation
    BY DEF IndInv, TypeOK, Record, RootInv, RootOK
<1> USE DEF InContext, KnowsJournal, KnowsRelease, KnowsTree, KnowsProbation, PcsOf, StatesAt,
            SyncedPcs, TargetPcs, RecoveryPcs, RevertPcs, InterruptedStates, SettledStates
<1>1. CASE RevertLock(p) \/ RevertHook(p) \/ RevertInstall(p)
    <2>1. /\ Keeps(p) /\ Same(p) /\ Quiet
          /\ \/ pc[p] = "revert" /\ pc'[p] \in {"fallback", ErrTo(ctx[p])}
             \/ pc[p] = "rvhook" /\ pc'[p] = "rvinstall"
             \/ pc[p] = "rvinstall" /\ pc'[p] \in {"rvdone", ErrTo(ctx[p])}
        BY <1>1
        DEF RevertLock, RevertHook, RevertInstall, Keeps, Same, Quiet, Written, Goto, Faulty,
            GotoAll, IndInv, TypeOK, disk, locals
    <2>2. ProcInv(p)'
        BY <1>0, <2>1 DEF ProcInv, Same, Quiet, ErrTo, Contexts, Resting, JournalStates
    <2> QED BY <1>0, <2>1, <2>2, RootKept DEF Quiet
<1>2. CASE RevertRecord(p)
    <2> DEFINE decided == [loc[p] EXCEPT !.status = "reverting"]
    <2>1. /\ decided.status = "reverting" /\ decided.version = loc[p].version
          /\ decided.previous = loc[p].previous
        BY <1>0 DEF Probation
    <2>2. pc[p] = "fallback" /\ Exists(loc[p].previous)
        BY <1>0, <1>2 DEF ProcInv, RevertRecord, Exists
    <2> HIDE DEF decided
    <2>3. /\ Keeps(p) /\ UNCHANGED <<journal, current, dirs>>
          /\ ctx'[p] = ctx[p] /\ rec'[p] = rec[p] /\ rel'[p] = rel[p]
          /\ \/ /\ loc[p].status = "reverting" /\ pc'[p] = "rvswap"
                /\ probation' = probation /\ loc'[p] = loc[p]
             \/ /\ pc'[p] \in {"rvswap", ErrTo(ctx[p])}
                /\ probation' = decided /\ loc'[p] = decided
        BY <1>2, <2>2
        DEF RevertRecord, WriteProbation, Written, Keeps, Goto, Faulty, GotoAll, IndInv,
            TypeOK, decided
    <2>4. RootOK'
        BY <1>0, <2>1, <2>2, <2>3
        DEF ProcInv, RootOK, CurrentWhole, FallbackWhole, DeferredWhole, InFlightOK,
            ProbationOK, InFlight, Interrupted, ProbationPins
    <2>5. ProcInv(p)'
        BY <1>0, <2>1, <2>2, <2>3 DEF ProcInv, ErrTo, Contexts, Resting, JournalStates
    <2> QED BY <2>3, <2>4, <2>5
<1>3. CASE RevertSwap(p)
    <2>1. /\ pc[p] = "rvswap" /\ Keeps(p) /\ Same(p) /\ UNCHANGED <<journal, dirs, probation>>
          /\ \/ pc'[p] = "rvhook" /\ current' = loc[p].previous
             \/ pc'[p] = ErrTo(ctx[p]) /\ current' \in {current, loc[p].previous}
        BY <1>3
        DEF RevertSwap, Written, Keeps, Same, Goto, Faulty, GotoAll, IndInv, TypeOK, locals
    <2>2. loc[p].previous # NoVersion
        BY <1>0, <2>1 DEF ProcInv, Versions, NoVersion
    <2>3. RootOK'
        BY <1>0, <2>1, <2>2
        DEF ProcInv, RootOK, CurrentWhole, FallbackWhole, DeferredWhole, InFlightOK,
            ProbationOK, InFlight, Interrupted, ProbationPins
    <2>4. ProcInv(p)'
        BY <1>0, <2>1 DEF ProcInv, Same, ErrTo, Contexts, Resting, JournalStates
    <2> QED BY <2>1, <2>3, <2>4
<1>4. CASE RevertDone(p)
    <2> DEFINE done == [loc[p] EXCEPT !.status = "reverted", !.restartPending = FALSE,
                                      !.blocked = loc[p].version]
    <2>1. /\ done.status = "reverted" /\ done.version = loc[p].version
          /\ done.previous = loc[p].previous
        BY <1>0 DEF Probation
    <2> HIDE DEF done
    <2>2. /\ pc[p] = "rvdone" /\ Keeps(p) /\ Same(p) /\ UNCHANGED <<journal, current, dirs>>
          /\ probation' = done /\ pc'[p] \in {"rvremove", ErrTo(ctx[p])}
        BY <1>4
        DEF RevertDone, WriteProbation, Written, Keeps, Same, Goto, Faulty, GotoAll, IndInv,
            TypeOK, locals, done
    <2>3. RootOK'
        BY <1>0, <2>1, <2>2
        DEF ProcInv, RootOK, CurrentWhole, FallbackWhole, DeferredWhole, InFlightOK,
            ProbationOK, InFlight, Interrupted, ProbationPins
    <2>4. ProcInv(p)'
        BY <1>0, <2>1, <2>2 DEF ProcInv, Same, ErrTo, Contexts, Resting, JournalStates
    <2> QED BY <2>2, <2>3, <2>4
<1>5. CASE RevertRemove(p)
    <2>1. /\ pc[p] = "rvremove" /\ Keeps(p) /\ Same(p) /\ UNCHANGED <<journal, current, probation>>
          /\ pc'[p] \in {"rvremove", ErrTo(ctx[p])}
          /\ \A v \in Versions \ {loc[p].version} : dirs'[v] = dirs[v]
        BY <1>5
        DEF RevertRemove, RemoveTree, Keeps, Same, Goto, Faulty, GotoAll, IndInv, TypeOK,
            locals
    <2>2. current # NoVersion => current \in Versions
        BY PolicyAssumption DEF VersionOrNone, NoVersion, Versions, IndInv, TypeOK
    <2>3. RootOK'
        BY <1>0, <2>1, <2>2
        DEF ProcInv, RootOK, CurrentWhole, FallbackWhole, DeferredWhole, InFlightOK,
            ProbationOK, InFlight, Interrupted, ProbationPins
    <2>4. ProcInv(p)'
        BY <1>0, <2>1 DEF ProcInv, Same, ErrTo, Contexts, Resting, JournalStates
    <2> QED BY <2>1, <2>3, <2>4
<1> QED BY <1>1, <1>2, <1>3, <1>4, <1>5

(* The end of a start, an error and a crash. *)
LEMMA RunSteps ==
    ASSUME NEW p \in Procs, IndInv, TypeOK',
           UpdateSelf(p) \/ DropStaged(p) \/ RunApplication(p) \/ Fail(p) \/ Crash(p)
    PROVE  Keeps(p) /\ RootOK' /\ ProcInv(p)'
<1>0. /\ journal.state \in JournalStates \cup {"NONE"}
      /\ ProcInv(p) /\ ctx[p] \in Contexts /\ RootOK
    BY DEF IndInv, TypeOK, Record, RootInv, RootOK
<1> USE DEF InContext, KnowsJournal, KnowsRelease, KnowsTree, KnowsProbation, PcsOf, StatesAt,
            SyncedPcs, TargetPcs, RecoveryPcs, RevertPcs, InterruptedStates, SettledStates
<1>1. CASE UpdateSelf(p) \/ DropStaged(p)
    <2>1. /\ Keeps(p) /\ Same(p) /\ Quiet
          /\ pc[p] \in {"self", "selfdrop"} /\ pc'[p] \in {"selfdrop", "run"}
        BY <1>1
        DEF UpdateSelf, DropStaged, Keeps, Same, Quiet, Goto, Faulty, GotoAll, IndInv, TypeOK,
            locals
    <2>2. ProcInv(p)'
        BY <1>0, <2>1 DEF ProcInv, Same, Quiet, Contexts, Resting, JournalStates
    <2> QED BY <1>0, <2>1, <2>2, RootKept DEF Quiet
<1>2. CASE RunApplication(p) \/ Crash(p)
    <2>1. Keeps(p) /\ Quiet /\ pc'[p] = "idle" /\ ctx'[p] = "none"
        BY <1>2
        DEF RunApplication, Crash, Forget, Keeps, Quiet, Goto, GotoAll, IndInv, TypeOK, disk
    <2>2. ProcInv(p)'
        BY <1>0, <2>1 DEF ProcInv, Quiet, Resting
    <2> QED BY <1>0, <2>1, <2>2, RootKept DEF Quiet
<1>3. CASE Fail(p)
    <2>1. /\ Keeps(p) /\ Same(p) /\ Quiet /\ pc[p] \notin SoftPcs /\ pc[p] \notin Resting
          /\ pc'[p] = ErrTo(ctx[p])
        BY <1>3
        DEF Fail, Active, Faulty, GotoAll, Keeps, Same, Quiet, IndInv, TypeOK, disk, locals
    <2>2. ProcInv(p)'
      <3>1. ctx[p] # "none"
        BY <1>0, <2>1 DEF ProcInv
      <3>2. ctx[p] = "txn" => journal.state \in InterruptedStates \cup {"COMMITTED"}
        BY <1>0, <2>1 DEF ProcInv, SoftPcs, Outcomes
      <3> QED BY <1>0, <2>1, <3>1, <3>2, ErrorExit DEF Same, Quiet, IndInv
    <2> QED BY <1>0, <2>1, <2>2, RootKept DEF Quiet
<1> QED BY <1>1, <1>2, <1>3

(* What the application does to its probation record disturbs no process. *)
LEMMA ApplicationSteps ==
    ASSUME IndInv, Application
    PROVE  RootInv' /\ \A q \in Procs : ProcInv(q)'
<1> DEFINE Edited == /\ probation.status = "probation"
                     /\ probation'.status \in {"probation", "confirmed", "unhealthy"}
                     /\ probation'.version = probation.version
                     /\ probation'.previous = probation.previous
<1>1. UNCHANGED <<journal, current, dirs, pc, ctx, rec, rel, loc>>
    BY DEF Application, MarkHealthy, MarkUnhealthy, Relaunch, AppExit, disk, locals
<1>2. probation' = probation \/ Edited
    <2>1. probation \in Probation
        BY DEF IndInv, TypeOK
    <2>2. CASE MarkHealthy
        BY <2>1, <2>2 DEF MarkHealthy, OnProbation, Probation
    <2>3. CASE MarkUnhealthy
        BY <2>1, <2>3 DEF MarkUnhealthy, OnProbation, Probation
    <2>4. CASE Relaunch
        BY <2>1, <2>4 DEF Relaunch, Probation
    <2>5. CASE AppExit
        BY <2>5 DEF AppExit, disk
    <2> QED BY <2>2, <2>3, <2>4, <2>5 DEF Application
<1>3. RootInv'
    BY <1>1, <1>2
    DEF IndInv, RootInv, CurrentWhole, FallbackWhole, DeferredWhole, OneActive, Active,
        InFlightOK, ProbationOK, InFlight, Interrupted, ProbationPins
<1>4. ASSUME NEW q \in Procs
      PROVE  ProcInv(q)'
    <2>1. ProcInv(q)
        BY DEF IndInv
    <2>2. InContext(q)' /\ KnowsJournal(q)' /\ KnowsTree(q)'
        BY <1>1, <2>1 DEF ProcInv, InContext, KnowsJournal, KnowsTree
    <2>3. KnowsRelease(q)' /\ KnowsProbation(q)'
        BY <1>1, <1>2, <2>1 DEF ProcInv, KnowsRelease, KnowsProbation, RevertPcs
    <2> QED BY <2>2, <2>3 DEF ProcInv
<1> QED BY <1>3, <1>4

(* Resolving a release changes nothing but the process that does it. *)
LEMMA CheckSteps ==
    ASSUME NEW p \in Procs, NEW v \in Versions, IndInv, CheckForUpdate(p, v)
    PROVE  RootInv' /\ \A q \in Procs : ProcInv(q)'
<1>1. /\ pc[p] = "idle" /\ pc'[p] = "checked" /\ rel'[p].to = v
      /\ UNCHANGED <<journal, current, dirs, probation, ctx, rec, loc>>
      /\ \A q \in Procs \ {p} : pc'[q] = pc[q] /\ rel'[q] = rel[q]
    BY DEF CheckForUpdate, Goto, GotoAll, IndInv, TypeOK, disk
<1>2. RootInv'
    BY <1>1
    DEF IndInv, RootInv, CurrentWhole, FallbackWhole, DeferredWhole, OneActive, Active,
        Resting, InFlightOK, ProbationOK, InFlight, Interrupted, ProbationPins
<1>3. ProcInv(p)'
    <2>1. ProcInv(p) /\ journal.state \in JournalStates \cup {"NONE"}
        BY DEF IndInv, TypeOK, Record
    <2>2. ctx[p] = "none"
        BY <1>1, <2>1 DEF ProcInv, InContext, PcsOf, RecoveryPcs, RevertPcs
    <2> QED BY <1>1, <2>1, <2>2
            DEF ProcInv, InContext, PcsOf, Resting, KnowsJournal, KnowsRelease, KnowsTree,
                KnowsProbation, StatesAt, SyncedPcs, TargetPcs, RecoveryPcs, RevertPcs
<1>4. ASSUME NEW q \in Procs \ {p}
      PROVE  ProcInv(q)'
    BY <1>1
    DEF IndInv, ProcInv, InContext, KnowsJournal, KnowsRelease, KnowsTree, KnowsProbation
<1> QED BY <1>2, <1>3, <1>4

(* An empty install root satisfies the invariant. *)
LEMMA InvInit == Init => IndInv
<1> SUFFICES ASSUME Init PROVE IndInv
    OBVIOUS
<1>1. TypeOK
    BY InitTypes
<1>2. RootInv
    BY DEF Init, RootInv, CurrentWhole, FallbackWhole, DeferredWhole, OneActive, Active,
       Resting, InFlightOK, ProbationOK, InFlight, Interrupted, ProbationPins, NoRecord,
       NoProbation
<1>3. ASSUME NEW p \in Procs
      PROVE  ProcInv(p)
    <2>1. pc[p] = "idle" /\ ctx[p] = "none" /\ journal.state = "NONE"
        BY DEF Init, NoRecord
    <2> QED BY <2>1
            DEF ProcInv, InContext, PcsOf, Resting, KnowsJournal, KnowsRelease, KnowsTree,
                KnowsProbation, StatesAt, SyncedPcs, TargetPcs, RecoveryPcs, RevertPcs
<1> QED BY <1>1, <1>2, <1>3 DEF IndInv

(* A process step is taken by the only process at work. *)
LEMMA Alone ==
    ASSUME NEW p \in Procs, Exclusive, IndInv,
           ProcStep(p) \/ Fail(p) \/ Crash(p) \/ Start(p) \/ Apply(p)
    PROVE  \A q \in Procs \ {p} : ~Active(q)
<1>1. CASE Start(p) \/ Apply(p)
    BY <1>1 DEF Start, Apply, MayEnter
<1>2. CASE ~(Start(p) \/ Apply(p))
    <2>1. Active(p)
        <3>1. CASE TransactionStep(p)
            BY <3>1
            DEF TransactionStep, RecoverResult, RecoverAmbiguous, Rollback,
                RestorePointer, RollbackHook, RollbackTree, RollbackRecord,
                CleanOrphans, Complete, RecordSwapped, WriteInstall, RecordCommitted,
                SettleCommitted, Migrate, RecordMigrated, Swap, GC, AppendStep, Active,
                Resting
        <3>2. CASE UpdaterStep(p)
            BY <3>2
            DEF UpdaterStep, Recheck, Preflight, ArmProbation, Begin, StageFiles,
                StagePlace, RecordStaged, QuiesceHeld, QuiesceTimeout, RecordDeferred,
                Verify, PromoteAfterCommit, SweepStaging, ReportOutcome, Outcomes,
                AppendStep, Active, Resting
        <3>3. CASE LauncherStep(p)
            BY <3>3
            DEF LauncherStep, ResumeLock, ResumeDeferred, CheckProbation, CountStart,
                RevertLock, RevertRecord, RevertSwap, RevertHook, RevertInstall,
                RevertDone, RevertRemove, UpdateSelf, DropStaged, RunApplication,
                Active, Resting
        <3>4. CASE Fail(p) \/ Crash(p)
            BY <3>4 DEF Fail, Crash
        <3> QED BY <1>2, <3>1, <3>2, <3>3, <3>4 DEF ProcStep
    <2> QED BY <2>1 DEF IndInv, RootInv, OneActive
<1> QED BY <1>1, <1>2

(* Every step of the system keeps the invariant, when one process at a time
   works on the root and probation is uniform. *)
LEMMA InvNext ==
    ASSUME Exclusive, Uniform, IndInv, [Next]_vars
    PROVE  IndInv'
<1>0. TypeOK'
    BY NextTypes DEF IndInv
<1>1. ASSUME NEW p \in Procs, ProcStep(p) \/ Fail(p) \/ Crash(p) \/ Start(p) \/ Apply(p)
      PROVE  IndInv'
    <2>1. Keeps(p) /\ RootOK' /\ ProcInv(p)'
        BY <1>0, <1>1, RecoverySteps, RollbackSteps, CompletionSteps, SwitchSteps,
           PreparationSteps, StagingSteps, OutcomeSteps, StartSteps, RevertSteps, RunSteps
        DEF ProcStep, TransactionStep, UpdaterStep, LauncherStep
    <2>2. \A q \in Procs \ {p} : ~Active(q)
        BY <1>1, Alone
    <2>3. OneActive' /\ \A q \in Procs : ProcInv(q)'
        BY <1>0, <2>1, <2>2, OthersAtRest DEF IndInv
    <2> QED BY <1>0, <2>1, <2>3 DEF IndInv, RootInv, RootOK
<1>2. ASSUME NEW p \in Updaters, NEW v \in Versions, CheckForUpdate(p, v)
      PROVE  IndInv'
    BY <1>0, <1>2, CheckSteps DEF IndInv, Procs
<1>3. CASE Application
    BY <1>0, <1>3, ApplicationSteps DEF IndInv
<1>4. CASE UNCHANGED vars
    <2>1. UNCHANGED <<journal, current, dirs, probation, pc, ctx, rec, rel, loc>>
        BY <1>4 DEF vars, disk, locals
    <2>2. RootInv'
        BY <2>1
        DEF IndInv, RootInv, CurrentWhole, FallbackWhole, DeferredWhole, OneActive, Active,
            InFlightOK, ProbationOK, InFlight, Interrupted, ProbationPins
    <2>3. \A q \in Procs : ProcInv(q)'
        BY <2>1
        DEF IndInv, ProcInv, InContext, KnowsJournal, KnowsRelease, KnowsTree, KnowsProbation
    <2> QED BY <1>0, <2>2, <2>3 DEF IndInv
<1> QED BY <1>1, <1>2, <1>3, <1>4 DEF Next

(* While one process at a time works on the root, and the publisher puts every
   release on probation or none, what each step of Apply, Recover, Start and
   revert relies on holds when it is taken: for any number of processes,
   releases and faults and every policy. *)
THEOREM InvariantHolds ==
    ASSUME Exclusive, Uniform
    PROVE  Spec => []IndInv
<1>1. Init => IndInv
    BY InvInit
<1>2. IndInv /\ [Next]_vars => IndInv'
    BY InvNext
<1> QED BY <1>1, <1>2, PTL DEF Spec

(* `current' always names a whole version directory: no crash, error, rollback,
   collection or revert leaves the pointer without a tree to run. *)
THEOREM CurrentStaysWhole ==
    ASSUME Exclusive, Uniform
    PROVE  Spec => []CurrentWhole
<1>1. IndInv => CurrentWhole
    BY DEF IndInv, RootInv
<1> QED BY <1>1, InvariantHolds, PTL

(* The version an undecided update comes from stays whole: restorePointer
   always has a tree to return to. *)
THEOREM FallbackStaysWhole ==
    ASSUME Exclusive, Uniform
    PROVE  Spec => []FallbackWhole
<1>1. IndInv => FallbackWhole
    BY DEF IndInv, RootInv
<1> QED BY <1>1, InvariantHolds, PTL

(* A deferred update keeps its staged tree until it is resumed or superseded. *)
THEOREM DeferredStaysWhole ==
    ASSUME Exclusive, Uniform
    PROVE  Spec => []DeferredWhole
<1>1. IndInv => DeferredWhole
    BY DEF IndInv, RootInv
<1> QED BY <1>1, InvariantHolds, PTL

(* The version a probation, or a recorded and unfinished rollback of one, goes
   back to stays whole (ProbationPins, FallbackOf). *)
THEOREM RevertTargetStaysWhole ==
    ASSUME Exclusive, Uniform
    PROVE  Spec => []RevertTargetWhole
<1>1. IndInv => RevertTargetWhole
    BY DEF IndInv, RootInv, ProbationOK, RevertTargetWhole
<1> QED BY <1>1, InvariantHolds, PTL

=============================================================================
