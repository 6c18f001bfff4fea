------------------------------ MODULE Launcher ------------------------------
(***************************************************************************)
(* core/launch: one start of the application.  Recovery first, then the    *)
(* update a previous run deferred, then the probation of the version that  *)
(* is live, then the launcher itself, and then the application runs.       *)
(***************************************************************************)
EXTENDS Transaction

\* launch.Start, up to its recovery.
Start(p) ==
    /\ p \in Launchers /\ pc[p] = "idle"
    /\ MayEnter(p)
    /\ OneInstance => app = NoVersion
    /\ ctx' = [ctx EXCEPT ![p] = "start"]
    /\ Goto(p, "recover")
    /\ UNCHANGED <<disk, host, lock, app, rec, rel, loc>>

\* A deferred update is finished while nothing holds the application lock.
ResumeLock(p) ==
    /\ pc[p] = "resumelock"
    /\ \/ /\ lock = Free
          /\ lock' = p
          /\ ctx' = [ctx EXCEPT ![p] = "resume"]
          /\ Goto(p, "resume")
       \/ /\ lock # Free
          /\ ctx' = [ctx EXCEPT ![p] = "skip"]
          /\ Goto(p, "probation")
          /\ UNCHANGED lock
    /\ UNCHANGED <<disk, host, app, rec, rel, loc>>

\* ResumeDeferred opens the journal again.
ResumeDeferred(p) ==
    /\ pc[p] = "resume"
    /\ rec' = [rec EXCEPT ![p] = journal]
    /\ Goto(p, IF journal.state = "DEFERRED" THEN "migrate" ELSE "gc")
    /\ UNCHANGED <<disk, host, lock, app, ctx, rel, loc>>

-----------------------------------------------------------------------------
(* The probation of the live version. *)

\* Options.finish, by how the start got there.
FinishContext(c) ==
    CASE c = "start" -> "finish" [] c = "resume" -> "locked" [] OTHER -> "skip"

\* The live version has used up what it was given, or asked to go.
Failed(r) ==
    \/ r.status \in {"unhealthy", "reverted"}
    \/ /\ r.status = "probation"
       /\ IF r.restartPending THEN r.restarts > Restarts
                              ELSE r.attempts >= Attempts[r.version]

\* The start is counted, or was asked for by the application itself.
Counted(r) ==
    IF r.restartPending THEN [r EXCEPT !.restartPending = FALSE]
                        ELSE [r EXCEPT !.attempts = @ + 1]

\* Mutant of ProbationTo: a rollback is only finished while its version is live.
ProbationToLiveFirst(c, r) ==
    LET live == r.status # "none" /\ current = r.version IN
    CASE live /\ (r.status = "reverting" \/ Failed(r)) -> "revert"
      [] live /\ r.status = "probation" /\ ~Failed(r) -> "count"
      [] OTHER -> ErrTo(c)

\* A recorded rollback is finished wherever it stopped; any other record counts
\* only while its version is live.
ProbationTo(c, r) ==
    LET live == r.status # "none" /\ current = r.version IN
    CASE r.status = "reverting" \/ (live /\ Failed(r)) -> "revert"
      [] live /\ r.status = "probation" /\ ~Failed(r) -> "count"
      [] OTHER -> ErrTo(c)

CheckProbation(p) ==
    LET c == FinishContext(ctx[p])
        next == ProbationTo(c, probation) IN
    /\ pc[p] = "probation"
    /\ ctx' = [ctx EXCEPT ![p] = c]
    /\ loc' = [loc EXCEPT ![p] = IF next = "count" THEN Counted(probation) ELSE probation]
    /\ Goto(p, next)
    /\ UNCHANGED <<disk, host, lock, app, rec, rel>>

WriteProbation(p, r, next) ==
    /\ probation' = r
    /\ Written(p, next)

\* Written before the application starts.
CountStart(p) ==
    /\ pc[p] = "count"
    /\ WriteProbation(p, loc[p], ErrTo(ctx[p]))
    /\ UNCHANGED <<journal, current, install, dirs, pending, launcherNext,
                   launcher, host, lock, app, locals>>

-----------------------------------------------------------------------------
(* revert: the version on probation goes back to the one it replaced.  The  *)
(* REVERTING record goes first and every step can be repeated.              *)

RevertLock(p) ==
    /\ pc[p] = "revert"
    /\ \/ /\ ctx[p] = "locked"
          /\ Goto(p, "fallback")
          /\ UNCHANGED lock
       \/ /\ ctx[p] # "locked" /\ lock = Free
          /\ lock' = p
          /\ Goto(p, "fallback")
       \/ /\ ctx[p] # "locked" /\ lock # Free
          /\ Goto(p, ErrTo(ctx[p]))
          /\ UNCHANGED lock
    /\ UNCHANGED <<disk, host, app, locals>>

\* Without the previous version the failed one is kept; with it the rollback
\* is recorded before it happens.
RevertRecord(p) ==
    LET r == loc[p]
        found == Exists(r.previous)
        next == IF found THEN "rvswap" ELSE ErrTo(ctx[p])
        decided == [r EXCEPT !.status = IF found THEN "reverting" ELSE "kept"] IN
    /\ pc[p] = "fallback"
    /\ IF r.status = "reverting"
       THEN Goto(p, next) /\ UNCHANGED <<probation, loc>>
       ELSE /\ WriteProbation(p, decided, next)
            /\ loc' = [loc EXCEPT ![p] = decided]
    /\ UNCHANGED <<journal, current, install, dirs, pending, launcherNext,
                   launcher, host, lock, app, ctx, rec, rel>>

RevertSwap(p) ==
    /\ pc[p] = "rvswap"
    /\ IF Exists(loc[p].previous)
       THEN current' = loc[p].previous /\ Written(p, "rvhook")
       ELSE Goto(p, ErrTo(ctx[p])) /\ UNCHANGED current
    /\ UNCHANGED <<journal, install, dirs, pending, launcherNext, launcher,
                   probation, host, lock, app, locals>>

RevertHook(p) ==
    /\ pc[p] = "rvhook"
    /\ host' = loc[p].previous
    /\ Goto(p, "rvinstall")
    /\ UNCHANGED <<disk, lock, app, locals>>

RevertInstall(p) ==
    /\ pc[p] = "rvinstall"
    /\ IF install \in {NoVersion, loc[p].previous}
       THEN /\ Goto(p, IF install = NoVersion THEN ErrTo(ctx[p]) ELSE "rvdone")
            /\ UNCHANGED install
       ELSE install' = loc[p].previous /\ Written(p, "rvdone")
    /\ UNCHANGED <<journal, current, dirs, pending, launcherNext, launcher,
                   probation, host, lock, app, locals>>

RevertDone(p) ==
    /\ pc[p] = "rvdone"
    /\ WriteProbation(p, [loc[p] EXCEPT !.status = "reverted",
                                        !.restartPending = FALSE,
                                        !.blocked = loc[p].version], "rvremove")
    /\ UNCHANGED <<journal, current, install, dirs, pending, launcherNext,
                   launcher, host, lock, app, locals>>

RevertRemove(p) ==
    /\ pc[p] = "rvremove"
    /\ \/ RemoveTree(p, loc[p].version, ErrTo(ctx[p]))
       \/ UNCHANGED dirs /\ Faulty(p, ErrTo(ctx[p]))
    /\ UNCHANGED <<journal, current, install, pending, launcherNext, launcher,
                   probation, host, lock, app, locals>>

-----------------------------------------------------------------------------
(* The launcher itself, and the application. *)

\* updateSelf swaps in the staged launcher.  A lock that a revert took for
\* itself has been released by now.
UpdateSelf(p) ==
    /\ pc[p] = "self"
    /\ \/ /\ launcherNext # NoVersion
          /\ launcher' = launcherNext
          /\ Goto(p, "selfdrop")
       \/ /\ launcherNext = NoVersion
          /\ Goto(p, "run")
          /\ UNCHANGED launcher
       \/ /\ launcherNext # NoVersion
          /\ launcher' \in {launcher, launcherNext}
          /\ Faulty(p, "run")
    /\ IF ctx[p] = "locked" THEN UNCHANGED lock ELSE Release(p)
    /\ UNCHANGED <<journal, current, install, dirs, pending, launcherNext,
                   probation, host, app, locals>>

DropStaged(p) ==
    /\ pc[p] = "selfdrop"
    /\ \/ launcherNext' = NoVersion /\ Goto(p, "run")
       \/ UNCHANGED launcherNext /\ Faulty(p, "run")
    /\ UNCHANGED <<journal, current, install, dirs, pending, launcher,
                   probation, host, lock, app, locals>>

\* Start returns, with an error or without one, and the launcher runs what
\* `current' names.  An instance holds the application lock while it is up;
\* one that finds it taken does not stay.
RunApplication(p) ==
    /\ pc[p] = "run"
    /\ IF current # NoVersion /\ app = NoVersion /\ lock \in {Free, p}
       THEN app' = current /\ lock' = App
       ELSE UNCHANGED app /\ Release(p)
    /\ Goto(p, "idle")
    /\ Forget(p)
    /\ UNCHANGED <<disk, host>>

LauncherStep(p) ==
    \/ ResumeLock(p) \/ ResumeDeferred(p)
    \/ CheckProbation(p) \/ CountStart(p)
    \/ RevertLock(p) \/ RevertRecord(p) \/ RevertSwap(p) \/ RevertHook(p)
    \/ RevertInstall(p) \/ RevertDone(p) \/ RevertRemove(p)
    \/ UpdateSelf(p) \/ DropStaged(p) \/ RunApplication(p)

-----------------------------------------------------------------------------
(* What the running application does to the probation record. *)

\* Mutant of OnProbation: any record of the version will do.
AnyRecordOf(v) == probation.version = v

OnProbation(v) == probation.version = v /\ probation.status = "probation"

MarkHealthy ==
    /\ app # NoVersion /\ OnProbation(app)
    /\ probation' = [probation EXCEPT !.status = "confirmed", !.restartPending = FALSE]
    /\ UNCHANGED <<journal, current, install, dirs, pending, launcherNext,
                   launcher, host, lock, app, pc, locals, faults>>

MarkUnhealthy ==
    /\ app # NoVersion /\ OnProbation(app)
    /\ probation' = [probation EXCEPT !.status = "unhealthy"]
    /\ UNCHANGED <<journal, current, install, dirs, pending, launcherNext,
                   launcher, host, lock, app, pc, locals, faults>>

ReleaseApp == app' = NoVersion /\ lock' = IF lock = App THEN Free ELSE lock

\* Mutant of Relaunch: the restarts asked for are not counted.
RelaunchUncounted ==
    /\ app # NoVersion
    /\ probation.status = "probation" /\ current = probation.version
    /\ probation' = [probation EXCEPT !.restartPending = TRUE]
    /\ ReleaseApp
    /\ UNCHANGED <<journal, current, install, dirs, pending, launcherNext,
                   launcher, host, pc, locals, faults>>

\* Relaunch: the next start is one the live version asked for.
Relaunch ==
    /\ app # NoVersion
    /\ probation.status = "probation" /\ current = probation.version
    /\ probation' = [probation EXCEPT
                        !.restarts = IF @ <= Restarts THEN @ + 1 ELSE @,
                        !.restartPending = TRUE]
    /\ ReleaseApp
    /\ UNCHANGED <<journal, current, install, dirs, pending, launcherNext,
                   launcher, host, pc, locals, faults>>

\* The application ends, by itself or not.
AppExit ==
    /\ app # NoVersion
    /\ ReleaseApp
    /\ UNCHANGED <<disk, host, pc, locals, faults>>

=============================================================================
