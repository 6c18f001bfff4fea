------------------------------- MODULE Updater -------------------------------
(***************************************************************************)
(* core/updater: resolving a release, and applying it as one transaction.  *)
(*                                                                         *)
(* A walk over several releases (Updater.steps) is a sequence of these     *)
(* transactions, each resolved against the one before it.                  *)
(***************************************************************************)
EXTENDS Transaction

\* This install may make the jump to v; a migration floor is answered by a
\* walk of jumps that honour it.
Applicable(v, installed) ==
    installed # NoVersion => v > installed \/ AllowDowngrade

\* The version the last failed probation rolled back is refused.
Blocked(v) == probation.blocked = v

\* CheckForUpdate, with v the version the channel names.
CheckForUpdate(p, v) ==
    /\ p \in Updaters /\ pc[p] = "idle"
    /\ v # current /\ ~Blocked(v) /\ Applicable(v, current)
    /\ rel' = [rel EXCEPT ![p] = [from |-> current, to |-> v]]
    /\ Goto(p, "checked")
    /\ UNCHANGED <<disk, host, lock, app, ctx, rec, loc>>

\* Apply, up to the recovery that Updater.plan runs.
Apply(p) ==
    /\ p \in Updaters /\ pc[p] = "checked"
    /\ MayEnter(p)
    /\ ctx' = [ctx EXCEPT ![p] = "plan"]
    /\ Goto(p, "recover")
    /\ UNCHANGED <<disk, host, lock, app, rec, rel, loc>>

\* apply settles the journal once more, whatever became of the plan.
Recheck(p) ==
    /\ pc[p] = "recheck"
    /\ ctx' = [ctx EXCEPT ![p] = "apply"]
    /\ Goto(p, "recover")
    /\ UNCHANGED <<disk, host, lock, app, rec, rel, loc>>

\* What pre-flight answers: wait for the deferred transaction, refuse a stale
\* or blocked release, or go on.
PreflightTo(p) ==
    LET to == rel[p].to
        waiting == rec[p].state = "DEFERRED" /\ rec[p].to = to
        fresh == current = rel[p].from /\ current # to
        allowed == Applicable(to, current) /\ ~Blocked(to) IN
    IF waiting THEN "deferred"
    ELSE IF fresh /\ allowed THEN "arm" ELSE "aborted"

Preflight(p) ==
    /\ pc[p] = "preflight"
    /\ Goto(p, PreflightTo(p))
    /\ UNCHANGED <<disk, host, lock, app, locals>>

\* The version a new probation returns to: the installed one, unless that one
\* never confirmed and what it would have returned to is still there.
FallbackOf(v, installed) ==
    IF /\ probation.status \in {"probation", "unhealthy"}
       /\ probation.version = installed
       /\ probation.previous # v
       /\ Exists(probation.previous)
    THEN probation.previous ELSE installed

\* Open the journal, then put the release on probation before BEGIN.
ArmProbation(p) ==
    LET v == rel[p].to IN
    /\ pc[p] = "arm"
    /\ rec' = [rec EXCEPT ![p] = journal]
    /\ IF rel[p].from = NoVersion \/ Attempts[v] = 0
       THEN Goto(p, "begin") /\ UNCHANGED probation
       ELSE IF probation.status = "reverting"
       THEN Goto(p, ErrTo(ctx[p])) /\ UNCHANGED probation
       ELSE /\ probation' =
                 [NoProbation EXCEPT !.status = "probation", !.version = v,
                                     !.previous = FallbackOf(v, rel[p].from),
                                     !.blocked = probation.blocked]
            /\ Written(p, "begin")
    /\ UNCHANGED <<journal, current, install, dirs, pending, launcherNext,
                   launcher, host, lock, app, ctx, rel, loc>>

\* BEGIN replaces the history.  Only once it is written is a failure undone.
Begin(p) ==
    LET r == [state |-> "BEGIN", from |-> rel[p].from, to |-> rel[p].to] IN
    /\ pc[p] = "begin"
    /\ JournalAppend(p, r, "stage")
    /\ ctx' = [ctx EXCEPT ![p] = IF pc'[p] = "stage" THEN "txn" ELSE ctx[p]]
    /\ UNCHANGED <<current, install, dirs, pending, launcherNext, launcher,
                   probation, host, lock, app, rel, loc>>

\* Stager.Stage up to the last file: the pending launcher of an abandoned
\* attempt goes, the one this release ships comes.
StageFiles(p) ==
    LET v == rec[p].to IN
    /\ pc[p] = "stage"
    /\ IF current = v
       THEN Goto(p, ErrTo(ctx[p])) /\ UNCHANGED pending
       ELSE /\ pending' = (pending \ {v}) \cup ({v} \cap ShipsLauncher)
            /\ Written(p, "place")
    /\ UNCHANGED <<journal, current, install, dirs, launcherNext, launcher,
                   probation, host, lock, app, locals>>

\* Stager.Stage's rename into versions/.  A sync that fails after it takes the
\* directory back as far as it can.
StagePlace(p) ==
    LET v == rec[p].to IN
    /\ pc[p] = "place"
    /\ IF Exists(v)
       THEN Goto(p, ErrTo(ctx[p])) /\ UNCHANGED dirs
       ELSE \/ /\ dirs' = [dirs EXCEPT ![v] = "whole"]
               /\ Goto(p, "staged")
            \/ /\ \E d \in {"whole", "partial", "absent"} : dirs' = [dirs EXCEPT ![v] = d]
               /\ Faulty(p, ErrTo(ctx[p]))
    /\ UNCHANGED <<journal, current, install, pending, launcherNext, launcher,
                   probation, host, lock, app, locals>>

RecordStaged(p) == AppendStep(p, "staged", "STAGED", "quiesce")

\* quiesce gets the lock at the first try or at a later one.
QuiesceHeld(p) ==
    /\ pc[p] = "quiesce" /\ lock = Free
    /\ lock' = p
    /\ Goto(p, "migrate")
    /\ UNCHANGED <<disk, host, app, locals>>

\* The deadline passes and the lock is still held by somebody else.
QuiesceTimeout(p) ==
    /\ pc[p] = "quiesce" /\ lock # Free
    /\ Goto(p, CASE OnBusy = "abort" -> ErrTo(ctx[p])
                 [] OnBusy = "defer" -> "defer"
                 [] OTHER -> "migrate")
    /\ UNCHANGED <<disk, host, lock, app, locals>>

\* A deferral that could not be recorded is reported as one, and not undone.
RecordDeferred(p) ==
    /\ pc[p] = "defer"
    /\ \/ /\ journal' = Stepped(p, "DEFERRED")
          /\ Goto(p, "deferred")
       \/ /\ journal' \in {journal, Stepped(p, "DEFERRED")}
          /\ Faulty(p, "deferred")
    /\ UNCHANGED <<current, install, dirs, pending, launcherNext, launcher,
                   probation, host, lock, app, locals>>

\* verifyInstalled agrees; that it does not is a Fail at this step.
Verify(p) ==
    /\ pc[p] = "verify"
    /\ Goto(p, "install")
    /\ UNCHANGED <<disk, host, lock, app, locals>>

\* The launcher of a committed update is staged for the next start.  A
\* promotion that fails keeps the staging tree; neither failure undoes a commit.
PromoteAfterCommit(p) ==
    /\ pc[p] = "promote"
    /\ \/ PromoteLauncher(rec[p].to) /\ Goto(p, "sweep")
       \/ /\ PromoteLauncher(rec[p].to) \/ UNCHANGED <<launcherNext, pending>>
          /\ Faulty(p, "gc")
    /\ UNCHANGED <<journal, current, install, dirs, launcher, probation,
                   host, lock, app, locals>>

SweepStaging(p) ==
    /\ pc[p] = "sweep"
    /\ \/ pending' = {} /\ Goto(p, "gc")
       \/ UNCHANGED pending /\ Faulty(p, "gc")
    /\ UNCHANGED <<journal, current, install, dirs, launcherNext, launcher,
                   probation, host, lock, app, locals>>

\* applyRelease returns: the outcome is reported and the lock released.
ReportOutcome(p) ==
    /\ pc[p] \in Outcomes
    /\ Goto(p, "idle")
    /\ Forget(p)
    /\ Release(p)
    /\ UNCHANGED <<disk, host, app>>

UpdaterStep(p) ==
    \/ Recheck(p) \/ Preflight(p) \/ ArmProbation(p) \/ Begin(p)
    \/ StageFiles(p) \/ StagePlace(p) \/ RecordStaged(p)
    \/ QuiesceHeld(p) \/ QuiesceTimeout(p) \/ RecordDeferred(p)
    \/ Verify(p) \/ PromoteAfterCommit(p) \/ SweepStaging(p)
    \/ ReportOutcome(p)

=============================================================================
