----------------------------- MODULE Transaction -----------------------------
(***************************************************************************)
(* core/txn: the journal, crash recovery, rollback, and the steps that a   *)
(* transaction shares between Updater.Apply and a resumed deferred update. *)
(*                                                                         *)
(* Every step that touches the disk is an action of its own, so that a     *)
(* crash, another process or an error can come between any two of them.    *)
(* A step that fails goes on at ErrTo of the call it is in.  An atomic     *)
(* write (fsx.WriteFileAtomic, layout.SetPointer) can also fail late: the  *)
(* rename has happened and the directory sync that follows it reports an   *)
(* error.                                                                  *)
(***************************************************************************)
EXTENDS InstallRoot

-----------------------------------------------------------------------------
(* Control flow.  The calls are                                            *)
(*   plan    the recovery Updater.plan runs, whose error is ignored        *)
(*   apply   the pre-flight of Updater.apply                               *)
(*   txn     Updater.apply after its BEGIN record                          *)
(*   undo    the rollback of a transaction that failed in-process          *)
(*   start   the recovery of launch.Start                                  *)
(*   resume  launch.Start finishing a deferred update, lock held           *)
(*   locked  Options.finish after a resumed update, lock held              *)
(*   finish  Options.finish of an ordinary start                           *)
(*   skip    a start that left a deferred update waiting                   *)

Contexts == {"none", "plan", "apply", "txn", "undo", "start", "resume",
             "locked", "finish", "skip"}

\* Where a failed step continues.
ErrTo(c) ==
    CASE c = "plan" -> "recheck"
      [] c \in {"apply", "undo"} -> "aborted"
      [] c = "txn" -> "undo"
      [] c \in {"locked", "finish"} -> "self"
      [] OTHER -> "run"

\* Where a recovery, a rollback or a completion continues when it is done.
RetTo(c) ==
    CASE c = "plan" -> "recheck"
      [] c = "apply" -> "preflight"
      [] c = "undo" -> "rolledback"
      [] c = "start" -> "probation"
      [] OTHER -> "gc"

GotoAll(p, next) == pc' = [pc EXCEPT ![p] = next]

\* A step of p that succeeds, and one that reports an error.
Goto(p, next) == GotoAll(p, next) /\ UNCHANGED faults

Faulty(p, next) ==
    /\ pc[p] \in FailPcs /\ faults < MaxFaults
    /\ faults' = faults + 1
    /\ GotoAll(p, next)

\* A write of p that succeeds, or one that is visible and reports an error.
Written(p, next) == Goto(p, next) \/ Faulty(p, ErrTo(ctx[p]))

\* The in-memory history advances only when the write succeeded.
WrittenRecord(p, r, next) ==
    \/ Goto(p, next) /\ rec' = [rec EXCEPT ![p] = r]
    \/ Faulty(p, ErrTo(ctx[p])) /\ UNCHANGED rec

-----------------------------------------------------------------------------
(* The journal. *)

\* The states each state may be followed by; NONE is an empty journal.
Allowed ==
    { <<"NONE", "BEGIN">>, <<"NONE", "UNINSTALLING">>,
      <<"BEGIN", "STAGED">>, <<"BEGIN", "ROLLED_BACK">>,
      <<"STAGED", "MIGRATED">>, <<"STAGED", "ROLLED_BACK">>, <<"STAGED", "DEFERRED">>,
      <<"MIGRATED", "SWAPPED">>, <<"MIGRATED", "ROLLED_BACK">>,
      <<"SWAPPED", "COMMITTED">>, <<"SWAPPED", "ROLLED_BACK">>,
      <<"COMMITTED", "BEGIN">>, <<"COMMITTED", "UNINSTALLING">>,
      <<"DEFERRED", "MIGRATED">>, <<"DEFERRED", "ROLLED_BACK">>,
      <<"DEFERRED", "BEGIN">>, <<"DEFERRED", "UNINSTALLING">>,
      <<"ROLLED_BACK", "BEGIN">>, <<"ROLLED_BACK", "UNINSTALLING">> }

\* next may follow prev: a legal state and, unless it opens a transaction, the
\* same transaction.
CheckTransition(prev, next) ==
    /\ <<prev.state, next.state>> \in Allowed
    /\ (next.state # "BEGIN" /\ prev.state # "NONE") =>
         next.from = prev.from /\ next.to = prev.to

\* Journal.Append of the record s for the transaction the process is in: the
\* whole file is rewritten from the history this process holds in memory.
JournalAppend(p, r, next) ==
    IF CheckTransition(rec[p], r)
    THEN /\ journal' = r
         /\ WrittenRecord(p, r, next)
    ELSE /\ Goto(p, ErrTo(ctx[p]))
         /\ UNCHANGED <<journal, rec>>

Stepped(p, s) == [rec[p] EXCEPT !.state = s]

UnchangedButJournal ==
    UNCHANGED <<current, install, dirs, pending, launcherNext, launcher,
                probation, host, lock, app, ctx, rel, loc>>

\* The records of a transaction that only say how far it got.
AppendStep(p, at, s, next) ==
    /\ pc[p] = at
    /\ JournalAppend(p, Stepped(p, s), next)
    /\ UnchangedButJournal

-----------------------------------------------------------------------------
(* Recovery and rollback: reading the journal and choosing what to do. *)

\* Mutants of RecoverTo: a deferred update is swept up as if it was interrupted;
\* it is left to wait by the launcher too; a committed one is only cleaned up
\* after; one past the swap is refused.
RecoverToUndoDeferred(c, r) ==
    CASE r.state = "COMMITTED" -> "settle"
      [] r.state = "UNINSTALLING" -> ErrTo(c)
      [] r.state = "SWAPPED" -> "complete"
      [] r.state = "MIGRATED" -> "ambiguous"
      [] r.state \in {"BEGIN", "STAGED", "DEFERRED"} -> "restore"
      [] OTHER -> "clean"

RecoverToWaitForever(c, r) ==
    CASE r.state = "COMMITTED" -> "settle"
      [] r.state = "UNINSTALLING" -> ErrTo(c)
      [] r.state = "DEFERRED" -> RetTo(c)
      [] r.state = "SWAPPED" -> "complete"
      [] r.state = "MIGRATED" -> "ambiguous"
      [] r.state \in {"BEGIN", "STAGED"} -> "restore"
      [] OTHER -> "clean"

RecoverToCleanCommitted(c, r) ==
    CASE r.state = "UNINSTALLING" -> ErrTo(c)
      [] r.state = "DEFERRED" -> IF c = "start" THEN "resumelock" ELSE RetTo(c)
      [] r.state = "SWAPPED" -> "complete"
      [] r.state = "MIGRATED" -> "ambiguous"
      [] r.state \in {"BEGIN", "STAGED"} -> "restore"
      [] OTHER -> "clean"

RecoverToRefuseSwapped(c, r) ==
    CASE r.state = "COMMITTED" -> "settle"
      [] r.state \in {"UNINSTALLING", "SWAPPED"} -> ErrTo(c)
      [] r.state = "DEFERRED" -> IF c = "start" THEN "resumelock" ELSE RetTo(c)
      [] r.state = "MIGRATED" -> "ambiguous"
      [] r.state \in {"BEGIN", "STAGED"} -> "restore"
      [] OTHER -> "clean"

\* The first step of RecoverResult for the last record r.
RecoverTo(c, r) ==
    CASE r.state = "COMMITTED" -> "settle"
      [] r.state = "UNINSTALLING" -> ErrTo(c)
      [] r.state = "DEFERRED" -> IF c = "start" THEN "resumelock" ELSE RetTo(c)
      [] r.state = "SWAPPED" -> "complete"
      [] r.state = "MIGRATED" -> "ambiguous"
      [] r.state \in {"BEGIN", "STAGED"} -> "restore"
      [] OTHER -> "clean"

RecoverResult(p) ==
    /\ pc[p] = "recover"
    /\ rec' = [rec EXCEPT ![p] = journal]
    /\ Goto(p, RecoverTo(ctx[p], journal))
    /\ UNCHANGED <<disk, host, lock, app, ctx, rel, loc>>

\* MIGRATED: the swap happened or it did not, and `current' says which.
RecoverAmbiguous(p) ==
    /\ pc[p] = "ambiguous"
    /\ Goto(p, IF current = rec[p].to THEN "complete" ELSE "restore")
    /\ UNCHANGED <<disk, host, lock, app, locals>>

\* Mutant of UndoTo: the pointer is not put back.
UndoToKeepPointer(c, r) ==
    CASE r.state = "COMMITTED" -> "settle"
      [] r.state = "UNINSTALLING" -> ErrTo(c)
      [] r.state \in {"ROLLED_BACK", "NONE"} -> "clean"
      [] OTHER -> "rbhook"

\* The first step of Rollback for the last record r: unlike recovery it undoes
\* a swap too.
UndoTo(c, r) ==
    CASE r.state = "COMMITTED" -> "settle"
      [] r.state = "UNINSTALLING" -> ErrTo(c)
      [] r.state \in {"ROLLED_BACK", "NONE"} -> "clean"
      [] OTHER -> "restore"

Rollback(p) ==
    /\ pc[p] = "undo"
    /\ ctx' = [ctx EXCEPT ![p] = "undo"]
    /\ \/ /\ rec' = [rec EXCEPT ![p] = journal]
          /\ Goto(p, UndoTo("undo", journal))
       \/ UNCHANGED rec /\ Faulty(p, "aborted")
    /\ UNCHANGED <<disk, host, lock, app, rel, loc>>

-----------------------------------------------------------------------------
(* rollback: the pointer, the host's data, the tree, the record. *)

\* Mutant of AfterRestore: the hook only runs once MIGRATED is recorded.
AfterRestoreRecorded(r) == IF r.state \in {"BEGIN", "STAGED"} THEN "rmtree" ELSE "rbhook"

\* The hook runs for every state past BEGIN.
AfterRestore(r) == IF r.state = "BEGIN" THEN "rmtree" ELSE "rbhook"

RestorePointer(p) ==
    /\ pc[p] = "restore"
    /\ \/ /\ rec[p].from = NoVersion
          /\ current' = NoVersion
          /\ Written(p, AfterRestore(rec[p]))
       \/ /\ rec[p].from # NoVersion /\ current = rec[p].from
          /\ Goto(p, AfterRestore(rec[p]))
          /\ UNCHANGED current
       \/ /\ rec[p].from # NoVersion /\ current # rec[p].from
          /\ IF Exists(rec[p].from)
             THEN /\ current' = rec[p].from
                  /\ Written(p, AfterRestore(rec[p]))
             ELSE /\ Goto(p, ErrTo(ctx[p]))
                  /\ UNCHANGED current
    /\ UNCHANGED <<journal, install, dirs, pending, launcherNext, launcher,
                   probation, host, lock, app, locals>>

\* Migrator.Rollback, idempotent and safe after a partial Migrate.
RollbackHook(p) ==
    /\ pc[p] = "rbhook"
    /\ host' = rec[p].from
    /\ Goto(p, "rmtree")
    /\ UNCHANGED <<disk, lock, app, locals>>

\* os.RemoveAll of versions/<v>: it may be seen, or stopped, halfway.
RemoveTree(p, v, next) ==
    \/ /\ dirs[v] = "whole"
       /\ dirs' = [dirs EXCEPT ![v] = "partial"]
       /\ UNCHANGED <<pc, faults>>
    \/ /\ dirs' = [dirs EXCEPT ![v] = "absent"]
       /\ Goto(p, next)

\* Mutant of RollbackTree: the two versions of the record are swapped.
RollbackTreeSwapped(p) ==
    /\ pc[p] = "rmtree"
    /\ IF rec[p].to # rec[p].from /\ rec[p].from # NoVersion
       THEN RemoveTree(p, rec[p].from, "rbrecord")
       ELSE Goto(p, "rbrecord") /\ UNCHANGED dirs
    /\ UNCHANGED <<journal, current, install, pending, launcherNext, launcher,
                   probation, host, lock, app, locals>>

RollbackTree(p) ==
    /\ pc[p] = "rmtree"
    /\ IF rec[p].to # rec[p].from
       THEN RemoveTree(p, rec[p].to, "rbrecord")
       ELSE Goto(p, "rbrecord") /\ UNCHANGED dirs
    /\ UNCHANGED <<journal, current, install, pending, launcherNext, launcher,
                   probation, host, lock, app, locals>>

RollbackRecord(p) == AppendStep(p, "rbrecord", "ROLLED_BACK", "clean")

\* cleanOrphans: the staging tree goes, and with it every pending launcher.
CleanOrphans(p) ==
    /\ pc[p] = "clean"
    /\ pending' = {}
    /\ Written(p, RetTo(ctx[p]))
    /\ UNCHANGED <<journal, current, install, dirs, launcherNext, launcher,
                   probation, host, lock, app, locals>>

-----------------------------------------------------------------------------
(* complete: a transaction whose swap happened is committed. *)

\* Mutant of Complete: the install state is not brought up to date.
CompleteWithoutState(p) ==
    /\ pc[p] = "complete"
    /\ Goto(p, IF current # rec[p].to THEN ErrTo(ctx[p])
               ELSE IF rec[p].state = "MIGRATED" THEN "swapped" ELSE "commit")
    /\ UNCHANGED <<disk, host, lock, app, locals>>

Complete(p) ==
    /\ pc[p] = "complete"
    /\ Goto(p, IF current # rec[p].to THEN ErrTo(ctx[p])
               ELSE IF rec[p].state = "MIGRATED" THEN "swapped" ELSE "install")
    /\ UNCHANGED <<disk, host, lock, app, locals>>

\* SWAPPED, after a swap or after recovery found one.
RecordSwapped(p) ==
    AppendStep(p, "swapped", "SWAPPED",
        CASE ctx[p] = "txn" -> (IF VerifyAfterApply THEN "verify" ELSE "install")
          [] ctx[p] = "resume" -> "complete"
          [] OTHER -> "install")

WriteInstall(p) ==
    /\ pc[p] = "install"
    /\ install' = rec[p].to
    /\ Written(p, "commit")
    /\ UNCHANGED <<journal, current, dirs, pending, launcherNext, launcher,
                   probation, host, lock, app, locals>>

RecordCommitted(p) ==
    AppendStep(p, "commit", "COMMITTED", IF ctx[p] = "txn" THEN "promote" ELSE "settle")

\* layout.PromoteLauncher for v; without a pending launcher it does nothing.
PromoteLauncher(v) ==
    IF v \in pending
    THEN launcherNext' = v /\ pending' = pending \ {v}
    ELSE UNCHANGED <<launcherNext, pending>>

SettleCommitted(p) ==
    /\ pc[p] = "settle"
    /\ IF current = rec[p].to
       THEN PromoteLauncher(rec[p].to)
       ELSE UNCHANGED <<launcherNext, pending>>
    /\ Written(p, "clean")
    /\ UNCHANGED <<journal, current, install, dirs, launcher, probation,
                   host, lock, app, locals>>

-----------------------------------------------------------------------------
(* The part of a transaction that a deferred update does at the next start. *)

\* Migrator.Migrate: it may be seen, or stopped, halfway.
Migrate(p) ==
    /\ pc[p] = "migrate"
    /\ \/ host' = Torn /\ host # Torn /\ UNCHANGED <<pc, faults>>
       \/ host' = rec[p].to /\ Goto(p, "migrated")
    /\ UNCHANGED <<disk, lock, app, locals>>

RecordMigrated(p) == AppendStep(p, "migrated", "MIGRATED", "swap")

\* Stager.Swap: refuses a version directory that is not there.
Swap(p) ==
    /\ pc[p] = "swap"
    /\ IF Exists(rec[p].to)
       THEN current' = rec[p].to /\ Written(p, "swapped")
       ELSE Goto(p, ErrTo(ctx[p])) /\ UNCHANGED current
    /\ UNCHANGED <<journal, install, dirs, pending, launcherNext, launcher,
                   probation, host, lock, app, locals>>

-----------------------------------------------------------------------------
(* Stager.GC, after a commit. *)

\* The live version, everything newer, and the newest older ones in the window.
Retained(live) ==
    {v \in InstalledVersions :
        \/ v >= live
        \/ Cardinality({w \in InstalledVersions : v < w /\ w < live}) < RetainVersions - 1}

\* Mutant of Victims: the version a probation returns to is not pinned.
VictimsUnpinned ==
    IF current = NoVersion THEN {}
    ELSE InstalledVersions \ Retained(current)

Victims ==
    IF current = NoVersion THEN {}
    ELSE (InstalledVersions \ Retained(current)) \ ProbationPins

AfterGC(p) == IF ctx[p] = "txn" THEN "committed" ELSE "probation"

\* One directory at a time; one that will not go is left for the next cycle.
GC(p) ==
    /\ pc[p] = "gc"
    /\ \/ /\ \E v \in Victims, d \in {"partial", "absent"} :
               dirs' = [dirs EXCEPT ![v] = d]
          /\ UNCHANGED <<pc, faults>>
       \/ /\ Victims = {}
          /\ Goto(p, AfterGC(p))
          /\ UNCHANGED dirs
       \/ /\ Victims # {}
          /\ Faulty(p, AfterGC(p))
          /\ UNCHANGED dirs
    /\ UNCHANGED <<journal, current, install, pending, launcherNext, launcher,
                   probation, host, lock, app, locals>>

-----------------------------------------------------------------------------
(* Failure.  An error ends the call; a crash ends the process, and with it  *)
(* its lock.                                                                *)

Forget(p) ==
    /\ ctx' = [ctx EXCEPT ![p] = "none"]
    /\ rec' = [rec EXCEPT ![p] = NoRecord]
    /\ rel' = [rel EXCEPT ![p] = NoRelease]
    /\ loc' = [loc EXCEPT ![p] = NoProbation]

Release(p) == lock' = IF lock = p THEN Free ELSE lock

\* Steps whose failure their caller handles itself, and steps that do nothing
\* that can fail.
SoftPcs == {"undo", "defer", "promote", "sweep", "rvremove", "self", "selfdrop",
            "recheck", "run"} \cup Outcomes

\* A read, a write or a hook of p that fails and changes nothing.
Fail(p) ==
    /\ Active(p) /\ pc[p] \notin SoftPcs
    /\ Faulty(p, ErrTo(ctx[p]))
    /\ UNCHANGED <<disk, host, lock, app, locals>>

Crash(p) ==
    /\ Active(p)
    /\ faults < MaxFaults
    /\ faults' = faults + 1
    /\ GotoAll(p, "idle")
    /\ Forget(p)
    /\ Release(p)
    /\ UNCHANGED <<disk, host, app>>

TransactionStep(p) ==
    \/ RecoverResult(p) \/ RecoverAmbiguous(p) \/ Rollback(p)
    \/ RestorePointer(p) \/ RollbackHook(p) \/ RollbackTree(p)
    \/ RollbackRecord(p) \/ CleanOrphans(p)
    \/ Complete(p) \/ RecordSwapped(p) \/ WriteInstall(p) \/ RecordCommitted(p)
    \/ SettleCommitted(p)
    \/ Migrate(p) \/ RecordMigrated(p) \/ Swap(p)
    \/ GC(p)

=============================================================================
