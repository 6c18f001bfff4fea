-------------------------- MODULE IdunnAtomicProofs --------------------------
(***************************************************************************)
(* The update is atomic: the install state agrees with the pointer, the    *)
(* host's data with the live version, a launcher is staged once and from a *)
(* committed update, a confirmation is final, and the pointer, the journal *)
(* and the probation record implement AtomicUpdate.  DetailInv, relative   *)
(* to IndInv, is what these rest on.                                       *)
(***************************************************************************)
EXTENDS IdunnProofs

\* What DetailInv says of the root.
RootDetail == InstallOK /\ HostOK /\ LockOK

\* Nothing that DetailInv speaks of changes but the process that moves.
Still == UNCHANGED <<journal, current, install, pending, probation, host, lock, app>>

(* What holds of the root does not depend on the state of the processes. *)
LEMMA DetailKept ==
    ASSUME RootDetail, Still
    PROVE  RootDetail'
BY DEF RootDetail, InstallOK, HostOK, LockOK, Still, Interrupted

(* A process at rest knows nothing that a step of another one can falsify. *)
LEMMA RestDetail ==
    ASSUME NEW q \in Procs, ~Active(q), ProcInv(q), pc'[q] = pc[q], ctx'[q] = ctx[q]
    PROVE  ProcDetail(q)'
<1>1. pc'[q] \in {"idle", "checked"}
    BY DEF Active, Resting
<1>2. ctx'[q] = "none"
    BY <1>1 DEF ProcInv, InContext, PcsOf, RecoveryPcs, RevertPcs
<1> QED
    BY <1>1, <1>2
    DEF ProcDetail, KnowsInstall, KnowsPending, KnowsHost, KnowsRecord, KnowsLock,
        LauncherContexts

(* Where a failed call continues, a process knows only what its context says. *)
LEMMA ErrorDetail ==
    ASSUME NEW p \in Procs, ProcDetail(p), Still,
           ctx'[p] = ctx[p], pc'[p] = ErrTo(ctx[p])
    PROVE  ProcDetail(p)'
<1>1. /\ pc'[p] \in {"recheck", "aborted", "undo", "self", "run"}
      /\ ctx[p] = "txn" => pc'[p] = "undo"
    BY DEF ErrTo
<1> QED
    BY <1>1
    DEF ProcDetail, KnowsInstall, KnowsPending, KnowsHost, KnowsRecord, KnowsLock,
        LauncherContexts, UnlockedPcs, Still, Interrupted

(* Opening the journal and choosing what to do with it. *)
LEMMA RecoveryDetail ==
    ASSUME NEW p \in Procs, IndInv, RootDetail, ProcDetail(p),
           \/ RecoverResult(p) \/ RecoverAmbiguous(p) \/ Rollback(p)
           \/ RollbackHook(p) \/ CleanOrphans(p)
    PROVE  RootDetail' /\ ProcDetail(p)'
<1>0. /\ journal.state \in JournalStates \cup {"NONE"}
      /\ ProcInv(p) /\ ctx[p] \in Contexts
    BY DEF IndInv, TypeOK, Record
<1> USE DEF KnowsInstall, KnowsPending, KnowsHost, KnowsRecord, KnowsLock, LauncherContexts,
            UnlockedPcs, ProcDetail
<1>1. CASE RecoverResult(p)
    <2>1. /\ pc[p] = "recover" /\ pc'[p] = RecoverTo(ctx[p], journal)
          /\ ctx'[p] = ctx[p] /\ loc'[p] = loc[p] /\ Still
        BY <1>1 DEF RecoverResult, Goto, GotoAll, IndInv, TypeOK, disk, Still
    <2>2. ctx[p] \in {"plan", "apply", "start"}
        BY <1>0, <2>1 DEF ProcInv, InContext, PcsOf, RecoveryPcs, RevertPcs, Resting, Contexts
    <2>3. journal.state \in {"BEGIN", "STAGED"} => current = journal.from
        BY DEF IndInv, RootInv, InFlightOK, InFlight, Interrupted
    <2>4. ProcDetail(p)'
        BY <1>0, <2>1, <2>2, <2>3 DEF RecoverTo, ErrTo, RetTo, JournalStates, Still, Interrupted
    <2> QED BY <2>1, <2>4, DetailKept
<1>2. CASE RecoverAmbiguous(p)
    <2>1. /\ pc[p] = "ambiguous" /\ pc'[p] = IF current = rec[p].to THEN "complete" ELSE "restore"
          /\ ctx'[p] = ctx[p] /\ loc'[p] = loc[p] /\ Still
        BY <1>2 DEF RecoverAmbiguous, Goto, GotoAll, IndInv, TypeOK, disk, locals, Still
    <2>2. /\ ctx[p] \in {"plan", "apply", "start"}
          /\ rec[p] = journal /\ journal.state = "MIGRATED"
        BY <1>0, <2>1 DEF ProcInv, InContext, PcsOf, RecoveryPcs, RevertPcs, Resting, Contexts,
                          KnowsJournal, StatesAt, SyncedPcs
    <2>3. current \in {journal.from, journal.to}
        BY <2>2 DEF RootDetail, InstallOK, Interrupted
    <2>4. ProcDetail(p)'
        BY <1>0, <2>1, <2>2, <2>3 DEF Still, Interrupted
    <2> QED BY <2>1, <2>4, DetailKept
<1>3. CASE Rollback(p)
    <2>1. /\ pc[p] = "undo" /\ ctx[p] = "txn" /\ ctx'[p] = "undo" /\ loc'[p] = loc[p] /\ Still
          /\ pc'[p] \in {UndoTo("undo", journal), "aborted"}
        BY <1>0, <1>3
        DEF Rollback, Goto, GotoAll, Faulty, IndInv, TypeOK, disk, Still, ProcInv, InContext,
            PcsOf, RecoveryPcs, RevertPcs, Resting, Contexts
    <2>2. pc'[p] \in {"settle", "clean", "restore", "aborted"}
          /\ (pc'[p] = "clean" => journal.state # "COMMITTED")
        BY <1>0, <2>1 DEF UndoTo, JournalStates, ErrTo
    <2>3. ProcDetail(p)'
        BY <1>0, <2>1, <2>2 DEF Still, Interrupted
    <2> QED BY <2>1, <2>3, DetailKept
<1>4. CASE CleanOrphans(p)
    <2>1. /\ pc[p] = "clean" /\ pc'[p] \in {RetTo(ctx[p]), ErrTo(ctx[p])}
          /\ ctx'[p] = ctx[p] /\ loc'[p] = loc[p]
          /\ UNCHANGED <<journal, current, install, probation, host, lock, app>>
        BY <1>4
        DEF CleanOrphans, Written, Goto, GotoAll, Faulty, IndInv, TypeOK, locals
    <2>2. /\ ctx[p] # "txn"
          /\ pc'[p] \in {"recheck", "preflight", "rolledback", "probation", "gc", "aborted",
                         "run", "self", "undo"}
        BY <1>0, <2>1
        DEF ProcInv, InContext, PcsOf, RecoveryPcs, RevertPcs, Resting, Contexts, RetTo, ErrTo
    <2>3. ProcDetail(p)'
        BY <1>0, <2>1, <2>2 DEF Interrupted
    <2>4. RootDetail'
        BY <2>1 DEF RootDetail, InstallOK, HostOK, LockOK, Interrupted
    <2> QED BY <2>3, <2>4
<1>5. CASE RollbackHook(p)
    <2>1. /\ pc[p] = "rbhook" /\ pc'[p] = "rmtree" /\ host' = rec[p].from
          /\ ctx'[p] = ctx[p] /\ loc'[p] = loc[p]
          /\ UNCHANGED <<journal, current, install, pending, probation, lock, app>>
        BY <1>5 DEF RollbackHook, Goto, GotoAll, IndInv, TypeOK, locals, disk
    <2>2. /\ rec[p] = journal /\ Interrupted(journal) /\ current = journal.from
          /\ ctx[p] # "txn"
        BY <1>0, <2>1
        DEF ProcInv, InContext, PcsOf, RecoveryPcs, RevertPcs, Resting, Contexts, KnowsJournal,
            KnowsTree, StatesAt, SyncedPcs, InterruptedStates, Interrupted
    <2>3. journal.from # journal.to
        BY <2>2 DEF IndInv, RootInv, InFlightOK, InFlight
    <2>4. ProcDetail(p)'
        BY <1>0, <2>1, <2>2 DEF Interrupted
    <2>5. RootDetail'
        BY <1>0, <2>1, <2>2, <2>3 DEF RootDetail, InstallOK, HostOK, LockOK, Interrupted, SettledStates
    <2> QED BY <2>4, <2>5
<1> QED BY <1>1, <1>2, <1>3, <1>4, <1>5

(* A journal record leaves everything but the journal alone. *)
LEMMA AppendedStill ==
    ASSUME NEW p \in Procs, NEW at \in SyncedPcs, NEW s, NEW next, IndInv,
           AppendStep(p, at, s, next)
    PROVE  /\ Advanced(p, at, s, next) /\ rec[p] = journal
           /\ UNCHANGED <<install, pending, launcherNext, host, lock, app>>
<1>1. rec[p] = journal
    BY DEF IndInv, ProcInv, KnowsJournal, AppendStep
<1> QED BY <1>1, Appended DEF AppendStep, UnchangedButJournal

(* The pointer goes back under the lock, or where it already is. *)
LEMMA RollbackDetail ==
    ASSUME NEW p \in Procs, IndInv, RootDetail, ProcDetail(p),
           RestorePointer(p) \/ RollbackTree(p) \/ RollbackRecord(p)
    PROVE  RootDetail' /\ ProcDetail(p)'
<1>0. /\ journal.state \in JournalStates \cup {"NONE"}
      /\ ProcInv(p) /\ ctx[p] \in Contexts
    BY DEF IndInv, TypeOK, Record
<1>a. ASSUME pc[p] \in {"restore", "rmtree", "rbrecord"}
      PROVE  /\ rec[p] = journal /\ journal.state \in InterruptedStates
             /\ journal.from # journal.to
             /\ ctx[p] \in {"plan", "apply", "start", "undo"}
             /\ pc[p] \in {"rmtree", "rbrecord"} => current = journal.from
             /\ journal.state \in {"BEGIN", "STAGED"} => current = journal.from
    <2>1. /\ rec[p] = journal /\ journal.state \in InterruptedStates
          /\ ctx[p] \in {"plan", "apply", "start", "undo"}
          /\ pc[p] \in {"rmtree", "rbrecord"} => current = journal.from
        BY <1>0, <1>a
        DEF ProcInv, InContext, PcsOf, RecoveryPcs, RevertPcs, Resting, Contexts, KnowsJournal,
            StatesAt, SyncedPcs, KnowsTree
    <2> QED BY <2>1 DEF IndInv, RootInv, InFlightOK, InFlight, Interrupted, InterruptedStates
<1> USE DEF KnowsInstall, KnowsPending, KnowsHost, KnowsRecord, KnowsLock, LauncherContexts,
            UnlockedPcs, ProcDetail
<1>1. CASE RestorePointer(p)
    <2>1. /\ pc[p] = "restore" /\ ctx'[p] = ctx[p] /\ loc'[p] = loc[p]
          /\ UNCHANGED <<journal, install, pending, probation, host, lock, app>>
          /\ \/ pc'[p] = AfterRestore(rec[p]) /\ current' = rec[p].from
             \/ pc'[p] = ErrTo(ctx[p]) /\ current' \in {current, rec[p].from}
        BY <1>1
        DEF RestorePointer, Written, Goto, GotoAll, Faulty, IndInv, TypeOK, locals
    <2>2. /\ pc'[p] \in {"rmtree", "rbhook", "recheck", "aborted", "run"}
          /\ pc'[p] = "rmtree" => journal.state = "BEGIN" /\ current' = journal.from
        BY <1>a, <2>1 DEF AfterRestore, ErrTo
    <2>3. OnBusy # "force" /\ current' # current => app = NoVersion /\ probation.status # "confirmed"
        <3>1. current' # current => current # journal.from
            BY <1>a, <2>1
        <3>2. OnBusy # "force" /\ current # journal.from =>
                ctx[p] = "undo" /\ lock = p /\ probation.status # "confirmed"
            BY <1>a, <2>1 DEF Interrupted, InterruptedStates
        <3> QED BY <3>1, <3>2, ProcessAssumption DEF RootDetail, LockOK
    <2>4. OnBusy # "defer" /\ journal.state = "BEGIN" => host = journal.from
        BY <1>a, <2>1
        DEF RootDetail, HostOK, IndInv, RootInv, ProbationOK, InFlight, Interrupted
    <2>5. RootDetail'
        BY <1>0, <1>a, <2>1, <2>3
        DEF RootDetail, InstallOK, HostOK, LockOK, Interrupted, InterruptedStates, SettledStates
    <2>6. ProcDetail(p)'
        BY <1>0, <1>a, <2>1, <2>2, <2>4 DEF Interrupted
    <2> QED BY <2>5, <2>6
<1>2. CASE RollbackTree(p)
    <2>1. /\ pc[p] = "rmtree" /\ pc'[p] \in {"rmtree", "rbrecord"}
          /\ ctx'[p] = ctx[p] /\ loc'[p] = loc[p] /\ Still
        BY <1>2
        DEF RollbackTree, RemoveTree, Goto, GotoAll, IndInv, TypeOK, locals, Still
    <2>2. ProcDetail(p)'
        BY <1>0, <1>a, <2>1 DEF Still, Interrupted
    <2> QED BY <2>1, <2>2, DetailKept
<1>3. CASE RollbackRecord(p)
    <2>1. /\ Advanced(p, "rbrecord", "ROLLED_BACK", "clean")
          /\ UNCHANGED <<install, pending, host, lock, app>>
        BY <1>3, AppendedStill DEF RollbackRecord, SyncedPcs, RecoveryPcs
    <2>2. RootDetail'
        BY <1>0, <1>a, <2>1
        DEF Advanced, RootDetail, InstallOK, HostOK, LockOK, Interrupted
    <2>3. pc'[p] \in {"clean", "recheck", "aborted", "run"}
        BY <1>a, <2>1 DEF Advanced, ErrTo
    <2>4. ProcDetail(p)'
        BY <1>0, <1>a, <2>1, <2>3 DEF Advanced, Interrupted
    <2> QED BY <2>2, <2>4
<1> QED BY <1>1, <1>2, <1>3

(* A transaction whose swap happened is committed with the pointer, the install
   state and the host's data at its target. *)
LEMMA CompletionDetail ==
    ASSUME NEW p \in Procs, IndInv, RootDetail, ProcDetail(p),
           \/ Complete(p) \/ RecordSwapped(p) \/ WriteInstall(p) \/ RecordCommitted(p)
           \/ SettleCommitted(p)
    PROVE  RootDetail' /\ ProcDetail(p)'
<1>0. /\ journal.state \in JournalStates \cup {"NONE"}
      /\ ProcInv(p) /\ ctx[p] \in Contexts
    BY DEF IndInv, TypeOK, Record
<1>a. ASSUME pc[p] \in {"complete", "swapped", "install", "commit", "settle"}
      PROVE  /\ rec[p] = journal
             /\ pc[p] = "settle" => journal.state = "COMMITTED"
             /\ pc[p] = "complete" => journal.state \in {"MIGRATED", "SWAPPED"}
             /\ pc[p] = "swapped" => journal.state = "MIGRATED"
             /\ pc[p] \in {"install", "commit"} => journal.state = "SWAPPED"
             /\ ctx[p] \in {"plan", "apply", "start", "txn", "resume", "undo"}
             /\ pc[p] \in {"complete", "settle"} => ctx[p] # "txn"
             /\ ctx[p] = "undo" => pc[p] = "settle"
    BY <1>0, <1>a
    DEF ProcInv, InContext, PcsOf, RecoveryPcs, RevertPcs, Resting, Contexts, KnowsJournal,
        StatesAt, SyncedPcs
<1> USE DEF KnowsInstall, KnowsPending, KnowsHost, KnowsRecord, KnowsLock, LauncherContexts,
            UnlockedPcs, ProcDetail
<1>1. CASE Complete(p)
    <2>1. /\ pc[p] = "complete" /\ ctx'[p] = ctx[p] /\ loc'[p] = loc[p] /\ Still
          /\ \/ pc'[p] = ErrTo(ctx[p])
             \/ current = rec[p].to /\ pc'[p] \in {"swapped", "install"}
        BY <1>1 DEF Complete, Still, Goto, GotoAll, IndInv, TypeOK, disk, locals
    <2>2. CASE pc'[p] = ErrTo(ctx[p])
        BY <2>1, <2>2, DetailKept, ErrorDetail
    <2>3. CASE current = rec[p].to /\ pc'[p] \in {"swapped", "install"}
        <3>1. ProcDetail(p)'
            BY <1>0, <1>a, <2>1, <2>3 DEF Still, Interrupted
        <3> QED BY <2>1, <3>1, DetailKept
    <2> QED BY <2>1, <2>2, <2>3
<1>2. CASE RecordSwapped(p)
    <2> DEFINE next == CASE ctx[p] = "txn" -> (IF VerifyAfterApply THEN "verify" ELSE "install")
                         [] ctx[p] = "resume" -> "complete"
                         [] OTHER -> "install"
    <2>1. /\ Advanced(p, "swapped", "SWAPPED", next)
          /\ UNCHANGED <<install, pending, host, lock, app>>
        BY <1>2, AppendedStill DEF RecordSwapped, SyncedPcs, RecoveryPcs
    <2>2. /\ next \in {"verify", "install", "complete"}
          /\ ErrTo(ctx[p]) \in {"recheck", "aborted", "undo", "run"}
          /\ ctx[p] = "txn" => ErrTo(ctx[p]) = "undo"
        BY <1>a, <2>1 DEF Advanced, ErrTo
    <2> HIDE DEF next
    <2>3. journal.state = "MIGRATED" /\ current = journal.to
        BY <1>a, <2>1 DEF Advanced
    <2>4. RootDetail'
        BY <1>0, <2>1, <2>3
        DEF Advanced, RootDetail, InstallOK, HostOK, LockOK, Interrupted, SettledStates
    <2>5. ProcDetail(p)'
        BY <1>0, <1>a, <2>1, <2>2, <2>3 DEF Advanced, Interrupted
    <2> QED BY <2>4, <2>5
<1>3. CASE WriteInstall(p)
    <2>1. /\ pc[p] = "install" /\ ctx'[p] = ctx[p] /\ loc'[p] = loc[p]
          /\ UNCHANGED <<journal, current, pending, probation, host, lock, app>>
          /\ install' = rec[p].to /\ pc'[p] \in {"commit", ErrTo(ctx[p])}
        BY <1>3
        DEF WriteInstall, Written, Goto, Faulty, GotoAll, IndInv, TypeOK, locals
    <2>2. /\ ErrTo(ctx[p]) \in {"recheck", "aborted", "undo", "run"}
          /\ ctx[p] = "txn" => ErrTo(ctx[p]) = "undo"
        BY <1>a, <2>1 DEF ErrTo
    <2>3. RootDetail'
        BY <1>0, <1>a, <2>1 DEF RootDetail, InstallOK, HostOK, LockOK, Interrupted
    <2>4. ProcDetail(p)'
        BY <1>0, <1>a, <2>1, <2>2 DEF Interrupted
    <2> QED BY <2>3, <2>4
<1>4. CASE RecordCommitted(p)
    <2>1. /\ Advanced(p, "commit", "COMMITTED", IF ctx[p] = "txn" THEN "promote" ELSE "settle")
          /\ UNCHANGED <<install, pending, host, lock, app>>
        BY <1>4, AppendedStill DEF RecordCommitted, SyncedPcs, RecoveryPcs
    <2>2. /\ ErrTo(ctx[p]) \in {"recheck", "aborted", "undo", "run"}
          /\ ctx[p] = "txn" => ErrTo(ctx[p]) = "undo"
        BY <1>a, <2>1 DEF Advanced, ErrTo
    <2>3. journal.state = "SWAPPED" /\ current = journal.to /\ install = journal.to
        BY <1>a, <2>1 DEF Advanced
    <2>4. RootDetail'
        BY <1>0, <2>1, <2>3
        DEF Advanced, RootDetail, InstallOK, HostOK, LockOK, Interrupted, SettledStates
    <2>5. ProcDetail(p)'
        BY <1>0, <1>a, <2>1, <2>2, <2>3 DEF Advanced, Interrupted
    <2> QED BY <2>4, <2>5
<1>5. CASE SettleCommitted(p)
    <2>1. /\ pc[p] = "settle" /\ ctx'[p] = ctx[p] /\ loc'[p] = loc[p]
          /\ UNCHANGED <<journal, current, install, probation, host, lock, app>>
          /\ current = rec[p].to => rec[p].to \notin pending'
          /\ pc'[p] \in {"clean", ErrTo(ctx[p])}
        BY <1>5
        DEF SettleCommitted, PromoteLauncher, Written, Goto, Faulty, GotoAll, IndInv, TypeOK,
            locals
    <2>2. ErrTo(ctx[p]) \in {"recheck", "aborted", "run"}
        BY <1>a, <2>1 DEF ErrTo
    <2>3. RootDetail'
        BY <2>1 DEF RootDetail, InstallOK, HostOK, LockOK, Interrupted
    <2>4. ProcDetail(p)'
        BY <1>0, <1>a, <2>1, <2>2 DEF Interrupted
    <2> QED BY <2>3, <2>4
<1> QED BY <1>1, <1>2, <1>3, <1>4, <1>5

(* The migration and the swap run under the lock, unless forced, and leave the
   host's data at the version they go to. *)
LEMMA SwitchDetail ==
    ASSUME NEW p \in Procs, IndInv, RootDetail, ProcDetail(p),
           Migrate(p) \/ RecordMigrated(p) \/ Swap(p) \/ GC(p)
    PROVE  RootDetail' /\ ProcDetail(p)'
<1>0. /\ journal.state \in JournalStates \cup {"NONE"}
      /\ ProcInv(p) /\ ctx[p] \in Contexts
    BY DEF IndInv, TypeOK, Record
<1>a. ASSUME pc[p] \in {"migrate", "migrated", "swap"}
      PROVE  /\ rec[p] = journal /\ ctx[p] \in {"txn", "resume"}
             /\ pc[p] \in {"migrate", "migrated"} =>
                  journal.state = IF ctx[p] = "txn" THEN "STAGED" ELSE "DEFERRED"
             /\ pc[p] = "swap" => journal.state = "MIGRATED"
             /\ pc[p] \in {"migrate", "migrated"} => current = journal.from
             /\ journal.from # journal.to
    <2>1. /\ rec[p] = journal /\ ctx[p] \in {"txn", "resume"}
          /\ pc[p] \in {"migrate", "migrated"} =>
               journal.state = IF ctx[p] = "txn" THEN "STAGED" ELSE "DEFERRED"
          /\ pc[p] = "swap" => journal.state = "MIGRATED"
        BY <1>0, <1>a
        DEF ProcInv, InContext, PcsOf, RecoveryPcs, RevertPcs, Resting, Contexts, KnowsJournal,
            StatesAt, SyncedPcs
    <2> QED BY <1>a, <2>1 DEF IndInv, RootInv, InFlightOK, InFlight, Interrupted
<1> USE DEF KnowsInstall, KnowsPending, KnowsHost, KnowsRecord, KnowsLock, LauncherContexts,
            UnlockedPcs, ProcDetail
<1>1. CASE Migrate(p)
    <2>1. /\ pc[p] = "migrate" /\ ctx'[p] = ctx[p] /\ loc'[p] = loc[p]
          /\ UNCHANGED <<journal, current, install, pending, probation, lock, app>>
          /\ pc'[p] = "migrate" \/ (pc'[p] = "migrated" /\ host' = rec[p].to)
        BY <1>1 DEF Migrate, Goto, GotoAll, IndInv, TypeOK, disk, locals
    <2>2. RootDetail'
        BY <1>a, <2>1 DEF RootDetail, InstallOK, HostOK, LockOK, Interrupted, SettledStates
    <2>3. ProcDetail(p)'
        BY <1>a, <2>1 DEF Interrupted
    <2> QED BY <2>2, <2>3
<1>2. CASE RecordMigrated(p)
    <2>1. /\ Advanced(p, "migrated", "MIGRATED", "swap")
          /\ UNCHANGED <<install, pending, host, lock, app>>
        BY <1>2, AppendedStill DEF RecordMigrated, SyncedPcs, RecoveryPcs
    <2>2. /\ ErrTo(ctx[p]) \in {"undo", "run"}
          /\ ctx[p] = "txn" => ErrTo(ctx[p]) = "undo"
        BY <1>a, <2>1 DEF Advanced, ErrTo
    <2>3. RootDetail'
        BY <1>a, <2>1
        DEF Advanced, RootDetail, InstallOK, HostOK, LockOK, Interrupted, SettledStates
    <2>4. ProcDetail(p)'
        BY <1>a, <2>1, <2>2 DEF Advanced, Interrupted
    <2> QED BY <2>3, <2>4
<1>3. CASE Swap(p)
    <2>1. /\ pc[p] = "swap" /\ ctx'[p] = ctx[p] /\ loc'[p] = loc[p]
          /\ UNCHANGED <<journal, install, pending, probation, host, lock, app>>
          /\ \/ pc'[p] = "swapped" /\ current' = rec[p].to
             \/ pc'[p] = ErrTo(ctx[p]) /\ current' \in {current, rec[p].to}
        BY <1>3 DEF Swap, Written, Goto, GotoAll, Faulty, IndInv, TypeOK, locals
    <2>2. /\ ErrTo(ctx[p]) \in {"undo", "run"}
          /\ ctx[p] = "txn" => ErrTo(ctx[p]) = "undo"
        BY <1>a, <2>1 DEF ErrTo
    <2>3. OnBusy # "force" /\ current' # current => app = NoVersion /\ probation.status # "confirmed"
        <3>1. OnBusy # "force" => lock = p
            BY <1>a, <2>1
        <3>2. OnBusy # "force" => app = NoVersion
            BY <3>1, ProcessAssumption DEF RootDetail, LockOK
        <3>3. current' # current => current = journal.from
            BY <1>a, <2>1 DEF RootDetail, InstallOK, Interrupted
        <3>4. current = journal.from /\ OnBusy # "force" => probation.status # "confirmed"
            BY <1>a, <2>1
            DEF RootDetail, LockOK, IndInv, RootInv, ProbationOK, InFlight, Interrupted
        <3> QED BY <3>2, <3>3, <3>4
    <2>4. RootDetail'
        BY <1>a, <2>1, <2>3
        DEF RootDetail, InstallOK, HostOK, LockOK, Interrupted, SettledStates
    <2>5. ProcDetail(p)'
        BY <1>a, <2>1, <2>2 DEF Interrupted
    <2> QED BY <2>4, <2>5
<1>4. CASE GC(p)
    <2>1. /\ pc[p] = "gc" /\ pc'[p] \in {"gc", AfterGC(p)}
          /\ ctx'[p] = ctx[p] /\ loc'[p] = loc[p] /\ Still
        BY <1>4 DEF GC, Goto, GotoAll, Faulty, IndInv, TypeOK, locals, Still
    <2>2. pc'[p] \in {"gc", "committed", "probation"}
        BY <2>1 DEF AfterGC
    <2>3. ProcDetail(p)'
        BY <2>1, <2>2 DEF Still, Interrupted
    <2> QED BY <2>1, <2>3, DetailKept
<1> QED BY <1>1, <1>2, <1>3, <1>4

(* Planning, pre-flight, the probation record and BEGIN. *)
LEMMA PreparationDetail ==
    ASSUME NEW p \in Procs, IndInv, RootDetail, ProcDetail(p),
           Apply(p) \/ Recheck(p) \/ Preflight(p) \/ ArmProbation(p) \/ Begin(p)
    PROVE  RootDetail' /\ ProcDetail(p)'
<1>0. /\ journal.state \in JournalStates \cup {"NONE"}
      /\ ProcInv(p) /\ ctx[p] \in Contexts
    BY DEF IndInv, TypeOK, Record
<1> USE DEF KnowsInstall, KnowsPending, KnowsHost, KnowsRecord, KnowsLock, LauncherContexts,
            UnlockedPcs, ProcDetail
<1>1. CASE Apply(p) \/ Recheck(p) \/ Preflight(p)
    <2>1. /\ Still /\ loc'[p] = loc[p]
          /\ \/ ctx'[p] \in {"plan", "apply"} /\ pc'[p] = "recover"
             \/ ctx'[p] = ctx[p] /\ pc[p] = "preflight" /\ pc'[p] = PreflightTo(p)
        BY <1>1 DEF Apply, Recheck, Preflight, Goto, GotoAll, IndInv, TypeOK, disk, locals, Still
    <2>2. \/ ctx'[p] \in {"plan", "apply"} /\ pc'[p] = "recover"
          \/ ctx'[p] = "apply" /\ pc'[p] \in {"deferred", "arm", "aborted"}
        BY <1>0, <2>1
        DEF PreflightTo, ProcInv, InContext, PcsOf, RecoveryPcs, RevertPcs, Resting, Contexts
    <2>3. ProcDetail(p)'
        BY <2>1, <2>2
    <2> QED BY <2>1, <2>3, DetailKept
<1>2. CASE ArmProbation(p)
    <2> DEFINE armed == [NoProbation EXCEPT !.status = "probation", !.version = rel[p].to,
                                     !.previous = FallbackOf(rel[p].to, rel[p].from),
                                     !.blocked = probation.blocked]
    <2>1. armed.status = "probation"
        BY DEF NoProbation
    <2>2. pc[p] = "arm" /\ ctx[p] = "apply"
        BY <1>0, <1>2
        DEF ArmProbation, ProcInv, InContext, PcsOf, RecoveryPcs, RevertPcs, Resting, Contexts
    <2> HIDE DEF armed
    <2>3. /\ pc'[p] \in {"begin", "aborted"} /\ ctx'[p] = ctx[p]
          /\ UNCHANGED <<journal, current, install, pending, host, lock, app>>
          /\ \/ probation' = probation
             \/ probation.status # "reverting" /\ probation' = armed
        BY <1>2, <2>2
        DEF ArmProbation, Written, Goto, GotoAll, Faulty, ErrTo, IndInv, TypeOK, armed
    <2>4. RootDetail'
        BY <2>1, <2>3 DEF RootDetail, InstallOK, HostOK, LockOK, Interrupted
    <2>5. ProcDetail(p)'
        BY <2>2, <2>3
    <2> QED BY <2>4, <2>5
<1>3. CASE Begin(p)
    <2> DEFINE r == [state |-> "BEGIN", from |-> rel[p].from, to |-> rel[p].to]
    <2>1. /\ pc[p] = "begin" /\ ctx[p] = "apply" /\ loc'[p] = loc[p]
          /\ journal.state \in SettledStates \cup {"DEFERRED"}
          /\ current = rel[p].from
          /\ probation.status # "reverting"
          /\ OnBusy # "force" => probation.status # "confirmed"
        <3>1. /\ pc[p] = "begin" /\ loc'[p] = loc[p]
            BY <1>3 DEF Begin
        <3> QED BY <1>0, <3>1
            DEF ProcInv, InContext, PcsOf, RecoveryPcs, RevertPcs, Resting, Contexts,
                KnowsJournal, StatesAt, KnowsRelease, RootDetail, LockOK
    <2>2. /\ UNCHANGED <<current, install, pending, probation, host, lock, app>>
          /\ \/ journal' = r /\ pc'[p] = "stage" /\ ctx'[p] = "txn"
             \/ journal' \in {journal, r} /\ pc'[p] = "aborted" /\ ctx'[p] = "apply"
        BY <1>3, <2>1
        DEF Begin, JournalAppend, WrittenRecord, Goto, GotoAll, Faulty, ErrTo, IndInv, TypeOK, r
    <2>3. r.state = "BEGIN" /\ r.from = rel[p].from
        OBVIOUS
    <2> HIDE DEF r
    <2>4. RootDetail'
        BY <2>1, <2>2, <2>3
        DEF RootDetail, InstallOK, HostOK, LockOK, Interrupted, SettledStates
    <2>5. ProcDetail(p)'
        BY <2>1, <2>2, <2>3
    <2> QED BY <2>4, <2>5
<1> QED BY <1>1, <1>2, <1>3

(* Staging, the wait for the application, and the deferral. *)
LEMMA StagingDetail ==
    ASSUME NEW p \in Procs, IndInv, RootDetail, ProcDetail(p),
           \/ StageFiles(p) \/ StagePlace(p) \/ RecordStaged(p)
           \/ QuiesceHeld(p) \/ QuiesceTimeout(p) \/ RecordDeferred(p)
    PROVE  RootDetail' /\ ProcDetail(p)'
<1>0. /\ journal.state \in JournalStates \cup {"NONE"}
      /\ ProcInv(p) /\ ctx[p] \in Contexts
    BY DEF IndInv, TypeOK, Record
<1>a. ASSUME pc[p] \in {"stage", "place", "staged", "quiesce", "defer"}
      PROVE  /\ rec[p] = journal /\ ctx[p] = "txn" /\ ErrTo(ctx[p]) = "undo"
             /\ journal.state = IF pc[p] \in {"quiesce", "defer"} THEN "STAGED" ELSE "BEGIN"
             /\ probation.status # "reverting"
    <2>1. /\ rec[p] = journal /\ ctx[p] = "txn" /\ ErrTo(ctx[p]) = "undo"
          /\ journal.state = IF pc[p] \in {"quiesce", "defer"} THEN "STAGED" ELSE "BEGIN"
        BY <1>0, <1>a
        DEF ProcInv, InContext, PcsOf, RecoveryPcs, RevertPcs, Resting, Contexts, KnowsJournal,
            StatesAt, SyncedPcs, ErrTo
    <2> QED BY <2>1 DEF IndInv, RootInv, ProbationOK, InFlight, Interrupted
<1> USE DEF KnowsInstall, KnowsPending, KnowsHost, KnowsRecord, KnowsLock, LauncherContexts,
            UnlockedPcs, ProcDetail
<1>1. CASE StageFiles(p)
    <2>1. /\ pc[p] = "stage" /\ pc'[p] \in {"place", ErrTo(ctx[p])}
          /\ ctx'[p] = ctx[p] /\ loc'[p] = loc[p]
          /\ UNCHANGED <<journal, current, install, probation, host, lock, app>>
        BY <1>1 DEF StageFiles, Written, Goto, GotoAll, Faulty, IndInv, TypeOK, locals
    <2>2. RootDetail'
        BY <2>1 DEF RootDetail, InstallOK, HostOK, LockOK, Interrupted
    <2>3. ProcDetail(p)'
        BY <1>a, <2>1 DEF Interrupted
    <2> QED BY <2>2, <2>3
<1>2. CASE StagePlace(p)
    <2>1. /\ pc[p] = "place" /\ pc'[p] \in {"staged", ErrTo(ctx[p])}
          /\ ctx'[p] = ctx[p] /\ loc'[p] = loc[p] /\ Still
        BY <1>2 DEF StagePlace, Goto, GotoAll, Faulty, IndInv, TypeOK, locals, Still
    <2>2. ProcDetail(p)'
        BY <1>a, <2>1 DEF Still, Interrupted
    <2> QED BY <2>1, <2>2, DetailKept
<1>3. CASE RecordStaged(p)
    <2>1. /\ Advanced(p, "staged", "STAGED", "quiesce")
          /\ UNCHANGED <<install, pending, host, lock, app>>
        BY <1>3, AppendedStill DEF RecordStaged, SyncedPcs
    <2>2. RootDetail'
        BY <1>a, <2>1
        DEF Advanced, RootDetail, InstallOK, HostOK, LockOK, Interrupted, SettledStates
    <2>3. ProcDetail(p)'
        BY <1>a, <2>1 DEF Advanced, Interrupted
    <2> QED BY <2>2, <2>3
<1>4. CASE QuiesceHeld(p)
    <2>1. /\ pc[p] = "quiesce" /\ pc'[p] = "migrate" /\ lock = Free /\ lock' = p
          /\ ctx'[p] = ctx[p] /\ loc'[p] = loc[p]
          /\ UNCHANGED <<journal, current, install, pending, probation, host, app>>
        BY <1>4 DEF QuiesceHeld, Goto, GotoAll, IndInv, TypeOK, disk, locals
    <2>2. RootDetail'
        BY <2>1 DEF RootDetail, InstallOK, HostOK, LockOK, Interrupted, Free, App
    <2>3. ProcDetail(p)'
        BY <1>a, <2>1 DEF Interrupted
    <2> QED BY <2>2, <2>3
<1>5. CASE QuiesceTimeout(p)
    <2>1. /\ pc[p] = "quiesce" /\ ctx'[p] = ctx[p] /\ loc'[p] = loc[p] /\ Still
          /\ pc'[p] = CASE OnBusy = "abort" -> ErrTo(ctx[p])
                         [] OnBusy = "defer" -> "defer"
                         [] OTHER -> "migrate"
        BY <1>5 DEF QuiesceTimeout, Goto, GotoAll, IndInv, TypeOK, disk, locals, Still
    <2>2. \/ pc'[p] = "undo"
          \/ pc'[p] = "defer" /\ OnBusy = "defer"
          \/ pc'[p] = "migrate" /\ OnBusy = "force"
        BY <1>a, <2>1, PolicyAssumption
    <2>3. ProcDetail(p)'
        BY <1>a, <2>1, <2>2 DEF Still, Interrupted
    <2> QED BY <2>1, <2>3, DetailKept
<1>6. CASE RecordDeferred(p)
    <2> DEFINE r == [journal EXCEPT !.state = "DEFERRED"]
    <2>1. pc[p] = "defer" /\ rec[p] = journal /\ journal \in Record
        BY <1>a, <1>6 DEF RecordDeferred, IndInv, TypeOK
    <2>2. r.state = "DEFERRED" /\ r.from = journal.from /\ r.to = journal.to
        BY <2>1 DEF Record
    <2>3. /\ pc'[p] = "deferred" /\ journal' \in {journal, r}
          /\ ctx'[p] = ctx[p] /\ loc'[p] = loc[p]
          /\ UNCHANGED <<current, install, pending, probation, host, lock, app>>
        BY <1>6, <2>1 DEF RecordDeferred, Stepped, Goto, GotoAll, Faulty, IndInv, TypeOK, locals, r
    <2> HIDE DEF r
    <2>4. RootDetail'
        BY <1>a, <2>1, <2>2, <2>3
        DEF RootDetail, InstallOK, HostOK, LockOK, Interrupted
    <2>5. ProcDetail(p)'
        BY <1>a, <2>1, <2>2, <2>3 DEF Interrupted
    <2> QED BY <2>4, <2>5
<1> QED BY <1>1, <1>2, <1>3, <1>4, <1>5, <1>6

(* The end of an Apply. *)
LEMMA OutcomeDetail ==
    ASSUME NEW p \in Procs, IndInv, RootDetail, ProcDetail(p),
           Verify(p) \/ PromoteAfterCommit(p) \/ SweepStaging(p) \/ ReportOutcome(p)
    PROVE  RootDetail' /\ ProcDetail(p)'
<1>0. /\ journal.state \in JournalStates \cup {"NONE"}
      /\ ProcInv(p) /\ ctx[p] \in Contexts
    BY DEF IndInv, TypeOK, Record
<1>a. ASSUME pc[p] \in {"verify", "promote", "sweep"}
      PROVE  /\ rec[p] = journal /\ ctx[p] = "txn"
             /\ journal.state = IF pc[p] = "verify" THEN "SWAPPED" ELSE "COMMITTED"
    BY <1>0, <1>a
    DEF ProcInv, InContext, PcsOf, RecoveryPcs, RevertPcs, Resting, Contexts, KnowsJournal,
        StatesAt, SyncedPcs
<1> USE DEF KnowsInstall, KnowsPending, KnowsHost, KnowsRecord, KnowsLock, LauncherContexts,
            UnlockedPcs, ProcDetail
<1>1. CASE Verify(p)
    <2>1. /\ pc[p] = "verify" /\ pc'[p] = "install"
          /\ ctx'[p] = ctx[p] /\ loc'[p] = loc[p] /\ Still
        BY <1>1 DEF Verify, Goto, GotoAll, IndInv, TypeOK, disk, locals, Still
    <2>2. ProcDetail(p)'
        BY <1>a, <2>1 DEF Still, Interrupted
    <2> QED BY <2>1, <2>2, DetailKept
<1>2. CASE PromoteAfterCommit(p) \/ SweepStaging(p)
    <2>1. /\ ctx'[p] = ctx[p] /\ loc'[p] = loc[p] /\ pc[p] \in {"promote", "sweep"}
          /\ UNCHANGED <<journal, current, install, probation, host, lock, app>>
          /\ pc'[p] = "gc" \/ (pc'[p] = "sweep" /\ rec[p].to \notin pending')
        BY <1>2
        DEF PromoteAfterCommit, SweepStaging, PromoteLauncher, Goto, GotoAll, Faulty, IndInv,
            TypeOK, locals
    <2>2. RootDetail'
        BY <2>1 DEF RootDetail, InstallOK, HostOK, LockOK, Interrupted
    <2>3. ProcDetail(p)'
        BY <1>a, <2>1 DEF Interrupted
    <2> QED BY <2>2, <2>3
<1>3. CASE ReportOutcome(p)
    <2>1. /\ ctx'[p] = "none" /\ pc'[p] = "idle" /\ lock' = IF lock = p THEN Free ELSE lock
          /\ UNCHANGED <<journal, current, install, pending, probation, host, app>>
        BY <1>3 DEF ReportOutcome, Forget, Release, Goto, GotoAll, IndInv, TypeOK, disk
    <2>2. RootDetail'
        BY <2>1, ProcessAssumption DEF RootDetail, InstallOK, HostOK, LockOK, Interrupted
    <2>3. ProcDetail(p)'
        BY <2>1
    <2> QED BY <2>2, <2>3
<1> QED BY <1>1, <1>2, <1>3

(* A start up to its decision about the probation. *)
LEMMA StartDetail ==
    ASSUME NEW p \in Procs, IndInv, RootDetail, ProcDetail(p),
           \/ Start(p) \/ ResumeLock(p) \/ ResumeDeferred(p) \/ CheckProbation(p)
           \/ CountStart(p)
    PROVE  RootDetail' /\ ProcDetail(p)'
<1>0. /\ journal.state \in JournalStates \cup {"NONE"}
      /\ ProcInv(p) /\ ctx[p] \in Contexts /\ probation \in Probation /\ loc[p] \in Probation
    BY DEF IndInv, TypeOK, Record
<1> USE DEF KnowsInstall, KnowsPending, KnowsHost, KnowsRecord, KnowsLock, LauncherContexts,
            UnlockedPcs, ProcDetail
<1>1. CASE Start(p)
    <2>1. /\ ctx'[p] = "start" /\ pc'[p] = "recover" /\ Still
          /\ OneInstance => app = NoVersion
        BY <1>1 DEF Start, Goto, GotoAll, IndInv, TypeOK, disk, Still
    <2>2. ProcDetail(p)'
        BY <2>1 DEF Still
    <2> QED BY <2>1, <2>2, DetailKept
<1>2. CASE ResumeLock(p)
    <2>1. /\ pc[p] = "resumelock"
          /\ UNCHANGED <<journal, current, install, pending, probation, host, app>>
          /\ \/ ctx'[p] = "resume" /\ pc'[p] = "resume" /\ lock = Free /\ lock' = p
             \/ ctx'[p] = "skip" /\ pc'[p] = "probation" /\ lock' = lock
        BY <1>2 DEF ResumeLock, Goto, GotoAll, IndInv, TypeOK, disk
    <2>2. ctx[p] = "start"
        BY <1>0, <2>1 DEF ProcInv, InContext, PcsOf, RecoveryPcs, RevertPcs, Resting, Contexts
    <2>3. RootDetail'
        BY <2>1 DEF RootDetail, InstallOK, HostOK, LockOK, Interrupted, Free, App
    <2>4. ProcDetail(p)'
        BY <2>1, <2>2
    <2> QED BY <2>3, <2>4
<1>3. CASE ResumeDeferred(p)
    <2>1. /\ pc[p] = "resume" /\ pc'[p] \in {"migrate", "gc"} /\ ctx'[p] = ctx[p] /\ Still
        BY <1>3 DEF ResumeDeferred, Goto, GotoAll, IndInv, TypeOK, disk, Still
    <2>2. ctx[p] = "resume"
        BY <1>0, <2>1 DEF ProcInv, InContext, PcsOf, RecoveryPcs, RevertPcs, Resting, Contexts
    <2>3. ProcDetail(p)'
        BY <2>1, <2>2 DEF Still
    <2> QED BY <2>1, <2>3, DetailKept
<1>4. CASE CheckProbation(p)
    <2> DEFINE c == FinishContext(ctx[p])
               next == ProbationTo(c, probation)
               seen == IF next = "count" THEN Counted(probation) ELSE probation
    <2>1. /\ pc[p] = "probation" /\ pc'[p] = next /\ ctx'[p] = c /\ loc'[p] = seen /\ Still
        BY <1>4 DEF CheckProbation, Goto, GotoAll, IndInv, TypeOK, disk, Still
    <2>2. /\ ctx[p] \in {"start", "resume", "skip"} /\ c \in {"finish", "locked", "skip"}
          /\ c = "locked" => ctx[p] = "resume"
        BY <1>0, <2>1
        DEF ProcInv, InContext, PcsOf, RecoveryPcs, RevertPcs, Resting, Contexts, FinishContext
    <2>3. /\ next \in {"count", "revert", "self", "run"}
          /\ next = "count" => probation.status = "probation"
          /\ next = "revert" => probation.status \in {"probation", "unhealthy", "reverting"}
        <3>1. ErrTo(c) \in {"self", "run"}
            BY <2>2 DEF ErrTo
        <3>2. probation.status = "reverted" => current # probation.version
            BY DEF IndInv, RootInv, ProbationOK
        <3> QED BY <3>1, <3>2 DEF ProbationTo, Failed
    <2>4. next # "count" => seen = probation
        OBVIOUS
    <2>5. next = "count" => seen.previous = probation.previous
        BY <1>0 DEF Counted, Probation
    <2> HIDE DEF c, next, seen
    <2>6. ProcDetail(p)'
        BY <2>1, <2>2, <2>3, <2>4, <2>5 DEF Still
    <2> QED BY <2>1, <2>6, DetailKept
<1>5. CASE CountStart(p)
    <2>1. /\ pc[p] = "count" /\ probation' = loc[p] /\ pc'[p] = ErrTo(ctx[p])
          /\ ctx'[p] = ctx[p]
          /\ UNCHANGED <<journal, current, install, pending, host, lock, app>>
        BY <1>5
        DEF CountStart, WriteProbation, Written, Goto, Faulty, GotoAll, IndInv, TypeOK, locals
    <2>2. /\ ctx[p] \in {"finish", "locked", "skip"} /\ ErrTo(ctx[p]) \in {"self", "run"}
          /\ loc[p].status = "probation"
        BY <1>0, <2>1
        DEF ProcInv, InContext, PcsOf, RecoveryPcs, RevertPcs, Resting, Contexts, ErrTo,
            KnowsProbation
    <2>3. RootDetail'
        BY <2>1, <2>2 DEF RootDetail, InstallOK, HostOK, LockOK, Interrupted
    <2>4. ProcDetail(p)'
        BY <2>1, <2>2
    <2> QED BY <2>3, <2>4
<1> QED BY <1>1, <1>2, <1>3, <1>4, <1>5

(* The revert of the version on probation, under the lock. *)
LEMMA RevertDetail ==
    ASSUME NEW p \in Procs, IndInv, RootDetail, ProcDetail(p),
           \/ RevertLock(p) \/ RevertRecord(p) \/ RevertSwap(p) \/ RevertHook(p)
           \/ RevertInstall(p) \/ RevertDone(p) \/ RevertRemove(p)
    PROVE  RootDetail' /\ ProcDetail(p)'
<1>0. /\ journal.state \in JournalStates \cup {"NONE"}
      /\ ProcInv(p) /\ ctx[p] \in Contexts /\ probation \in Probation /\ loc[p] \in Probation
    BY DEF IndInv, TypeOK, Record
<1>a. ASSUME pc[p] \in RevertPcs
      PROVE  /\ ctx[p] \in {"finish", "locked", "skip"} /\ ErrTo(ctx[p]) \in {"self", "run"}
             /\ journal.state \in SettledStates
             /\ pc[p] # "rvremove" => Exists(loc[p].previous)
             /\ pc[p] \in {"rvswap", "rvhook", "rvinstall", "rvdone"} =>
                  probation = loc[p] /\ probation.status = "reverting"
             /\ pc[p] \in {"rvhook", "rvinstall", "rvdone"} => current = loc[p].previous
    BY <1>0, <1>a
    DEF ProcInv, InContext, PcsOf, RecoveryPcs, RevertPcs, Resting, Contexts, KnowsJournal,
        StatesAt, SyncedPcs, KnowsProbation, ErrTo, Exists
<1> USE DEF KnowsInstall, KnowsPending, KnowsHost, KnowsRecord, KnowsLock, LauncherContexts,
            UnlockedPcs, ProcDetail, RevertPcs
<1>1. CASE RevertLock(p)
    <2>1. /\ pc[p] = "revert" /\ ctx'[p] = ctx[p] /\ loc'[p] = loc[p]
          /\ UNCHANGED <<journal, current, install, pending, probation, host, app>>
          /\ \/ ctx[p] = "locked" /\ pc'[p] = "fallback" /\ lock' = lock
             \/ lock = Free /\ lock' = p /\ pc'[p] = "fallback"
             \/ lock' = lock /\ pc'[p] = ErrTo(ctx[p])
        BY <1>1 DEF RevertLock, Goto, GotoAll, IndInv, TypeOK, disk, locals
    <2>2. RootDetail'
        BY <2>1 DEF RootDetail, InstallOK, HostOK, LockOK, Interrupted, Free, App
    <2>3. ProcDetail(p)'
        BY <1>a, <2>1
    <2> QED BY <2>2, <2>3
<1>2. CASE RevertRecord(p)
    <2> DEFINE decided == [loc[p] EXCEPT !.status = "reverting"]
    <2>1. pc[p] = "fallback" /\ Exists(loc[p].previous)
        BY <1>a, <1>2 DEF RevertRecord
    <2>2. decided.status = "reverting"
        BY <1>0 DEF Probation
    <2> HIDE DEF decided
    <2>3. /\ ctx'[p] = ctx[p] /\ pc'[p] \in {"rvswap", ErrTo(ctx[p])}
          /\ UNCHANGED <<journal, current, install, pending, host, lock, app>>
          /\ probation' \in {probation, decided}
        BY <1>2, <2>1
        DEF RevertRecord, WriteProbation, Written, Goto, Faulty, GotoAll, IndInv, TypeOK, decided
    <2>4. RootDetail'
        BY <2>2, <2>3 DEF RootDetail, InstallOK, HostOK, LockOK, Interrupted
    <2>5. ProcDetail(p)'
        BY <1>a, <2>1, <2>3
    <2> QED BY <2>4, <2>5
<1>3. CASE RevertSwap(p)
    <2>1. /\ pc[p] = "rvswap" /\ pc'[p] \in {"rvhook", ErrTo(ctx[p])}
          /\ ctx'[p] = ctx[p]
          /\ UNCHANGED <<journal, install, pending, probation, host, lock, app>>
        BY <1>3 DEF RevertSwap, Written, Goto, Faulty, GotoAll, IndInv, TypeOK, locals
    <2>2. probation.status = "reverting" /\ journal.state \in SettledStates
        BY <1>a, <2>1
    <2>3. OnBusy # "force" => app = NoVersion
        BY <2>1, ProcessAssumption DEF RootDetail, LockOK
    <2>4. RootDetail'
        BY <2>1, <2>2, <2>3
        DEF RootDetail, InstallOK, HostOK, LockOK, Interrupted, SettledStates
    <2>5. ProcDetail(p)'
        BY <1>a, <2>1
    <2> QED BY <2>4, <2>5
<1>4. CASE RevertHook(p)
    <2>1. /\ pc[p] = "rvhook" /\ pc'[p] = "rvinstall" /\ host' = loc[p].previous
          /\ ctx'[p] = ctx[p]
          /\ UNCHANGED <<journal, current, install, pending, probation, lock, app>>
        BY <1>4 DEF RevertHook, Goto, GotoAll, IndInv, TypeOK, disk, locals
    <2>2. RootDetail'
        BY <1>a, <2>1
        DEF RootDetail, InstallOK, HostOK, LockOK, Interrupted, SettledStates
    <2>3. ProcDetail(p)'
        BY <1>a, <2>1
    <2> QED BY <2>2, <2>3
<1>5. CASE RevertInstall(p)
    <2>1. /\ pc[p] = "rvinstall" /\ ctx'[p] = ctx[p]
          /\ UNCHANGED <<journal, current, pending, probation, host, lock, app>>
          /\ \/ pc'[p] = ErrTo(ctx[p])
             \/ pc'[p] = "rvdone" /\ install' = loc[p].previous
        BY <1>5
        DEF RevertInstall, Written, Goto, Faulty, GotoAll, IndInv, TypeOK, locals
    <2>2. RootDetail'
        BY <1>a, <2>1
        DEF RootDetail, InstallOK, HostOK, LockOK, Interrupted, SettledStates
    <2>3. ProcDetail(p)'
        BY <1>a, <2>1
    <2> QED BY <2>2, <2>3
<1>6. CASE RevertDone(p)
    <2> DEFINE done == [loc[p] EXCEPT !.status = "reverted", !.restartPending = FALSE,
                                      !.blocked = loc[p].version]
    <2>1. done.status = "reverted"
        BY <1>0 DEF Probation
    <2> HIDE DEF done
    <2>2. /\ pc[p] = "rvdone" /\ pc'[p] \in {"rvremove", ErrTo(ctx[p])}
          /\ probation' = done /\ ctx'[p] = ctx[p]
          /\ UNCHANGED <<journal, current, install, pending, host, lock, app>>
        BY <1>6
        DEF RevertDone, WriteProbation, Written, Goto, Faulty, GotoAll, IndInv, TypeOK, locals,
            done
    <2>3. RootDetail'
        BY <1>a, <2>1, <2>2
        DEF RootDetail, InstallOK, HostOK, LockOK, Interrupted, SettledStates
    <2>4. ProcDetail(p)'
        BY <1>a, <2>2
    <2> QED BY <2>3, <2>4
<1>7. CASE RevertRemove(p)
    <2>1. /\ pc[p] = "rvremove" /\ pc'[p] \in {"rvremove", ErrTo(ctx[p])}
          /\ ctx'[p] = ctx[p] /\ Still
        BY <1>7 DEF RevertRemove, RemoveTree, Goto, Faulty, GotoAll, IndInv, TypeOK, locals, Still
    <2>2. ProcDetail(p)'
        BY <1>a, <2>1 DEF Still
    <2> QED BY <2>1, <2>2, DetailKept
<1> QED BY <1>1, <1>2, <1>3, <1>4, <1>5, <1>6, <1>7

(* The end of a start, an error and a crash. *)
LEMMA RunDetail ==
    ASSUME NEW p \in Procs, IndInv, RootDetail, ProcDetail(p),
           UpdateSelf(p) \/ DropStaged(p) \/ RunApplication(p) \/ Fail(p) \/ Crash(p)
    PROVE  RootDetail' /\ ProcDetail(p)'
<1>0. /\ journal.state \in JournalStates \cup {"NONE"}
      /\ ProcInv(p) /\ ctx[p] \in Contexts
    BY DEF IndInv, TypeOK, Record
<1> USE DEF KnowsInstall, KnowsPending, KnowsHost, KnowsRecord, KnowsLock, LauncherContexts,
            UnlockedPcs, ProcDetail
<1>1. CASE UpdateSelf(p) \/ DropStaged(p)
    <2>1. /\ pc[p] \in {"self", "selfdrop"} /\ pc'[p] \in {"selfdrop", "run"}
          /\ ctx'[p] = ctx[p]
          /\ UNCHANGED <<journal, current, install, pending, probation, host, app>>
          /\ \/ lock' = lock
             \/ ctx[p] # "locked" /\ lock' = IF lock = p THEN Free ELSE lock
        BY <1>1
        DEF UpdateSelf, DropStaged, Release, Goto, Faulty, GotoAll, IndInv, TypeOK, locals
    <2>2. ctx[p] \in {"finish", "locked"}
        BY <1>0, <2>1
        DEF ProcInv, InContext, PcsOf, RecoveryPcs, RevertPcs, Resting, Contexts
    <2>3. RootDetail'
        BY <2>1, ProcessAssumption DEF RootDetail, InstallOK, HostOK, LockOK, Interrupted
    <2>4. ProcDetail(p)'
        BY <2>1, <2>2
    <2> QED BY <2>3, <2>4
<1>2. CASE RunApplication(p)
    <2>1. /\ ctx'[p] = "none" /\ pc'[p] = "idle"
          /\ UNCHANGED <<journal, current, install, pending, probation, host>>
          /\ \/ app' = current /\ lock' = App
             \/ app' = app /\ lock' = IF lock = p THEN Free ELSE lock
        BY <1>2 DEF RunApplication, Release, Forget, Goto, GotoAll, IndInv, TypeOK, disk
    <2>2. RootDetail'
        BY <2>1, ProcessAssumption DEF RootDetail, InstallOK, HostOK, LockOK, Interrupted
    <2>3. ProcDetail(p)'
        BY <2>1
    <2> QED BY <2>2, <2>3
<1>3. CASE Crash(p)
    <2>1. /\ ctx'[p] = "none" /\ pc'[p] = "idle"
          /\ UNCHANGED <<journal, current, install, pending, probation, host, app>>
          /\ lock' = IF lock = p THEN Free ELSE lock
        BY <1>3 DEF Crash, Release, Forget, GotoAll, IndInv, TypeOK, disk
    <2>2. RootDetail'
        BY <2>1, ProcessAssumption DEF RootDetail, InstallOK, HostOK, LockOK, Interrupted
    <2>3. ProcDetail(p)'
        BY <2>1
    <2> QED BY <2>2, <2>3
<1>4. CASE Fail(p)
    <2>1. pc'[p] = ErrTo(ctx[p]) /\ ctx'[p] = ctx[p] /\ Still
        BY <1>4 DEF Fail, Faulty, GotoAll, IndInv, TypeOK, disk, locals, Still
    <2> QED BY <2>1, DetailKept, ErrorDetail
<1> QED BY <1>1, <1>2, <1>3, <1>4

(* What the application does: it confirms only the version that is live, and
   no start is between its read and its write of the record. *)
LEMMA ApplicationDetail ==
    ASSUME IndInv, RootDetail, \A q \in Procs : ProcDetail(q), Application
    PROVE  RootDetail' /\ \A q \in Procs : ProcDetail(q)'
<1> DEFINE Edited == /\ probation.status = "probation"
                     /\ probation'.status \in {"probation", "confirmed", "unhealthy"}
                     /\ probation'.status = "confirmed" => app = probation.version
                     /\ probation'.version = probation.version
                     /\ probation'.previous = probation.previous
<1>1. /\ UNCHANGED <<journal, current, install, pending, host, pc, ctx, loc>>
      /\ app # NoVersion
      /\ \/ app' = app /\ lock' = lock
         \/ app' = NoVersion /\ lock' = IF lock = App THEN Free ELSE lock
    BY DEF Application, MarkHealthy, MarkUnhealthy, Relaunch, AppExit, ReleaseApp, disk, locals
<1>2. probation' = probation \/ Edited
    <2>1. probation \in Probation
        BY DEF IndInv, TypeOK
    <2>2. CASE MarkHealthy
        BY <2>1, <2>2 DEF MarkHealthy, OnProbation, Probation
    <2>3. CASE MarkUnhealthy
        BY <2>1, <2>3 DEF MarkUnhealthy, OnProbation, Probation
    <2>4. CASE Relaunch
        BY <2>1, <2>4 DEF Relaunch, Probation
    <2>5. CASE AppExit
        BY <2>5 DEF AppExit, disk
    <2> QED BY <2>2, <2>3, <2>4, <2>5 DEF Application
<1>3. RootDetail'
    BY <1>1, <1>2 DEF RootDetail, InstallOK, HostOK, LockOK, Interrupted
<1>4. ASSUME NEW q \in Procs
      PROVE  ProcDetail(q)'
    <2>1. ProcDetail(q) /\ ProcInv(q)
        BY DEF IndInv
    <2>2. KnowsInstall(q)' /\ KnowsPending(q)' /\ KnowsHost(q)'
        BY <1>1, <1>2, <2>1 DEF ProcDetail, KnowsInstall, KnowsPending, KnowsHost
    <2>3. KnowsRecord(q)'
        <3>1. CASE OneInstance
            <4>1. ctx[q] \notin LauncherContexts
                BY <1>1, <2>1, <3>1 DEF ProcDetail, KnowsRecord
            <4>2. pc[q] \notin {"revert", "fallback", "count"}
                BY <2>1, <4>1
                DEF ProcInv, InContext, PcsOf, RecoveryPcs, RevertPcs, Resting, LauncherContexts,
                    IndInv, TypeOK, Contexts
            <4> QED BY <1>1, <4>1, <4>2 DEF KnowsRecord
        <3> QED BY <3>1 DEF KnowsRecord
    <2>4. KnowsLock(q)'
        <3>1. CASE OnBusy # "force"
            <4>1. lock = App /\ app = current
                BY <1>1, <3>1 DEF RootDetail, LockOK
            <4>2. lock # q
                BY <4>1, ProcessAssumption
            <4>3. journal.state \in {"BEGIN", "STAGED"} =>
                     (probation'.status = "confirmed" => probation.status = "confirmed")
                BY <1>2, <4>1
                DEF IndInv, RootInv, InFlightOK, ProbationOK, InFlight, Interrupted
            <4> QED BY <1>1, <1>2, <2>1, <3>1, <4>1, <4>2, <4>3
                    DEF ProcDetail, KnowsLock, Interrupted
        <3> QED BY <3>1 DEF KnowsLock
    <2> QED BY <2>2, <2>3, <2>4 DEF ProcDetail
<1> QED BY <1>3, <1>4

(* An empty install root satisfies the invariant. *)
LEMMA DetailInit == Init => DetailInv
<1> SUFFICES ASSUME Init PROVE DetailInv
    OBVIOUS
<1>1. InstallOK /\ HostOK /\ LockOK
    BY DEF Init, InstallOK, HostOK, LockOK, Interrupted, NoRecord, NoProbation
<1>2. ASSUME NEW p \in Procs
      PROVE  ProcDetail(p)
    <2>1. pc[p] = "idle" /\ ctx[p] = "none"
        BY DEF Init
    <2> QED BY <2>1
            DEF ProcDetail, KnowsInstall, KnowsPending, KnowsHost, KnowsRecord, KnowsLock,
                LauncherContexts
<1> QED BY <1>1, <1>2 DEF DetailInv

(* A step of p moves nobody else. *)
LEMMA MovesAlone ==
    ASSUME NEW p \in Procs, Uniform, IndInv, TypeOK',
           ProcStep(p) \/ Fail(p) \/ Crash(p) \/ Start(p) \/ Apply(p)
    PROVE  Keeps(p)
BY RecoverySteps, RollbackSteps, CompletionSteps, SwitchSteps, PreparationSteps, StagingSteps,
   OutcomeSteps, StartSteps, RevertSteps, RunSteps
DEF ProcStep, TransactionStep, UpdaterStep, LauncherStep

(* Every step keeps the invariant. *)
LEMMA DetailNext ==
    ASSUME Exclusive, Uniform, IndInv, DetailInv, [Next]_vars
    PROVE  DetailInv'
<1>0. TypeOK' /\ RootDetail /\ \A q \in Procs : ProcInv(q) /\ ProcDetail(q)
    BY NextTypes DEF IndInv, DetailInv, RootDetail
<1>1. ASSUME NEW p \in Procs, ProcStep(p) \/ Fail(p) \/ Crash(p) \/ Start(p) \/ Apply(p)
      PROVE  DetailInv'
    <2>1. RootDetail' /\ ProcDetail(p)'
        BY <1>0, <1>1, RecoveryDetail, RollbackDetail, CompletionDetail, SwitchDetail,
           PreparationDetail, StagingDetail, OutcomeDetail, StartDetail, RevertDetail, RunDetail
        DEF ProcStep, TransactionStep, UpdaterStep, LauncherStep
    <2>2. \A q \in Procs \ {p} : ~Active(q)
        BY <1>1, Alone
    <2>3. Keeps(p)
        BY <1>0, <1>1, MovesAlone
    <2>4. \A q \in Procs \ {p} : ProcDetail(q)'
        BY <1>0, <2>2, <2>3, RestDetail DEF Keeps
    <2> QED BY <2>1, <2>4 DEF DetailInv, RootDetail
<1>2. ASSUME NEW p \in Updaters, NEW v \in Versions, CheckForUpdate(p, v)
      PROVE  DetailInv'
    <2>1. /\ p \in Procs /\ pc[p] = "idle" /\ pc'[p] = "checked" /\ Still
          /\ UNCHANGED <<ctx, loc>> /\ \A q \in Procs \ {p} : pc'[q] = pc[q]
        BY <1>2 DEF CheckForUpdate, Goto, GotoAll, IndInv, TypeOK, disk, Still, Procs
    <2>2. RootDetail'
        BY <1>0, <2>1, DetailKept
    <2>3. \A q \in Procs \ {p} : ProcDetail(q)'
        BY <1>0, <2>1
        DEF ProcDetail, KnowsInstall, KnowsPending, KnowsHost, KnowsRecord, KnowsLock, Still,
            Interrupted
    <2>4. ctx[p] = "none"
        BY <1>0, <2>1 DEF ProcInv, InContext, PcsOf, RecoveryPcs, RevertPcs
    <2>5. ProcDetail(p)'
        BY <2>1, <2>4
        DEF ProcDetail, KnowsInstall, KnowsPending, KnowsHost, KnowsRecord, KnowsLock,
            LauncherContexts
    <2> QED BY <2>2, <2>3, <2>5 DEF DetailInv, RootDetail
<1>3. CASE Application
    BY <1>0, <1>3, ApplicationDetail DEF DetailInv, RootDetail
<1>4. CASE UNCHANGED vars
    <2>1. Still /\ UNCHANGED <<pc, ctx, loc>>
        BY <1>4 DEF vars, disk, locals, Still
    <2>2. \A q \in Procs : ProcDetail(q)'
        BY <1>0, <2>1
        DEF ProcDetail, KnowsInstall, KnowsPending, KnowsHost, KnowsRecord, KnowsLock, Still,
            Interrupted
    <2> QED BY <1>0, <2>1, <2>2, DetailKept DEF DetailInv, RootDetail
<1> QED BY <1>1, <1>2, <1>3, <1>4 DEF Next

(* What the steps of Apply, Start and revert know of the install state, the
   host's data, the probation record and the application lock holds whenever
   they are taken. *)
THEOREM DetailHolds ==
    ASSUME Exclusive, Uniform
    PROVE  Spec => [](IndInv /\ DetailInv)
<1>1. Init => IndInv /\ DetailInv
    BY InvInit, DetailInit
<1>2. IndInv /\ DetailInv /\ [Next]_vars => IndInv' /\ DetailInv'
    BY InvNext, DetailNext
<1> QED BY <1>1, <1>2, PTL DEF Spec

(* When nothing runs and the last transaction committed, .updater/state.json
   names the version `current' names: complete writes the state before it
   records COMMITTED, and revert before it records REVERTED. *)
THEOREM StateAgrees ==
    ASSUME Exclusive, Uniform
    PROVE  Spec => []CommittedState
<1>1. DetailInv => CommittedState
    BY DEF DetailInv, InstallOK, CommittedState, Decided
<1> QED BY <1>1, DetailHolds, PTL

(* Unless updates are deferred, the host's data fits the live version once a
   transaction is decided: Migrate runs before the swap and Rollback after the
   pointer is back, and a crash between the two is settled by recovery. *)
THEOREM HostAgrees ==
    ASSUME Exclusive, Uniform, OnBusy # "defer"
    PROVE  Spec => []HostFits
<1>1. IndInv /\ DetailInv => HostFits
    BY DEF DetailInv, HostOK, HostFits, Decided, IndInv, TypeOK, Record, JournalStates, InFlight,
           Interrupted, SettledStates
<1> QED BY <1>1, DetailHolds, PTL

-----------------------------------------------------------------------------
(* What each step leaves alone. *)

\* Steps that touch neither the journal nor the pointer nor the probation record
\* nor a launcher that waits.
Inward(p) ==
    \/ RecoverResult(p) \/ RecoverAmbiguous(p) \/ Rollback(p) \/ RollbackHook(p)
    \/ RollbackTree(p) \/ Complete(p) \/ WriteInstall(p) \/ Migrate(p) \/ GC(p)
    \/ Apply(p) \/ Recheck(p) \/ Preflight(p) \/ StagePlace(p) \/ QuiesceHeld(p)
    \/ QuiesceTimeout(p) \/ Verify(p) \/ ReportOutcome(p)
    \/ Start(p) \/ ResumeLock(p) \/ ResumeDeferred(p) \/ CheckProbation(p)
    \/ RevertLock(p) \/ RevertHook(p) \/ RevertInstall(p) \/ RevertRemove(p)
    \/ UpdateSelf(p) \/ RunApplication(p) \/ Fail(p) \/ Crash(p)
    \/ \E v \in Versions : CheckForUpdate(p, v)

\* Steps that move a waiting launcher, write the journal, move the pointer, or
\* write the probation record.
MovesLauncher(p) ==
    \/ CleanOrphans(p) \/ SettleCommitted(p) \/ StageFiles(p)
    \/ PromoteAfterCommit(p) \/ SweepStaging(p) \/ DropStaged(p)

WritesJournal(p) ==
    \/ RollbackRecord(p) \/ RecordSwapped(p) \/ RecordCommitted(p) \/ RecordMigrated(p)
    \/ Begin(p) \/ RecordStaged(p) \/ RecordDeferred(p)

MovesPointer(p) == RestorePointer(p) \/ Swap(p) \/ RevertSwap(p)

WritesRecord(p) == ArmProbation(p) \/ CountStart(p) \/ RevertRecord(p) \/ RevertDone(p)

(* Every step is of one of these kinds. *)
LEMMA Kinds ==
    ASSUME [Next]_vars
    PROVE  \/ \E p \in Procs : \/ Inward(p) \/ MovesLauncher(p) \/ WritesJournal(p)
                               \/ MovesPointer(p) \/ WritesRecord(p)
           \/ Application
           \/ UNCHANGED vars
<1>1. ASSUME NEW p \in Procs, ProcStep(p) \/ Fail(p) \/ Crash(p) \/ Start(p) \/ Apply(p)
      PROVE  \/ Inward(p) \/ MovesLauncher(p) \/ WritesJournal(p)
             \/ MovesPointer(p) \/ WritesRecord(p)
    BY <1>1
    DEF ProcStep, TransactionStep, UpdaterStep, LauncherStep, Inward, MovesLauncher,
        WritesJournal, MovesPointer, WritesRecord
<1>2. ASSUME NEW p \in Updaters, NEW v \in Versions, CheckForUpdate(p, v)
      PROVE  p \in Procs /\ Inward(p)
    BY <1>2 DEF Inward, Procs
<1> QED BY <1>1, <1>2 DEF Next

(* What the steps of each kind leave alone. *)
LEMMA Frames ==
    ASSUME NEW p \in Procs
    PROVE  /\ Inward(p) =>
                UNCHANGED <<journal, current, probation, pending, launcherNext>>
           /\ MovesLauncher(p) => UNCHANGED <<journal, current, probation>>
           /\ WritesJournal(p) => UNCHANGED <<current, probation, pending, launcherNext>>
           /\ MovesPointer(p) => UNCHANGED <<journal, probation, pending, launcherNext>>
           /\ WritesRecord(p) => UNCHANGED <<journal, current, pending, launcherNext>>
<1>1. ASSUME Inward(p)
      PROVE  UNCHANGED <<journal, current, probation, pending, launcherNext>>
    <2>1. CASE \/ RecoverResult(p) \/ RecoverAmbiguous(p) \/ Rollback(p) \/ RollbackHook(p)
               \/ RollbackTree(p) \/ Complete(p) \/ WriteInstall(p) \/ Migrate(p) \/ GC(p)
               \/ Fail(p) \/ Crash(p)
        BY <2>1
        DEF RecoverResult, RecoverAmbiguous, Rollback, RollbackHook, RollbackTree, Complete,
            WriteInstall, Migrate, GC, Fail, Crash, disk
    <2>2. CASE \/ Apply(p) \/ Recheck(p) \/ Preflight(p) \/ StagePlace(p) \/ QuiesceHeld(p)
               \/ QuiesceTimeout(p) \/ Verify(p) \/ ReportOutcome(p)
               \/ \E v \in Versions : CheckForUpdate(p, v)
        BY <2>2
        DEF Apply, Recheck, Preflight, StagePlace, QuiesceHeld, QuiesceTimeout, Verify,
            ReportOutcome, CheckForUpdate, disk
    <2>3. CASE \/ Start(p) \/ ResumeLock(p) \/ ResumeDeferred(p) \/ CheckProbation(p)
               \/ RevertLock(p) \/ RevertHook(p) \/ RevertInstall(p) \/ RevertRemove(p)
               \/ UpdateSelf(p) \/ RunApplication(p)
        BY <2>3
        DEF Start, ResumeLock, ResumeDeferred, CheckProbation, RevertLock, RevertHook,
            RevertInstall, RevertRemove, UpdateSelf, RunApplication, disk
    <2> QED BY <1>1, <2>1, <2>2, <2>3 DEF Inward
<1>2. ASSUME MovesLauncher(p)
      PROVE  UNCHANGED <<journal, current, probation>>
    BY <1>2
    DEF MovesLauncher, CleanOrphans, SettleCommitted, StageFiles, PromoteAfterCommit,
        SweepStaging, DropStaged
<1>3. ASSUME WritesJournal(p)
      PROVE  UNCHANGED <<current, probation, pending, launcherNext>>
    BY <1>3
    DEF WritesJournal, RollbackRecord, RecordSwapped, RecordCommitted, RecordMigrated, Begin,
        RecordStaged, RecordDeferred, AppendStep, UnchangedButJournal
<1>4. ASSUME MovesPointer(p)
      PROVE  UNCHANGED <<journal, probation, pending, launcherNext>>
    BY <1>4 DEF MovesPointer, RestorePointer, Swap, RevertSwap
<1>5. ASSUME WritesRecord(p)
      PROVE  UNCHANGED <<journal, current, pending, launcherNext>>
    BY <1>5 DEF WritesRecord, ArmProbation, CountStart, RevertRecord, RevertDone
<1> QED BY <1>1, <1>2, <1>3, <1>4, <1>5

-----------------------------------------------------------------------------
(* The launcher. *)

StagesOnce ==
    /\ launcherNext' # launcherNext /\ launcherNext' # NoVersion =>
         /\ journal = [journal EXCEPT !.state = "COMMITTED", !.to = launcherNext']
         /\ current = launcherNext'
    /\ (/\ journal.state = "COMMITTED" /\ current = journal.to
        /\ journal.to \in pending /\ journal.to \notin pending')
         => launcherNext' = journal.to

(* The steps that move a launcher know the committed update it came with. *)
LEMMA LauncherMoves ==
    ASSUME NEW p \in Procs, IndInv, ProcDetail(p), MovesLauncher(p)
    PROVE  StagesOnce
<1>0. journal \in Record /\ ProcInv(p) /\ ctx[p] \in Contexts
    BY DEF IndInv, TypeOK
<1>1. CASE CleanOrphans(p) \/ SweepStaging(p)
    <2>1. /\ UNCHANGED launcherNext
          /\ pc[p] \in {"clean", "sweep"}
        BY <1>1 DEF CleanOrphans, SweepStaging
    <2> QED BY <2>1 DEF ProcDetail, KnowsPending, StagesOnce
<1>2. CASE DropStaged(p)
    BY <1>2 DEF DropStaged, StagesOnce
<1>3. CASE StageFiles(p)
    <2>1. pc[p] = "stage" /\ UNCHANGED launcherNext
        BY <1>3 DEF StageFiles
    <2>2. journal.state = "BEGIN"
        BY <1>0, <2>1 DEF ProcInv, KnowsJournal, StatesAt, RevertPcs
    <2> QED BY <2>1, <2>2 DEF StagesOnce
<1>4. CASE SettleCommitted(p) \/ PromoteAfterCommit(p)
    <2>1. /\ pc[p] \in {"settle", "promote"}
          /\ \/ UNCHANGED <<launcherNext, pending>>
             \/ /\ pc[p] = "settle" => current = rec[p].to
                /\ PromoteLauncher(rec[p].to)
        BY <1>4 DEF SettleCommitted, PromoteAfterCommit
    <2>2. rec[p] = journal /\ journal.state = "COMMITTED"
        BY <1>0, <2>1 DEF ProcInv, KnowsJournal, StatesAt, SyncedPcs, RecoveryPcs, RevertPcs
    <2>3. pc[p] = "promote" => current = journal.to
        BY DEF ProcDetail, KnowsInstall
    <2>4. \/ UNCHANGED <<launcherNext, pending>>
          \/ /\ current = journal.to /\ launcherNext' = journal.to
             /\ pending' = pending \ {journal.to}
        BY <2>1, <2>2, <2>3 DEF PromoteLauncher
    <2>5. journal = [journal EXCEPT !.state = "COMMITTED", !.to = journal.to]
        BY <1>0, <2>2 DEF Record
    <2> QED BY <2>2, <2>4, <2>5 DEF StagesOnce
<1> QED BY <1>1, <1>2, <1>3, <1>4 DEF MovesLauncher

(* A launcher is staged for the next start only from the committed, live
   release that shipped it, and no sweep of the staging tree loses it
   (settleCommitted before cleanOrphans, apply's promotion before its sweep). *)
THEOREM LauncherIsStaged ==
    ASSUME Exclusive, Uniform
    PROVE  Spec => LauncherStaged
<1>1. IndInv /\ DetailInv /\ [Next]_vars => [StagesOnce]_vars
    <2> SUFFICES ASSUME IndInv, DetailInv, [Next]_vars, ~UNCHANGED vars
                 PROVE  StagesOnce
        OBVIOUS
    <2>1. ASSUME NEW p \in Procs, MovesLauncher(p)
          PROVE  StagesOnce
        BY <2>1, LauncherMoves DEF DetailInv
    <2>2. ASSUME NEW p \in Procs,
                 Inward(p) \/ WritesJournal(p) \/ MovesPointer(p) \/ WritesRecord(p)
          PROVE  StagesOnce
        BY <2>2, Frames DEF StagesOnce
    <2>3. CASE Application
        BY <2>3 DEF Application, MarkHealthy, MarkUnhealthy, Relaunch, AppExit, disk, StagesOnce
    <2> QED BY <2>1, <2>2, <2>3, Kinds
<1> QED BY <1>1, DetailHolds, PTL DEF Spec, LauncherStaged, StagesOnce

-----------------------------------------------------------------------------
(* The confirmation. *)

KeepsConfirmed ==
    probation.status = "confirmed" /\ probation' # probation =>
        probation'.version # probation.version

(* With one instance of the application and no forced update, whoever writes
   the record either read it while nobody could confirm it, or arms another
   version. *)
LEMMA RecordWrites ==
    ASSUME NEW p \in Procs, OneInstance, OnBusy # "force", IndInv, RootDetail, ProcDetail(p),
           WritesRecord(p)
    PROVE  KeepsConfirmed
<1>0. ProcInv(p) /\ probation \in Probation
    BY DEF IndInv, TypeOK
<1>1. CASE ArmProbation(p)
    <2> DEFINE armed == [NoProbation EXCEPT !.status = "probation", !.version = rel[p].to,
                                     !.previous = FallbackOf(rel[p].to, rel[p].from),
                                     !.blocked = probation.blocked]
    <2>1. armed.version = rel[p].to
        BY DEF NoProbation
    <2>2. pc[p] = "arm" /\ probation' \in {probation, armed}
        BY <1>1 DEF ArmProbation
    <2> HIDE DEF armed
    <2>3. current = rel[p].from /\ rel[p].to # rel[p].from
        BY <1>0, <2>2 DEF ProcInv, KnowsRelease
    <2> QED BY <2>1, <2>2, <2>3 DEF RootDetail, LockOK, KeepsConfirmed
<1>2. CASE CountStart(p)
    <2>1. pc[p] = "count"
        BY <1>2 DEF CountStart
    <2> QED BY <2>1 DEF ProcDetail, KnowsRecord, KeepsConfirmed
<1>3. CASE RevertRecord(p)
    <2>1. pc[p] = "fallback"
        BY <1>3 DEF RevertRecord
    <2> QED BY <2>1 DEF ProcDetail, KnowsRecord, KeepsConfirmed
<1>4. CASE RevertDone(p)
    <2>1. pc[p] = "rvdone"
        BY <1>4 DEF RevertDone
    <2>2. probation.status = "reverting"
        BY <1>0, <2>1 DEF ProcInv, KnowsProbation
    <2> QED BY <2>2 DEF KeepsConfirmed
<1> QED BY <1>1, <1>2, <1>3, <1>4 DEF WritesRecord

(* A version that confirmed itself is neither put back on probation nor rolled
   back by it, while one instance of the application runs at a time and no
   update is forced under a running one. *)
THEOREM ConfirmationIsFinal ==
    ASSUME Exclusive, Uniform, OneInstance, OnBusy # "force"
    PROVE  Spec => ConfirmedStays
<1>1. IndInv /\ DetailInv /\ [Next]_vars => [KeepsConfirmed]_vars
    <2> SUFFICES ASSUME IndInv, DetailInv, [Next]_vars, ~UNCHANGED vars
                 PROVE  KeepsConfirmed
        OBVIOUS
    <2>1. ASSUME NEW p \in Procs, WritesRecord(p)
          PROVE  KeepsConfirmed
        BY <2>1, RecordWrites DEF DetailInv, RootDetail
    <2>2. ASSUME NEW p \in Procs,
                 Inward(p) \/ WritesJournal(p) \/ MovesPointer(p) \/ MovesLauncher(p)
          PROVE  KeepsConfirmed
        BY <2>2, Frames DEF KeepsConfirmed
    <2>3. CASE Application
        <3>1. probation.status = "probation" \/ probation' = probation
            BY <2>3
            DEF Application, MarkHealthy, MarkUnhealthy, Relaunch, AppExit, OnProbation, disk
        <3> QED BY <3>1 DEF KeepsConfirmed
    <2> QED BY <2>1, <2>2, <2>3, Kinds
<1> QED BY <1>1, DetailHolds, PTL DEF Spec, ConfirmedStays, KeepsConfirmed

-----------------------------------------------------------------------------
(* The refinement of AtomicUpdate. *)

AtomicStep == Atomic!Next \/ UNCHANGED <<current, Goal, PhaseOf(journal), Fallback>>

(* A record of the journal begins, commits or abandons the update, or only says
   how far it got. *)
LEMMA JournalIsAtomic ==
    ASSUME NEW p \in Procs, IndInv, RootDetail, ProcDetail(p), WritesJournal(p)
    PROVE  AtomicStep
<1>0. /\ journal \in Record /\ ProcInv(p) /\ ctx[p] \in Contexts
      /\ UNCHANGED <<current, probation>>
    BY Frames DEF IndInv, TypeOK
<1>1. Fallback' = Fallback
    BY <1>0 DEF Fallback, ProbationPins
<1>2. ASSUME NEW at \in {"staged", "migrated", "swapped", "commit", "rbrecord"}, NEW s, NEW next,
             AppendStep(p, at, s, next)
      PROVE  /\ pc[p] = at /\ Goal' = Goal
             /\ journal' = journal \/ journal'.state = s
    <2>1. Advanced(p, at, s, next)
        BY <1>2, AppendedStill DEF SyncedPcs, RecoveryPcs
    <2> QED BY <2>1 DEF Advanced, Goal
<1>3. ASSUME pc[p] \in {"staged", "migrated", "swapped", "commit", "rbrecord", "defer"}
      PROVE  InFlight(journal)
    BY <1>0, <1>3
    DEF ProcInv, KnowsJournal, StatesAt, RevertPcs, InterruptedStates, InFlight, Interrupted
<1>4. ASSUME Goal' = Goal, journal' = journal \/ InFlight(journal'), InFlight(journal)
      PROVE  AtomicStep
    <2>1. PhaseOf(journal)' = PhaseOf(journal)
        BY <1>4 DEF PhaseOf, InFlight, Interrupted
    <2> QED BY <1>0, <1>1, <1>4, <2>1 DEF AtomicStep
<1>5. CASE RecordStaged(p) \/ RecordMigrated(p) \/ RecordSwapped(p)
    <2>1. /\ pc[p] \in {"staged", "migrated", "swapped"} /\ Goal' = Goal
          /\ journal' = journal \/ journal'.state \in {"STAGED", "MIGRATED", "SWAPPED"}
        BY <1>2, <1>5 DEF RecordStaged, RecordMigrated, RecordSwapped
    <2> QED BY <1>3, <1>4, <2>1 DEF InFlight, Interrupted
<1>6. CASE RecordDeferred(p)
    <2> DEFINE r == [journal EXCEPT !.state = "DEFERRED"]
    <2>1. pc[p] = "defer"
        BY <1>6 DEF RecordDeferred
    <2>2. rec[p] = journal
        BY <1>0, <2>1 DEF ProcInv, KnowsJournal, SyncedPcs
    <2>3. journal' \in {journal, r}
        BY <1>6, <2>2 DEF RecordDeferred, Stepped
    <2>4. r.state = "DEFERRED" /\ r.from = journal.from /\ r.to = journal.to
        BY <1>0 DEF Record
    <2> HIDE DEF r
    <2> QED BY <1>3, <1>4, <2>1, <2>3, <2>4 DEF InFlight, Goal
<1>7. CASE RecordCommitted(p)
    <2>1. /\ pc[p] = "commit" /\ Goal' = Goal
          /\ journal' = journal \/ journal'.state = "COMMITTED"
        BY <1>2, <1>7 DEF RecordCommitted
    <2>2. InFlight(journal) /\ current = journal.to
        BY <1>3, <2>1 DEF ProcDetail, KnowsInstall
    <2>3. CASE journal' = journal
        BY <1>4, <2>1, <2>2, <2>3
    <2>4. CASE journal'.state = "COMMITTED"
        <3>1. PhaseOf(journal) = "pending" /\ PhaseOf(journal)' = "committed"
            BY <2>2, <2>4 DEF PhaseOf, InFlight, Interrupted
        <3>2. Atomic!Commit
            BY <1>0, <1>1, <2>1, <2>2, <3>1 DEF Atomic!Commit, Atomic!Pending, Goal
        <3> QED BY <3>2 DEF AtomicStep, Atomic!Next
    <2> QED BY <2>1, <2>3, <2>4
<1>8. CASE RollbackRecord(p)
    <2>1. /\ pc[p] = "rbrecord" /\ Goal' = Goal
          /\ journal' = journal \/ journal'.state = "ROLLED_BACK"
        BY <1>2, <1>8 DEF RollbackRecord
    <2>2. InFlight(journal) /\ current = journal.from
        BY <1>0, <1>3, <2>1 DEF ProcInv, KnowsTree
    <2>3. CASE journal' = journal
        BY <1>4, <2>1, <2>2, <2>3
    <2>4. CASE journal'.state = "ROLLED_BACK"
        <3>1. PhaseOf(journal) = "pending" /\ PhaseOf(journal)' = "abandoned"
            BY <2>2, <2>4 DEF PhaseOf, InFlight, Interrupted
        <3>2. Atomic!Abandon
            BY <1>0, <1>1, <2>1, <2>2, <3>1 DEF Atomic!Abandon, Atomic!Pending, Goal
        <3> QED BY <3>2 DEF AtomicStep, Atomic!Next
    <2> QED BY <2>1, <2>3, <2>4
<1>9. CASE Begin(p)
    <2> DEFINE r == [state |-> "BEGIN", from |-> rel[p].from, to |-> rel[p].to]
    <2>1. pc[p] = "begin" /\ journal' \in {journal, r}
        BY <1>9 DEF Begin, JournalAppend
    <2>2. /\ current = rel[p].from /\ rel[p].to # rel[p].from
          /\ journal.state \in SettledStates \cup {"DEFERRED"}
        BY <1>0, <2>1 DEF ProcInv, KnowsRelease, KnowsJournal, StatesAt, RevertPcs
    <2>3. rel[p].to \in Versions
        <3>1. ctx[p] = "apply"
            BY <1>0, <2>1
            DEF ProcInv, InContext, PcsOf, RecoveryPcs, RevertPcs, Resting, Contexts
        <3> QED BY <1>0, <3>1 DEF ProcInv, KnowsRelease
    <2>4. CASE journal' = journal
        BY <1>0, <1>1, <2>4 DEF AtomicStep, Goal, PhaseOf
    <2>5. CASE journal' = r
        <3>1. PhaseOf(journal)' = "pending" /\ Goal' = [from |-> current, to |-> rel[p].to]
            BY <2>2, <2>5 DEF PhaseOf, InFlight, Interrupted, Goal
        <3>2. PhaseOf(journal) = "pending" => current = journal.from
            <4>1. PhaseOf(journal) = "pending" => InFlight(journal)
                BY DEF PhaseOf
            <4> QED BY <2>2, <4>1
                    DEF IndInv, RootInv, InFlightOK, InFlight, Interrupted, SettledStates
        <3>3. Atomic!Begin(rel[p].to)
            BY <1>0, <1>1, <2>2, <3>1, <3>2 DEF Atomic!Begin, Atomic!Pending, Goal
        <3> QED BY <2>3, <3>3 DEF AtomicStep, Atomic!Next
    <2> QED BY <2>1, <2>4, <2>5
<1> QED BY <1>5, <1>6, <1>7, <1>8, <1>9 DEF WritesJournal

(* The pointer moves to the target of the pending update, back to where it came
   from, or outside an update to the fallback. *)
LEMMA PointerIsAtomic ==
    ASSUME NEW p \in Procs, IndInv, RootDetail, ProcDetail(p), MovesPointer(p)
    PROVE  AtomicStep
<1>0. /\ journal \in Record /\ ProcInv(p) /\ UNCHANGED <<journal, probation>>
    BY Frames DEF IndInv, TypeOK
<1>1. UNCHANGED <<Goal, PhaseOf(journal), Fallback>>
    BY <1>0 DEF Goal, PhaseOf, Fallback, ProbationPins
<1>2. CASE current' = current
    BY <1>1, <1>2 DEF AtomicStep
<1>3. CASE RestorePointer(p) \/ Swap(p)
    <2>1. /\ pc[p] \in {"restore", "swap"}
          /\ current' \in {current, IF pc[p] = "restore" THEN rec[p].from ELSE rec[p].to}
        BY <1>3 DEF RestorePointer, Swap
    <2>2. Interrupted(journal) /\ rec[p] = journal
        BY <1>0, <2>1
        DEF ProcInv, KnowsJournal, StatesAt, RevertPcs, RecoveryPcs, SyncedPcs,
            InterruptedStates, Interrupted
    <2>3. PhaseOf(journal) = "pending" /\ current \in {journal.from, journal.to}
        BY <2>2 DEF PhaseOf, InFlight, Interrupted, RootDetail, InstallOK
    <2>4. CASE current' # current /\ pc[p] = "restore"
        <3>1. Atomic!Undo
            BY <1>1, <2>1, <2>2, <2>3, <2>4 DEF Atomic!Undo, Atomic!Pending, Goal
        <3> QED BY <3>1 DEF AtomicStep, Atomic!Next
    <2>5. CASE current' # current /\ pc[p] = "swap"
        <3>1. Atomic!Switch
            BY <1>1, <2>1, <2>2, <2>3, <2>5 DEF Atomic!Switch, Atomic!Pending, Goal
        <3> QED BY <3>1 DEF AtomicStep, Atomic!Next
    <2> QED BY <1>2, <2>1, <2>4, <2>5
<1>4. CASE RevertSwap(p)
    <2>1. pc[p] = "rvswap" /\ current' \in {current, loc[p].previous}
        BY <1>4 DEF RevertSwap
    <2>2. /\ probation = loc[p] /\ probation.status = "reverting"
          /\ probation.previous \in Versions /\ journal.state \in SettledStates
        BY <1>0, <2>1
        DEF ProcInv, KnowsProbation, KnowsJournal, StatesAt, RevertPcs
    <2>3. Fallback = loc[p].previous /\ Fallback # NoVersion
        BY <2>2 DEF Fallback, ProbationPins, Versions, NoVersion
    <2>4. PhaseOf(journal) # "pending"
        BY <2>2 DEF PhaseOf, InFlight, Interrupted, SettledStates
    <2>5. current' = loc[p].previous => Atomic!Revert
        BY <1>1, <2>3, <2>4 DEF Atomic!Revert, Atomic!Pending
    <2> QED BY <1>2, <2>1, <2>5 DEF AtomicStep, Atomic!Next
<1> QED BY <1>3, <1>4 DEF MovesPointer

(* A new fallback is the live version or the fallback the root had. *)
LEMMA RecordIsAtomic ==
    ASSUME NEW p \in Procs, OneInstance, IndInv, RootDetail, ProcDetail(p), WritesRecord(p)
    PROVE  AtomicStep
<1>0. /\ ProcInv(p) /\ probation \in Probation /\ loc[p] \in Probation
      /\ UNCHANGED <<journal, current>>
    BY Frames DEF IndInv, TypeOK
<1>1. UNCHANGED <<current, Goal, PhaseOf(journal)>>
    BY <1>0 DEF Goal, PhaseOf
<1>2. ASSUME Fallback' \in {current, Fallback, NoVersion}
      PROVE  AtomicStep
    BY <1>1, <1>2 DEF AtomicStep, Atomic!Next, Atomic!Arm
<1>3. CASE ArmProbation(p)
    <2> DEFINE armed == [NoProbation EXCEPT !.status = "probation", !.version = rel[p].to,
                                     !.previous = FallbackOf(rel[p].to, rel[p].from),
                                     !.blocked = probation.blocked]
    <2>1. /\ armed.status = "probation"
          /\ armed.previous = FallbackOf(rel[p].to, rel[p].from)
        BY DEF NoProbation
    <2>2. pc[p] = "arm" /\ probation' \in {probation, armed}
        BY <1>3 DEF ArmProbation
    <2> HIDE DEF armed
    <2>3. current = rel[p].from
        BY <1>0, <2>2 DEF ProcInv, KnowsRelease
    <2>4. FallbackOf(rel[p].to, rel[p].from) \in {current, Fallback}
        BY <2>3 DEF FallbackOf, Fallback, ProbationPins
    <2>5. probation' = armed => Fallback' = FallbackOf(rel[p].to, rel[p].from)
        BY <2>1 DEF Fallback, ProbationPins
    <2>6. probation' = probation => Fallback' = Fallback
        BY DEF Fallback, ProbationPins
    <2> QED BY <1>2, <2>2, <2>4, <2>5, <2>6
<1>4. CASE CountStart(p)
    <2>1. pc[p] = "count" /\ probation' = loc[p]
        BY <1>4 DEF CountStart, WriteProbation
    <2>2. /\ loc[p].status = "probation" /\ probation.status = "probation"
          /\ loc[p].previous = probation.previous
        BY <1>0, <2>1 DEF ProcInv, KnowsProbation, ProcDetail, KnowsRecord
    <2>3. Fallback' = Fallback
        BY <2>1, <2>2 DEF Fallback, ProbationPins
    <2> QED BY <1>2, <2>3
<1>5. CASE RevertRecord(p)
    <2> DEFINE decided(s) == [loc[p] EXCEPT !.status = s]
    <2>1. /\ pc[p] = "fallback"
          /\ probation' \in {probation, decided("reverting"), decided("kept")}
        BY <1>5 DEF RevertRecord, WriteProbation
    <2>2. \A s \in {"reverting", "kept"} :
             decided(s).status = s /\ decided(s).previous = loc[p].previous
        BY <1>0 DEF Probation
    <2> HIDE DEF decided
    <2>3. loc[p] = probation /\ probation.status \in {"probation", "unhealthy", "reverting"}
        BY <2>1 DEF ProcDetail, KnowsRecord
    <2>4. Fallback' \in {Fallback, NoVersion}
        BY <2>1, <2>2, <2>3 DEF Fallback, ProbationPins
    <2> QED BY <1>2, <2>4
<1>6. CASE RevertDone(p)
    <2> DEFINE done == [loc[p] EXCEPT !.status = "reverted", !.restartPending = FALSE,
                                      !.blocked = loc[p].version]
    <2>1. done.status = "reverted"
        BY <1>0 DEF Probation
    <2>2. probation' = done
        BY <1>6 DEF RevertDone, WriteProbation
    <2> HIDE DEF done
    <2>3. Fallback' = NoVersion
        BY <2>1, <2>2 DEF Fallback, ProbationPins
    <2> QED BY <1>2, <2>3
<1> QED BY <1>3, <1>4, <1>5, <1>6 DEF WritesRecord

(* The application keeps the fallback or gives it up. *)
LEMMA ApplicationIsAtomic ==
    ASSUME IndInv, Application
    PROVE  AtomicStep
<1>1. probation \in Probation /\ UNCHANGED <<journal, current>>
    BY DEF Application, MarkHealthy, MarkUnhealthy, Relaunch, AppExit, disk, IndInv, TypeOK
<1>2. \/ probation' = probation
      \/ /\ probation.status = "probation" /\ probation'.previous = probation.previous
         /\ probation'.status \in {"probation", "unhealthy", "confirmed"}
    <2>1. CASE MarkHealthy
        BY <1>1, <2>1 DEF MarkHealthy, OnProbation, Probation
    <2>2. CASE MarkUnhealthy
        BY <1>1, <2>2 DEF MarkUnhealthy, OnProbation, Probation
    <2>3. CASE Relaunch
        BY <1>1, <2>3 DEF Relaunch, Probation
    <2>4. CASE AppExit
        BY <2>4 DEF AppExit, disk
    <2> QED BY <2>1, <2>2, <2>3, <2>4 DEF Application
<1>3. Fallback' \in {Fallback, NoVersion}
    BY <1>2 DEF Fallback, ProbationPins
<1>4. UNCHANGED <<current, Goal, PhaseOf(journal)>>
    BY <1>1 DEF Goal, PhaseOf
<1> QED BY <1>3, <1>4 DEF AtomicStep, Atomic!Next, Atomic!Arm

(* The pointer, the journal and the probation record implement the atomic
   update of AtomicUpdate, while one process at a time works on the root and
   nobody starts the launcher under a running application: an update ends where
   it wanted to go or where it came from, and outside an update the root only
   ever goes back to its fallback. *)
THEOREM ImplementsAtomicUpdate ==
    ASSUME Exclusive, Uniform, OneInstance
    PROVE  Spec => UpdatesAtomically
<1>1. Init => Atomic!Init
    BY DEF Init, Atomic!Init, Goal, PhaseOf, Fallback, ProbationPins, NoRecord, NoProbation,
           InFlight, Interrupted
<1>2. IndInv /\ DetailInv /\ [Next]_vars =>
        [Atomic!Next]_<<current, Goal, PhaseOf(journal), Fallback>>
    <2> SUFFICES ASSUME IndInv, DetailInv, [Next]_vars
                 PROVE  AtomicStep
        BY DEF AtomicStep
    <2>1. ASSUME UNCHANGED <<journal, current, probation>>
          PROVE  AtomicStep
        BY <2>1 DEF AtomicStep, Goal, PhaseOf, Fallback, ProbationPins
    <2>2. ASSUME NEW p \in Procs, Inward(p) \/ MovesLauncher(p)
          PROVE  AtomicStep
        BY <2>1, <2>2, Frames
    <2>3. ASSUME NEW p \in Procs, WritesJournal(p) \/ MovesPointer(p) \/ WritesRecord(p)
          PROVE  AtomicStep
        BY <2>3, JournalIsAtomic, PointerIsAtomic, RecordIsAtomic DEF DetailInv, RootDetail
    <2>4. CASE Application
        BY <2>4, ApplicationIsAtomic
    <2>5. CASE UNCHANGED vars
        BY <2>1, <2>5 DEF vars, disk
    <2> QED BY <2>2, <2>3, <2>4, <2>5, Kinds
<1> QED BY <1>1, <1>2, DetailHolds, PTL DEF Spec, UpdatesAtomically, Atomic!Spec

=============================================================================
