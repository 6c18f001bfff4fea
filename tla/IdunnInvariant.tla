--------------------------- MODULE IdunnInvariant ---------------------------
(***************************************************************************)
(* Why the live tree stays whole: what each step of a call knows about the *)
(* journal, the pointer, the version directories and the probation record. *)
(* The conjunction is inductive when one process at a time works on the    *)
(* root and the publisher puts either every release on probation or none.  *)
(***************************************************************************)
EXTENDS Idunn

Uniform == \A v, w \in Versions : Attempts[v] = 0 <=> Attempts[w] = 0

\* The steps of each call.
RecoveryPcs == {"ambiguous", "restore", "rbhook", "rmtree", "rbrecord", "clean",
                "complete", "swapped", "install", "commit", "settle"}
RevertPcs == {"count", "revert", "fallback", "rvswap", "rvhook", "rvinstall",
              "rvdone", "rvremove"}

PcsOf(c) ==
    CASE c = "none" -> Resting
      [] c = "plan" -> {"recover", "recheck"} \cup RecoveryPcs
      [] c = "apply" -> {"recover", "preflight", "arm", "begin", "aborted",
                         "deferred"} \cup RecoveryPcs
      [] c = "txn" -> {"stage", "place", "staged", "quiesce", "defer", "deferred",
                       "migrate", "migrated", "swap", "swapped", "verify", "install",
                       "commit", "promote", "sweep", "gc", "committed", "undo"}
      [] c = "undo" -> {"restore", "rbhook", "rmtree", "rbrecord", "clean", "settle",
                        "aborted", "rolledback"}
      [] c = "start" -> {"recover", "resumelock", "probation", "run"} \cup RecoveryPcs
      [] c = "resume" -> {"resume", "migrate", "migrated", "swap", "swapped", "complete",
                          "install", "commit", "settle", "clean", "gc", "probation", "run"}
      [] c = "skip" -> {"probation", "run"} \cup RevertPcs
      [] OTHER -> {"self", "selfdrop", "run"} \cup RevertPcs

\* The journal states a step may find; the steps that are not listed find any.
InterruptedStates == {"BEGIN", "STAGED", "MIGRATED", "SWAPPED"}
SettledStates == {"NONE", "COMMITTED", "ROLLED_BACK"}

StatesAt(c, s) ==
    CASE s \in {"stage", "place", "staged"} -> {"BEGIN"}
      [] s \in {"quiesce", "defer"} -> {"STAGED"}
      [] s \in {"migrate", "migrated"} -> IF c = "txn" THEN {"STAGED"} ELSE {"DEFERRED"}
      [] s \in {"swap", "swapped", "ambiguous"} -> {"MIGRATED"}
      [] s = "complete" -> {"MIGRATED", "SWAPPED"}
      [] s \in {"verify", "install", "commit"} -> {"SWAPPED"}
      [] s \in {"settle", "promote", "sweep", "gc", "committed"} -> {"COMMITTED"}
      [] s = "undo" -> InterruptedStates \cup {"COMMITTED"}
      [] s \in {"restore", "rbhook", "rmtree", "rbrecord"} -> InterruptedStates
      [] s \in {"resumelock", "resume"} -> {"DEFERRED"}
      [] s \in {"preflight", "arm", "begin", "probation"} -> SettledStates \cup {"DEFERRED"}
      [] s = "clean" -> IF c = "resume" THEN {"COMMITTED"} ELSE SettledStates
      [] s \in RevertPcs -> SettledStates
      [] OTHER -> JournalStates \cup {"NONE"}

\* The steps at which a process's history is the journal on disk.
SyncedPcs == RecoveryPcs \cup
    {"preflight", "begin", "resumelock", "stage", "place", "staged",
     "quiesce", "defer", "migrate", "migrated", "swap", "verify", "promote", "sweep"}

\* The steps that rely on the staged tree.
TargetPcs == {"staged", "quiesce", "defer", "migrate", "migrated", "swap"}

-----------------------------------------------------------------------------
(* What a process knows. *)

InContext(p) == pc[p] \in PcsOf(ctx[p])

KnowsJournal(p) ==
    /\ journal.state \in StatesAt(ctx[p], pc[p])
    /\ pc[p] \in SyncedPcs => rec[p] = journal

KnowsRelease(p) ==
    /\ pc[p] = "checked" \/ ctx[p] \in {"plan", "apply", "txn", "undo"} => rel[p].to \in Versions
    /\ pc[p] \in {"arm", "begin"} => current = rel[p].from /\ rel[p].to # rel[p].from
    /\ pc[p] = "begin" /\ probation.status # "none" =>
         /\ probation.status \in {"probation", "unhealthy", "confirmed"}
         /\ probation.version # current
         /\ probation.previous # rel[p].to

KnowsTree(p) ==
    /\ pc[p] \in {"rbhook", "rmtree", "rbrecord"} => current = journal.from
    /\ pc[p] \in TargetPcs => dirs[journal.to] = "whole"

KnowsProbation(p) ==
    /\ pc[p] \in RevertPcs =>
         /\ probation.status # "none" /\ loc[p].status # "none"
         /\ loc[p].version # loc[p].previous
    /\ pc[p] \in RevertPcs \ {"rvremove"} =>
         loc[p].previous \in Versions /\ dirs[loc[p].previous] = "whole"
    /\ pc[p] = "count" => loc[p].status = "probation"
    /\ pc[p] \in {"revert", "fallback"} /\ loc[p].status = "reverting" => probation = loc[p]
    /\ pc[p] \in {"rvswap", "rvhook", "rvinstall", "rvdone"} =>
         probation = loc[p] /\ loc[p].status = "reverting"
    /\ pc[p] \in {"rvhook", "rvinstall", "rvdone", "rvremove"} => current = loc[p].previous
    /\ pc[p] = "rvremove" => probation.status = "reverted"

ProcInv(p) ==
    /\ InContext(p) /\ KnowsJournal(p) /\ KnowsRelease(p)
    /\ KnowsTree(p) /\ KnowsProbation(p)

-----------------------------------------------------------------------------
(* What holds of the root at every moment. *)

OneActive == \A p, q \in Procs : Active(p) /\ Active(q) => p = q

InFlightOK ==
    InFlight(journal) =>
        /\ journal.to \in Versions /\ journal.from # journal.to
        /\ journal.state \in {"BEGIN", "STAGED", "DEFERRED"} => current = journal.from

ProbationOK ==
    /\ probation.status # "none" =>
         /\ current # NoVersion
         /\ \A v \in Versions : Attempts[v] # 0
         /\ probation.version # probation.previous
    /\ ProbationPins # {} =>
         probation.previous \in Versions /\ dirs[probation.previous] = "whole"
    /\ InFlight(journal) /\ probation.status # "none" =>
         /\ journal.from # NoVersion
         /\ probation.status \in {"probation", "unhealthy", "confirmed"}
         /\ probation.version # journal.from
         /\ probation.previous # journal.to
    /\ probation.status = "reverted" => current # probation.version

RootInv ==
    /\ CurrentWhole /\ FallbackWhole /\ DeferredWhole
    /\ OneActive /\ InFlightOK /\ ProbationOK

(* The inductive invariant behind CurrentWhole, FallbackWhole and DeferredWhole. *)
IndInv == TypeOK /\ RootInv /\ \A p \in Procs : ProcInv(p)

-----------------------------------------------------------------------------
(* Beyond the trees: the install state, the launcher that waits, the host's *)
(* data, the record a start works from, and the application lock.  DetailInv*)
(* is inductive relative to IndInv.                                         *)

LauncherContexts == {"start", "resume", "locked", "finish", "skip"}

\* The steps of a transaction that do not rely on the application lock.
UnlockedPcs == {"stage", "place", "staged", "quiesce", "defer", "deferred", "undo"}

KnowsInstall(p) ==
    /\ pc[p] \in {"swapped", "verify", "install", "commit", "promote"} => current = journal.to
    /\ pc[p] = "commit" => install = journal.to
    /\ pc[p] = "rvdone" => install = current
    /\ pc[p] = "count" => probation.status # "reverting"
    /\ pc[p] \in {"revert", "fallback"} /\ loc[p].status # "reverting" =>
         probation.status # "reverting"

KnowsPending(p) ==
    /\ pc[p] = "sweep" => journal.to \notin pending
    /\ pc[p] = "clean" /\ journal.state = "COMMITTED" /\ current = journal.to =>
         journal.to \notin pending

\* A deferred update can be superseded after its migration has begun, so what
\* holds of the host's data holds where updates are not deferred.
KnowsHost(p) ==
    OnBusy # "defer" =>
        /\ pc[p] # "defer"
        /\ pc[p] \in {"migrated", "swap"} => host = journal.to
        /\ pc[p] \in {"rmtree", "rbrecord"} => host = journal.from
        /\ pc[p] \in {"rvinstall", "rvdone"} => host = current

\* Nobody changes the probation record between a start's read and its write.
KnowsRecord(p) ==
    OneInstance =>
        /\ ctx[p] \in LauncherContexts => app = NoVersion
        /\ pc[p] \in {"revert", "fallback"} =>
             /\ loc[p] = probation
             /\ probation.status \in {"probation", "unhealthy", "reverting"}
        /\ pc[p] = "count" =>
             probation.status = "probation" /\ loc[p].previous = probation.previous

\* Unless an update is forced, the pointer moves under the application lock.
KnowsLock(p) ==
    OnBusy # "force" =>
        /\ ctx[p] = "txn" /\ pc[p] \notin UnlockedPcs => lock = p
        /\ ctx[p] \in {"txn", "undo"} /\ journal.state \in {"MIGRATED", "SWAPPED"} => lock = p
        /\ ctx[p] \in {"resume", "locked"} => lock = p
        /\ pc[p] \in {"fallback", "rvswap"} => lock = p
        /\ pc[p] = "restore" /\ ctx[p] # "undo" => current = journal.from
        /\ ctx[p] \in {"txn", "undo"} /\ Interrupted(journal) => probation.status # "confirmed"

ProcDetail(p) ==
    /\ KnowsInstall(p) /\ KnowsPending(p) /\ KnowsHost(p)
    /\ KnowsRecord(p) /\ KnowsLock(p)

InstallOK ==
    /\ journal.state = "COMMITTED" /\ probation.status # "reverting" => install = current
    /\ Interrupted(journal) => current \in {journal.from, journal.to}

HostOK ==
    OnBusy # "defer" =>
        /\ journal.state # "DEFERRED"
        /\ journal.state \in SettledStates \cup {"BEGIN", "UNINSTALLING"}
             /\ probation.status # "reverting" => host = current
        /\ journal.state \in {"MIGRATED", "SWAPPED"} /\ current = journal.to => host = current

LockOK ==
    OnBusy # "force" =>
        /\ app # NoVersion => lock = App /\ app = current
        /\ probation.status = "confirmed" => probation.version = current

DetailInv == InstallOK /\ HostOK /\ LockOK /\ \A p \in Procs : ProcDetail(p)

=============================================================================
