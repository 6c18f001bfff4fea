-------------------------------- MODULE Idunn --------------------------------
(***************************************************************************)
(* One install root with everything that works on it: updaters, launchers  *)
(* and the running application.                                            *)
(***************************************************************************)
EXTENDS Updater, Launcher

Init ==
    /\ journal = NoRecord /\ current = NoVersion /\ install = NoVersion
    /\ dirs = [v \in Versions |-> "absent"]
    /\ pending = {} /\ launcherNext = NoVersion /\ launcher = NoVersion
    /\ probation = NoProbation
    /\ host = NoVersion /\ lock = Free /\ app = NoVersion
    /\ pc = [p \in Procs |-> "idle"]
    /\ ctx = [p \in Procs |-> "none"]
    /\ rec = [p \in Procs |-> NoRecord]
    /\ rel = [p \in Procs |-> NoRelease]
    /\ loc = [p \in Procs |-> NoProbation]
    /\ faults = 0

ProcStep(p) == TransactionStep(p) \/ UpdaterStep(p) \/ LauncherStep(p)

Application == MarkHealthy \/ MarkUnhealthy \/ Relaunch \/ AppExit

Next ==
    \/ \E p \in Procs : ProcStep(p) \/ Fail(p) \/ Crash(p) \/ Start(p) \/ Apply(p)
    \/ \E p \in Updaters, v \in Versions : CheckForUpdate(p, v)
    \/ Application

Spec == Init /\ [][Next]_vars

-----------------------------------------------------------------------------

TransactionPcs == {"recover", "ambiguous", "undo", "restore", "rbhook", "rmtree",
                   "rbrecord", "clean", "complete", "swapped", "install", "commit",
                   "settle", "migrate", "migrated", "swap", "gc"}
UpdaterPcs == {"recheck", "preflight", "arm", "begin", "stage", "place", "staged",
               "quiesce", "defer", "verify", "promote", "sweep"} \cup Outcomes
LauncherPcs == {"resumelock", "resume", "probation", "count", "revert", "fallback",
                "rvswap", "rvhook", "rvinstall", "rvdone", "rvremove", "self",
                "selfdrop", "run"}
Pcs == Resting \cup TransactionPcs \cup UpdaterPcs \cup LauncherPcs

(* The type invariant of the install root and its processes. *)
TypeOK ==
    /\ journal \in Record
    /\ current \in VersionOrNone /\ install \in VersionOrNone
    /\ dirs \in [Versions -> {"absent", "partial", "whole"}]
    /\ pending \subseteq Versions
    /\ launcherNext \in VersionOrNone /\ launcher \in VersionOrNone
    /\ probation \in Probation
    /\ host \in VersionOrNone \cup {Torn}
    /\ lock \in Procs \cup {Free, App}
    /\ app \in VersionOrNone
    /\ pc \in [Procs -> Pcs] /\ ctx \in [Procs -> Contexts]
    /\ rec \in [Procs -> Record] /\ rel \in [Procs -> Releases]
    /\ loc \in [Procs -> Probation]
    /\ faults \in Nat

(* `current' never names a version directory that is missing or half removed:
   whatever crashes, fails or is rolled back, there is a complete tree to run
   (stage.Swap, restorePointer, rollback, GC, revert). *)
CurrentWhole == current # NoVersion => dirs[current] = "whole"

(* The version an update under way comes from stays whole until the update is
   decided, so that a rollback has something to return to (restorePointer; GC
   and the revert run only once the journal is settled). *)
FallbackWhole == InFlight(journal) /\ journal.from # NoVersion => dirs[journal.from] = "whole"

(* A deferred update still has its staged tree at the start that resumes it,
   whatever ran in between: other updates, recoveries, GC and reverts. *)
DeferredWhole == journal.state = "DEFERRED" => dirs[journal.to] = "whole"

(* While the live version is on probation, or its rollback is recorded and not
   finished, the version it goes back to is whole (ProbationPins in Stager.GC,
   armProbation's choice of the fallback). *)
RevertTargetWhole ==
    ProbationPins # {} /\ current = probation.version =>
        dirs[probation.previous] = "whole"

AtRest == \A p \in Procs : ~Active(p)
Decided == ~InFlight(journal) /\ probation.status # "reverting"

(* When nothing is running and the last transaction committed, the install
   state names the version the pointer names, across a crash between the two
   writes, a completion by recovery and a finished revert. *)
CommittedState ==
    AtRest /\ Decided /\ journal.state = "COMMITTED" => install = current

(* Once a transaction is decided and nothing is running, the host's data fits
   the version that is live: a migration is committed only if the whole
   transaction succeeds, and undone otherwise (hook.Migrator). *)
HostFits == AtRest /\ Decided => host = current

(* Only the launcher of a committed, live version is ever staged for the next
   start, and the one such a release shipped leaves the staging tree only by being
   staged: a sweep after a crash does not lose it (layout.PromoteLauncher, apply's
   promotion, settleCommitted before cleanOrphans). *)
LauncherStaged ==
    [][/\ launcherNext' # launcherNext /\ launcherNext' # NoVersion =>
            /\ journal = [journal EXCEPT !.state = "COMMITTED", !.to = launcherNext']
            /\ current = launcherNext'
       /\ (/\ journal.state = "COMMITTED" /\ current = journal.to
           /\ journal.to \in pending /\ journal.to \notin pending')
            => launcherNext' = journal.to]_vars

(* A version that confirmed itself is never put back on probation nor rolled
   back by it: its record changes only when another version's replaces it
   (hook.go: "A version that confirmed is never rolled back"). *)
ConfirmedStays ==
    [][probation.status = "confirmed" /\ probation' # probation =>
         probation'.version # probation.version]_vars

-----------------------------------------------------------------------------
(* Atomicity, as the refinement of AtomicUpdate. *)

PhaseOf(r) ==
    CASE InFlight(r) -> "pending"
      [] r.state = "COMMITTED" -> "committed"
      [] r.state = "ROLLED_BACK" -> "abandoned"
      [] OTHER -> "none"

Goal == [from |-> journal.from, to |-> journal.to]
Fallback == IF ProbationPins # {} THEN probation.previous ELSE NoVersion

Atomic == INSTANCE AtomicUpdate WITH
    None <- NoVersion,
    live <- current,
    goal <- Goal,
    phase <- PhaseOf(journal),
    fallback <- Fallback

(* The pointer, the journal and the probation record together implement the
   atomic update: every interleaving of Apply, recovery, deferral, rollback,
   revert, crash and error is a step of AtomicUpdate or none. *)
UpdatesAtomically == Atomic!Spec

-----------------------------------------------------------------------------
(* Liveness.  A process that works goes on; the application is started again
   and again, and ends; crashes and errors are finitely many (MaxFaults). *)

Fairness ==
    /\ \A p \in Procs : WF_vars(ProcStep(p))
    /\ \A p \in Launchers : SF_vars(Start(p))
    /\ WF_vars(AppExit)

FairSpec == Spec /\ Fairness

(* A transaction that was interrupted is settled by a later start, one way or
   the other (txn.RecoverResult: "safe to call on every start"). *)
InterruptedSettles == Interrupted(journal) ~> ~Interrupted(journal)

(* A deferred update is finished, rolled back or superseded. *)
DeferredResolves == journal.state = "DEFERRED" ~> journal.state # "DEFERRED"

OnTrial == probation.status = "probation" /\ current = probation.version

(* A version on probation is confirmed, rolled back, kept or superseded: it
   cannot be restarted on probation for ever (Launcher.probation, Relaunch). *)
ProbationEnds == OnTrial ~> ~OnTrial

(* A rollback that was recorded is finished (Options.revert). *)
RevertFinishes == probation.status = "reverting" ~> probation.status # "reverting"

(* A version that reports itself unhealthy is replaced (ProbationPolicy: "or
   that reports launch.MarkUnhealthy, is rolled back"). *)
UnhealthyLeaves ==
    \A v \in Versions :
        (probation.status = "unhealthy" /\ probation.version = v /\ current = v)
            ~> current # v

=============================================================================
