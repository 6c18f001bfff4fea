----------------------------- MODULE InstallRoot -----------------------------
(***************************************************************************)
(* The state of one install root and of the processes that work on it.     *)
(*                                                                         *)
(* On disk (internal/layout): the transaction journal, the pointer         *)
(* `current', the install state, the version directories, the launchers    *)
(* that wait to be swapped in, and the probation record.  Beside it, what  *)
(* the host owns: the data its migrations change, and the application lock.*)
(*                                                                         *)
(* A process is an updater (a call of Updater.Apply) or a launcher (a call *)
(* of launch.Start).  Its locals are its program counter, the call it is   *)
(* in, the last record of the journal it opened, the release it applies    *)
(* and its copy of the probation record.                                   *)
(***************************************************************************)
EXTENDS Integers, FiniteSets

CONSTANTS
    Updaters,        \* processes that call Updater.Apply
    Launchers,       \* processes that call launch.Start
    MaxVersion,      \* the published versions are 1..MaxVersion, in SemVer order
    Attempts,        \* probation attempts of each release, 0 for no probation
    Restarts,        \* restarts a version on probation may ask for
    ShipsLauncher,   \* the releases that carry a launcher
    OnBusy,          \* Policy.OnBusy
    RetainVersions,  \* Policy.RetainVersions
    AllowDowngrade,  \* Policy.AllowDowngrade
    VerifyAfterApply,\* Policy.VerifyAfterApply
    Exclusive,       \* at most one process works on the root at a time
    OneInstance,     \* nobody starts the launcher while the application runs
    FailPcs,         \* the steps at which an I/O error or a refusing hook is injected
    MaxFaults        \* bound: crashes and errors in one behaviour

NoVersion == 0
Versions == 1..MaxVersion
VersionOrNone == 0..MaxVersion
Procs == Updaters \cup Launchers

\* Host data a migration has started to change and has not finished changing.
Torn == -1

\* Holders of the application lock besides a process.
Free == "free"
App == "app"

ASSUME ProcessAssumption ==
    /\ Updaters \cap Launchers = {}
    /\ Free \notin Procs /\ App \notin Procs

ASSUME PolicyAssumption ==
    /\ MaxVersion \in Nat
    /\ Attempts \in [Versions -> Nat]
    /\ Restarts \in Nat
    /\ ShipsLauncher \subseteq Versions
    /\ OnBusy \in {"abort", "defer", "force"}
    /\ RetainVersions \in Nat /\ RetainVersions >= 2
    /\ {AllowDowngrade, VerifyAfterApply, Exclusive, OneInstance} \subseteq BOOLEAN
    /\ MaxFaults \in Nat

VARIABLES
    journal,         \* the last record of .updater/journal.json
    current,         \* the version the pointer names
    install,         \* the version .updater/state.json names
    dirs,            \* versions/<v>: absent, partial (a removal stopped) or whole
    pending,         \* versions whose launcher waits in the staging tree
    launcherNext,    \* the version whose launcher is staged for the next start
    launcher,        \* the version whose launcher sits in the root
    probation,       \* .updater/probation.json
    host,            \* the version the host's data fits
    lock,            \* who holds the application lock
    app,             \* the version the running instance was started from
    pc, ctx,         \* what each process does next, and within which call
    rec,             \* the last record of the journal each process holds in memory
    rel,             \* the release each updater applies, and what it was resolved against
    loc,             \* each launcher's copy of the probation record
    faults           \* crashes and errors so far

disk == <<journal, current, install, dirs, pending, launcherNext, launcher, probation>>
locals == <<ctx, rec, rel, loc>>
vars == <<disk, host, lock, app, pc, locals, faults>>

-----------------------------------------------------------------------------
(* Records. *)

JournalStates == {"BEGIN", "STAGED", "MIGRATED", "SWAPPED", "COMMITTED",
                  "ROLLED_BACK", "DEFERRED", "UNINSTALLING"}

NoRecord == [state |-> "NONE", from |-> NoVersion, to |-> NoVersion]

Record == [state : JournalStates \cup {"NONE"}, from : VersionOrNone, to : VersionOrNone]

Releases == [from : VersionOrNone, to : VersionOrNone]
NoRelease == [from |-> NoVersion, to |-> NoVersion]

ProbationStatus == {"probation", "confirmed", "unhealthy", "reverting", "reverted", "kept"}

Probation == [status : ProbationStatus \cup {"none"}, version : VersionOrNone,
              previous : VersionOrNone, attempts : Nat, restarts : Nat,
              restartPending : BOOLEAN, blocked : VersionOrNone]

NoProbation == [status |-> "none", version |-> NoVersion, previous |-> NoVersion,
                attempts |-> 0, restarts |-> 0, restartPending |-> FALSE,
                blocked |-> NoVersion]

-----------------------------------------------------------------------------
(* Reading the root. *)

\* A directory under versions/, whole or not: what Stat and Lstat see.
Exists(v) == dirs[v] # "absent"

InstalledVersions == {v \in Versions : Exists(v)}

\* The version a probation may still return to, which is not collected.
ProbationPins ==
    IF probation.status \in {"probation", "unhealthy", "reverting"}
    THEN {probation.previous} ELSE {}

\* A transaction that has begun and neither committed nor rolled back nor been
\* put to rest for the next start.
Interrupted(r) == r.state \in {"BEGIN", "STAGED", "MIGRATED", "SWAPPED"}

InFlight(r) == Interrupted(r) \/ r.state = "DEFERRED"

\* What a call of Apply ends with.
Outcomes == {"committed", "aborted", "rolledback", "deferred"}

Resting == {"idle", "checked"}
Active(p) == pc[p] \notin Resting

\* A process may start to work on the root.
MayEnter(p) == Exclusive => \A q \in Procs \ {p} : ~Active(q)

=============================================================================
