------------------------------ MODULE Uninstall ------------------------------
(***************************************************************************)
(* Removing an installation (core/uninstall, the launcher's --uninstall).  *)
(*                                                                         *)
(* An UNINSTALLING record goes into the journal before anything is         *)
(* removed, the parts of the installation go in a fixed order, the journal *)
(* is the last file of the state directory, and the launcher goes last of  *)
(* all: at once on POSIX, on Windows by a copy of itself that waits for it *)
(* to exit.  A run that stops anywhere is finished by another run.         *)
(*                                                                         *)
(* The environment starts the launcher, closes the application and puts    *)
(* files of its own into the root.                                         *)
(***************************************************************************)
EXTENDS Naturals

CONSTANT MaxFaults  \* bound: errors and crashes in one behaviour

ASSUME UninstallAssumption == MaxFaults \in Nat

\* What may stand in the install root: the directory itself, the pointer, the
\* versions directory and its complete trees, the state directory with the install
\* state and the integrations manifest, the launcher, an old image of it, and a
\* file idunn did not install.  The journal is a variable of its own.
Parts == {"root", "pointer", "versions", "trees", "meta", "state", "record",
          "self", "aside", "user"}

\* The last record of the journal: none, a resting state, a transaction that was
\* interrupted, or the uninstall's own.
Journals == {"NONE", "RESTING", "INTERRUPTED", "UNINSTALLING"}

Pcs == {"idle", "lock", "hook", "settle", "begin", "entry", "record", "pointer", "trees",
        "versions", "purge", "caches", "state", "journal", "meta", "sweep", "self", "root"}

VARIABLES
    disk,     \* the parts of the installation that exist
    journal,  \* the last record of .updater/journal.json
    entry,    \* the "Installed apps" entry is registered
    cache,    \* the installer's cache outside the root exists
    data,     \* the application's own data exists
    holdsImage, \* the platform refuses to delete a running image (Windows)
    running,  \* an instance of the application is up
    consent,  \* history: the host's last answer, and whether the uninstall began
    run,      \* the uninstall under way: its place, its options and what it found
    copies,   \* pending copies of the launcher, by their --remove-root
    faults    \* errors and crashes so far

root == <<disk, journal>>
outside == <<entry, cache, data>>
machine == <<holdsImage, running>>
vars == <<root, outside, machine, consent, run, copies, faults>>

\* Options.SelfPath, Options.Lock and Options.Purge; identity.resumed and
\* identity.hasJournal; whether integrations were recorded; whether a removal
\* failed; whether the sweep kept something.
Runs == [pc: Pcs, self: BOOLEAN, lock: BOOLEAN, purge: BOOLEAN, resumed: BOOLEAN,
         hasJournal: BOOLEAN, recorded: BOOLEAN, failed: BOOLEAN, kept: BOOLEAN]

Idle == [pc |-> "idle", self |-> FALSE, lock |-> FALSE, purge |-> FALSE, resumed |-> FALSE,
         hasJournal |-> FALSE, recorded |-> FALSE, failed |-> FALSE, kept |-> FALSE]

\* A committed installation, with or without integrations, an old launcher image
\* and a file of the user's; or a first install that never committed, its pointer
\* set or not.
Init ==
    /\ \E extra \in SUBSET {"record", "aside", "user"} :
         \/ /\ disk = extra \cup {"root", "pointer", "versions", "trees", "meta", "state", "self"}
            /\ journal \in {"NONE", "RESTING", "INTERRUPTED"}
         \/ /\ "record" \notin extra
            /\ \/ /\ disk = extra \cup {"root", "versions", "meta", "self"}
                  /\ journal \in {"RESTING", "INTERRUPTED"}
               \/ /\ disk = extra \cup {"root", "pointer", "versions", "trees", "meta", "self"}
                  /\ journal = "INTERRUPTED"
    /\ entry \in BOOLEAN /\ (entry => "record" \in disk)
    /\ cache = TRUE /\ data = TRUE
    /\ holdsImage \in BOOLEAN /\ running = FALSE /\ consent = "none"
    /\ run = Idle /\ copies = {} /\ faults = 0

-----------------------------------------------------------------------------
(* What a run finds. *)

\* The root holds the launcher and nothing but what the last steps leave.
OnlyLeftovers(self) ==
    self /\ "self" \in disk /\ disk \subseteq {"root", "meta", "state", "record", "self", "aside"}

\* An earlier uninstall began here.
Resumes(self) ==
    \/ journal = "UNINSTALLING"
    \/ journal = "NONE" /\ "state" \notin disk /\ OnlyLeftovers(self)

\* The root holds an installation, or what an uninstall left of one.
Identified(self) == "root" \in disk /\ (journal # "NONE" \/ "state" \in disk \/ Resumes(self))

-----------------------------------------------------------------------------
(* One run of the uninstall. *)

At(p) == run.pc = p

\* The run goes on at p.
Goto(p) == run' = [run EXCEPT !.pc = p]

\* An error ends the run.
Return == run' = Idle

\* An I/O error or a refusing hook, while the bound allows another.
Fault == faults < MaxFaults /\ faults' = faults + 1

Removes(parts) == disk' = disk \ parts

\* The root is inspected: no installation, or integrations that the caller has no
\* registry to remove, are refused with nothing changed.
Identify(self, lock, purge, registry) ==
    /\ At("idle")
    /\ Identified(self)
    /\ self => "self" \in disk
    /\ "record" \in disk => registry
    /\ run' = [Idle EXCEPT !.pc = "lock", !.self = self, !.lock = lock, !.purge = purge,
                           !.resumed = Resumes(self), !.hasJournal = journal # "NONE",
                           !.recorded = "record" \in disk]
    /\ consent' = IF Resumes(self) THEN consent ELSE "none"
    /\ UNCHANGED <<root, outside, machine, copies, faults>>

\* A running instance holds the application lock: ErrBusy.
TryLock ==
    /\ At("lock")
    /\ IF run.lock /\ running THEN Return
       ELSE Goto(IF ~run.resumed THEN "hook" ELSE IF run.recorded THEN "entry" ELSE "pointer")
    /\ UNCHANGED <<root, outside, machine, consent, copies, faults>>

\* Mutant: the host's refusal is ignored.
BeforeUninstallIgnored ==
    /\ At("hook")
    /\ Goto("pointer") /\ UNCHANGED consent
    /\ UNCHANGED <<root, outside, machine, copies, faults>>

\* The host agrees, or refuses with nothing changed.
BeforeUninstall ==
    /\ At("hook")
    /\ \/ Goto(IF run.hasJournal THEN "settle" ELSE "begin") /\ consent' = "agreed"
       \/ Return /\ UNCHANGED consent
    /\ UNCHANGED <<root, outside, machine, copies, faults>>

\* Recovery of an interrupted update: what the pointer names is recorded as
\* installed, or the transaction is undone.
RecoverRoot ==
    /\ journal' = IF journal = "INTERRUPTED" THEN "RESTING" ELSE journal
    /\ disk' = IF journal = "INTERRUPTED" /\ "pointer" \in disk THEN disk \cup {"state"} ELSE disk

\* An interrupted update is finished or undone first.
Settle ==
    /\ At("settle")
    /\ RecoverRoot
    /\ Goto("begin")
    /\ UNCHANGED <<outside, machine, consent, copies, faults>>

\* The journal takes the record only after a resting state.
Begin ==
    /\ At("begin")
    /\ IF journal \in {"NONE", "RESTING"}
       THEN /\ journal' = "UNINSTALLING"
            /\ disk' = disk \cup {"meta"}
            /\ consent' = "begun"
            /\ Goto(IF run.recorded THEN "entry" ELSE "pointer")
       ELSE Return /\ UNCHANGED <<root, consent>>
    /\ UNCHANGED <<outside, machine, copies, faults>>

\* Mutant: the record is removed before the entry it describes.
UnregisterRecordFirst ==
    /\ \/ At("entry") /\ Removes({"record"}) /\ Goto("record") /\ UNCHANGED entry
       \/ At("record") /\ entry' = FALSE /\ Goto("pointer") /\ UNCHANGED disk
    /\ UNCHANGED <<journal, cache, data, machine, consent, copies, faults>>

\* The entry is deleted before the record of it.
Unregister ==
    /\ \/ At("entry") /\ entry' = FALSE /\ Goto("record") /\ UNCHANGED disk
       \/ At("record") /\ Removes({"record"}) /\ Goto("pointer") /\ UNCHANGED entry
    /\ UNCHANGED <<journal, cache, data, machine, consent, copies, faults>>

\* Mutant: the pointer is left for later.
RemovePointerLater ==
    /\ At("pointer")
    /\ Goto("trees")
    /\ UNCHANGED <<root, outside, machine, consent, copies, faults>>

RemovePointer ==
    /\ At("pointer")
    /\ Removes({"pointer"})
    /\ Goto("trees")
    /\ UNCHANGED <<journal, outside, machine, consent, copies, faults>>

\* The application runs from a file this platform will not delete.
InUse == holdsImage /\ running /\ "versions" \in disk

\* The walk removes what it can and reports what it could not: the trees go one by
\* one, and a file in use, or an error, keeps the directory.
RemoveVersions ==
    /\ \/ At("trees") /\ Removes({"trees"}) /\ Goto("versions") /\ UNCHANGED faults
       \/ /\ At("versions") /\ ~InUse
          /\ Removes({"versions"}) /\ Goto("purge") /\ UNCHANGED faults
       \/ /\ At("versions")
          /\ (InUse /\ UNCHANGED faults) \/ Fault
          /\ run' = [run EXCEPT !.pc = "purge", !.failed = TRUE]
          /\ UNCHANGED disk
    /\ UNCHANGED <<journal, outside, machine, consent, copies>>

\* The application's data goes only when the user asks.
PurgeData ==
    /\ At("purge")
    /\ \/ data' = (data /\ ~run.purge) /\ Goto("caches") /\ UNCHANGED faults
       \/ /\ run.purge /\ Fault
          /\ run' = [run EXCEPT !.pc = "caches", !.failed = TRUE]
          /\ UNCHANGED data
    /\ UNCHANGED <<root, entry, cache, machine, consent, copies>>

\* Mutant: a cache that could not be removed is forgotten.
RemoveCachesForgetful ==
    /\ At("caches")
    /\ \/ cache' = FALSE /\ UNCHANGED faults
       \/ Fault /\ UNCHANGED cache
    /\ IF run.failed THEN Return ELSE Goto("state")
    /\ UNCHANGED <<root, entry, data, machine, consent, copies>>

\* With anything left, the run ends as ErrIncomplete.
RemoveCaches ==
    /\ At("caches")
    /\ \/ cache' = FALSE /\ UNCHANGED faults
          /\ IF run.failed THEN Return ELSE Goto("state")
       \/ Fault /\ Return /\ UNCHANGED cache
    /\ UNCHANGED <<root, entry, data, machine, consent, copies>>

\* Mutant: the journal goes first.
RemoveMetaJournalFirst ==
    /\ \/ At("state") /\ journal' = "NONE" /\ Goto("journal") /\ UNCHANGED disk
       \/ At("journal") /\ Removes({"state", "record"}) /\ Goto("meta") /\ UNCHANGED journal
       \/ At("meta") /\ Removes({"meta"}) /\ Goto("sweep") /\ UNCHANGED journal
    /\ UNCHANGED <<outside, machine, consent, copies, faults>>

\* The state directory is emptied, the journal last, and removed.
RemoveMeta ==
    /\ \/ At("state") /\ Removes({"state", "record"}) /\ Goto("journal") /\ UNCHANGED journal
       \/ At("journal") /\ journal' = "NONE" /\ Goto("meta") /\ UNCHANGED disk
       \/ At("meta") /\ Removes({"meta", "state", "record"}) /\ Goto("sweep") /\ journal' = "NONE"
    /\ UNCHANGED <<outside, machine, consent, copies, faults>>

\* Old launcher images are idunn's only for a run that knows its launcher.
SweepRoot ==
    /\ At("sweep")
    /\ LET others == IF run.self THEN {"user"} ELSE {"user", "self", "aside"}
       IN run' = [run EXCEPT !.pc = IF run.self THEN "self" ELSE "root",
                             !.kept = disk \cap others # {}]
    /\ Removes(IF run.self THEN {"aside"} ELSE {})
    /\ UNCHANGED <<journal, outside, machine, consent, copies, faults>>

\* Mutant: the launcher that cannot be deleted is left behind.
RemoveSelfUnscheduled ==
    /\ At("self")
    /\ IF holdsImage /\ "self" \in disk
       THEN Return /\ UNCHANGED disk
       ELSE Removes({"self"}) /\ Goto("root")
    /\ UNCHANGED <<journal, outside, machine, consent, copies, faults>>

\* POSIX unlinks the running launcher; Windows leaves it to a copy.
RemoveSelf ==
    /\ At("self")
    /\ IF holdsImage /\ "self" \in disk
       THEN copies' = copies \cup {~run.kept} /\ Return /\ UNCHANGED disk
       ELSE Removes({"self"}) /\ Goto("root") /\ UNCHANGED copies
    /\ UNCHANGED <<journal, outside, machine, consent, faults>>

\* Mutant: the root is removed with whatever it holds.
WithoutRootAll(parts) == {}

\* A directory that is not empty is not removed.
WithoutRoot(parts) == IF parts = {"root"} THEN {} ELSE parts

RemoveRoot ==
    /\ At("root")
    /\ disk' = IF run.kept THEN disk ELSE WithoutRoot(disk)
    /\ Return
    /\ UNCHANGED <<journal, outside, machine, consent, copies, faults>>

\* A run dies, or a step reports an error that ends it.
Stop ==
    /\ ~At("idle") /\ Fault
    /\ Return
    /\ UNCHANGED <<root, outside, machine, consent, copies>>

-----------------------------------------------------------------------------
(* The copy that removes the launcher, and the environment. *)

\* An uninstall runs from the launcher's file.
LauncherRuns == ~At("idle") /\ run.self

\* The copy waits for the launcher that started it and deletes it, its old images
\* and the empty root; it may die before any of them.
Finish(removeRoot) ==
    /\ removeRoot \in copies /\ ~LauncherRuns
    /\ copies' = copies \ {removeRoot}
    /\ \/ LET left == disk \ {"self", "aside"}
          IN disk' = (IF removeRoot THEN WithoutRoot(left) ELSE left) /\ UNCHANGED faults
       \/ Fault /\ (UNCHANGED disk \/ Removes({"self"}))
    /\ UNCHANGED <<journal, outside, machine, consent, run>>

\* Another run keeps the launcher's file in use for as long as the copy retries.
GiveUp(removeRoot) ==
    /\ removeRoot \in copies /\ LauncherRuns
    /\ copies' = copies \ {removeRoot}
    /\ UNCHANGED <<root, outside, machine, consent, run, faults>>

\* A start is refused while an uninstall is on record, settles the last update and
\* runs what the pointer names.
Runnable == {"self", "pointer"} \subseteq disk /\ journal # "UNINSTALLING"

Start ==
    /\ Runnable /\ ~running
    /\ running' = TRUE
    /\ RecoverRoot
    /\ UNCHANGED <<outside, holdsImage, consent, run, copies, faults>>

Close ==
    /\ running
    /\ running' = FALSE
    /\ UNCHANGED <<root, outside, holdsImage, consent, run, copies, faults>>

\* An Apply of the running application, over an installation that still stands,
\* opens a transaction and is cut short.
Update ==
    /\ running /\ journal \in {"NONE", "RESTING"} /\ "pointer" \in disk
    /\ journal' = "INTERRUPTED"
    /\ disk' = disk \cup {"meta"}
    /\ UNCHANGED <<outside, machine, consent, run, copies, faults>>

UserWrites ==
    /\ "root" \in disk /\ "user" \notin disk
    /\ disk' = disk \cup {"user"}
    /\ UNCHANGED <<journal, outside, machine, consent, run, copies, faults>>

-----------------------------------------------------------------------------
Step ==
    \/ TryLock \/ BeforeUninstall \/ Settle \/ Begin \/ Unregister \/ RemovePointer
    \/ RemoveVersions \/ PurgeData \/ RemoveCaches \/ RemoveMeta \/ SweepRoot
    \/ RemoveSelf \/ RemoveRoot

Next ==
    \/ \E self, lock, purge, registry \in BOOLEAN : Identify(self, lock, purge, registry)
    \/ Step \/ Stop
    \/ \E removeRoot \in BOOLEAN : Finish(removeRoot) \/ GiveUp(removeRoot)
    \/ Start \/ Close \/ Update \/ UserWrites

Spec == Init /\ [][Next]_vars

\* A run goes on, the application is closed, a copy retries until the launcher's
\* file is free, and somebody runs the launcher's --uninstall again, as the refusal
\* of a start tells them to.
FairSpec ==
    /\ Spec
    /\ WF_vars(Step)
    /\ WF_vars(Close)
    /\ SF_vars(\E removeRoot \in BOOLEAN : Finish(removeRoot))
    /\ SF_vars(\E lock, purge \in BOOLEAN : Identify(TRUE, lock, purge, TRUE))

-----------------------------------------------------------------------------
(* Properties. *)

TypeOK ==
    /\ disk \subseteq Parts /\ journal \in Journals
    /\ entry \in BOOLEAN /\ cache \in BOOLEAN /\ data \in BOOLEAN
    /\ holdsImage \in BOOLEAN /\ running \in BOOLEAN
    /\ consent \in {"none", "agreed", "begun"}
    /\ run \in Runs /\ copies \subseteq BOOLEAN /\ faults \in 0..MaxFaults

\* A start that is not refused finds the whole tree its pointer names: the
\* UNINSTALLING record precedes every removal and outlives the pointer.
StartsWhole == Runnable => {"versions", "trees"} \subseteq disk

\* An uninstall that began is picked up again as its own continuation, the host is
\* not asked a second time, as long as the launcher is there to run it and the
\* root holds nothing but idunn's files.
Resumable ==
    consent = "begun" /\ "self" \in disk /\ "user" \notin disk => Resumes(TRUE)

\* The same whatever the root holds: the package promises that running an
\* interrupted uninstall again finishes it.
AlwaysResumable ==
    consent = "begun" /\ At("idle") /\ copies = {} /\ "self" \in disk => Resumes(TRUE)

\* While the "Installed apps" entry is registered its record is in the root, the
\* only thing a later run can unregister it from.
EntryRecorded == entry => "record" \in disk

\* Once the evidence of the installation is gone nothing it stood for is left:
\* a removal that failed keeps the journal.
EvidenceLast ==
    consent = "begun" /\ journal = "NONE" =>
        /\ ~entry /\ ~cache
        /\ disk \cap {"pointer", "versions", "trees", "state", "record"} = {}

\* Nothing is removed unless the host agreed to this uninstall.
UntouchedUnlessAgreed ==
    [][ consent # "begun" =>
          disk \subseteq disk' /\ entry' = entry /\ cache' = cache /\ data' = data ]_vars

\* A file idunn did not install, and the root that holds it, stay.
UserFilesStay == [][ "user" \in disk => {"user", "root"} \subseteq disk' ]_vars

\* An uninstall that began leaves nothing of idunn's in the root, unless somebody
\* puts a file of their own there.
UninstallFinishes ==
    consent = "begun" ~> (disk \subseteq {"root"} \/ "user" \in disk)
=============================================================================
