---------------------------- MODULE LauncherFile ----------------------------
(***************************************************************************)
(* The launcher replaces the file it was started from                      *)
(* (internal/launcherfile, core/launch/self.go), and whatever runs next    *)
(* repairs a replacement that was interrupted: the next start, the         *)
(* application's updater, Relaunch.                                        *)
(*                                                                         *)
(* A name refers to a file (an inode), and a file outlives its name while  *)
(* a process executes it or has it open: that is what the two strategies   *)
(* are about.  On POSIX a rename over the name of a running launcher is    *)
(* allowed; on Windows a running image, or a file open for writing, can be *)
(* neither replaced nor deleted, but an image can be renamed.              *)
(* A file's content is the version of the launcher it is a whole copy of,  *)
(* or Torn.                                                                *)
(***************************************************************************)
EXTENDS Naturals, FiniteSets, FiniteSetsExt

CONSTANTS
  Launchers,    \* processes running the launcher
  Apps,         \* processes of the application: they repair, from a file elsewhere
  Strategies,   \* subset of {"rename", "aside"}: ReplaceByRename, ReplaceAside
  Overlap,      \* whether two processes may work on the launcher at a time
  MaxVersion,   \* bound: launchers published
  MaxAside,     \* bound: the number of a launcher moved aside
  MaxFaults     \* bound: crashes and failures

ASSUME LauncherFileAssumption ==
  /\ Launchers \cap Apps = {} /\ IsFiniteSet(Launchers) /\ IsFiniteSet(Apps)
  /\ Strategies \subseteq {"rename", "aside"} /\ Overlap \in BOOLEAN
  /\ MaxVersion \in Nat \ {0} /\ MaxAside \in Nat \ {0} /\ MaxFaults \in Nat

VARIABLES
  strategy,   \* the platform's
  name,       \* the file users start, 0 for none
  tmp,        \* the one being written beside it
  asides,     \* [1..MaxAside -> the old launchers beside it]
  content,    \* [Files -> version or Torn]
  staged,     \* .updater/launcher.next/<name>: a version, 0 for none
  proc,       \* the processes
  faults      \* faults left

vars == <<strategy, name, tmp, asides, content, staged, proc, faults>>
files == <<name, tmp, asides, content>>

Procs == Launchers \cup Apps
Numbers == 1..MaxAside
Torn == 0
\* Enough files for every name and for every process's image and handle.
Files == 1..(2 + MaxAside + 2 * Cardinality(Procs))

Pcs == {"idle", "list", "look", "restore", "sweep", "sweeptmp", "read", "compare", "create",
        "write", "aside", "move", "place", "back", "discard", "clean", "drop", "run"}
Idle == [pc |-> "idle", image |-> 0, open |-> 0, data |-> 0, olds |-> {}, aside |-> 0]

Goto(p, l) == proc' = [proc EXCEPT ![p].pc = l]
At(p, l) == proc[p].pc = l
Fault == faults > 0 /\ faults' = faults - 1
Working(p) == proc[p].pc \notin {"idle", "run"}

\* What the platform will not replace or delete.
Pinned(f) == /\ strategy = "aside"
             /\ \E p \in Procs : f \in {proc[p].image, proc[p].open}
\* What it will not rename.
Open(f) == strategy = "aside" /\ \E p \in Procs : f = proc[p].open

Used == {name, tmp} \cup {asides[n] : n \in Numbers}
          \cup UNION {{proc[p].image, proc[p].open} : p \in Procs}
Fresh == CHOOSE f \in Files : f \notin Used

\* Rename over name: from a file to the name users start.
CanRename(f) == f # 0 /\ ~Open(f) /\ (name # 0 => ~Pinned(name))

---------------------------------------------------------------------------
(* Repair.                                                                 *)

\* The operating system runs what the name refers to.
Start(p) ==
  /\ p \in Launchers /\ At(p, "idle") /\ name # 0 /\ content[name] # Torn
  /\ Overlap \/ \A q \in Procs : ~Working(q)
  /\ proc' = [proc EXCEPT ![p].pc = "list", ![p].image = name]
  /\ UNCHANGED <<strategy, files, staged, faults>>

\* The application's updater, or Relaunch, repairs first.
RepairLauncher(p) ==
  /\ p \in Apps /\ At(p, "idle")
  /\ Overlap \/ \A q \in Procs : ~Working(q)
  /\ Goto(p, "list")
  /\ UNCHANGED <<strategy, files, staged, faults>>

\* Mutant of Listed: the first number is skipped.
ListedFromTwo == {n \in Numbers : asides[n] # 0 /\ n > 1}

\* asides: the numbers beside the name.
Listed == {n \in Numbers : asides[n] # 0}

List(p) ==
  /\ At(p, "list")
  /\ proc' = [proc EXCEPT ![p].pc = "look", ![p].olds = Listed]
  /\ UNCHANGED <<strategy, files, staged, faults>>

\* Where a process goes on after Repair: an application is done with the launcher.
Repaired(p) == IF p \in Launchers THEN "read" ELSE "idle"
Over(p) == IF p \in Launchers THEN "run" ELSE "idle"
Leave(p, l) == proc' = [proc EXCEPT ![p] = [Idle EXCEPT !.pc = l, !.image = proc[p].image]]

\* Mutant of Missing: old launchers are swept whether or not there is one at the name.
NeverMissing == FALSE

Missing == name = 0

Look(p) ==
  /\ At(p, "look")
  /\ IF ~Missing THEN Goto(p, "sweep")
     ELSE IF proc[p].olds = {} THEN Leave(p, Repaired(p))
     ELSE Goto(p, "restore")
  /\ UNCHANGED <<strategy, files, staged, faults>>

\* The newest old launcher goes back; a failure means this start swaps nothing.
Restore(p) ==
  LET n == Max(proc[p].olds)
      f == asides[n]
  IN  /\ At(p, "restore")
      /\ \/ /\ CanRename(f)
            /\ name' = f /\ asides' = [asides EXCEPT ![n] = 0]
            /\ Leave(p, Repaired(p)) /\ UNCHANGED faults
         \/ /\ CanRename(f) => Fault
            /\ ~CanRename(f) => UNCHANGED faults
            /\ Leave(p, Over(p)) /\ UNCHANGED <<name, asides>>
      /\ UNCHANGED <<strategy, tmp, content, staged>>

\* Old launchers are removed, newest first; one that will not go is left.
Sweep(p) ==
  LET olds == proc[p].olds
      n == Max(olds)
  IN  /\ At(p, "sweep")
      /\ IF olds = {} THEN Goto(p, "sweeptmp") /\ UNCHANGED asides
         ELSE /\ asides' = IF Pinned(asides[n]) THEN asides ELSE [asides EXCEPT ![n] = 0]
              /\ proc' = [proc EXCEPT ![p].olds = olds \ {n}]
      /\ UNCHANGED <<strategy, name, tmp, content, staged, faults>>

SweepTmp(p) ==
  /\ At(p, "sweeptmp")
  /\ tmp' = IF Pinned(tmp) THEN tmp ELSE 0
  /\ Leave(p, Repaired(p))
  /\ UNCHANGED <<strategy, name, asides, content, staged, faults>>

---------------------------------------------------------------------------
(* updateSelf.                                                             *)

\* The staged launcher is read whole, if there is one.
ReadStaged(p) ==
  /\ At(p, "read")
  /\ IF staged = 0 THEN Goto(p, "run")
     ELSE proc' = [proc EXCEPT ![p].pc = "compare", ![p].data = staged]
  /\ UNCHANGED <<strategy, files, staged, faults>>

\* Mutant of Same: the length is compared and the bytes are not.
SameLength(f, d) == content[f] # Torn

Same(f, d) == content[f] = d

\* A start that died after the swap is finished, not repeated.
Compare(p) ==
  /\ At(p, "compare")
  /\ Goto(p, IF name # 0 /\ Same(name, proc[p].data) THEN "drop" ELSE "create")
  /\ UNCHANGED <<strategy, files, staged, faults>>

\* Create truncates what has the name already.
Create(p) ==
  LET f == IF tmp # 0 THEN tmp ELSE Fresh
  IN  /\ At(p, "create") /\ f \in Files
      /\ tmp' = f /\ content' = [content EXCEPT ![f] = Torn]
      /\ proc' = [proc EXCEPT ![p].pc = "write", ![p].open = f]
      /\ UNCHANGED <<strategy, name, asides, staged, faults>>

\* What writing the data leaves in a file somebody else may have written to.
Written(f, d) == IF content[f] \in {Torn, d} THEN {d} ELSE {d, Torn}

Write(p) ==
  LET f == proc[p].open
  IN  /\ At(p, "write")
      /\ \/ /\ \E c \in Written(f, proc[p].data) : content' = [content EXCEPT ![f] = c]
            /\ proc' = [proc EXCEPT ![p].pc = IF strategy = "rename" THEN "place" ELSE "aside", ![p].open = 0]
            /\ UNCHANGED faults
         \/ /\ Fault
            /\ proc' = [proc EXCEPT ![p].pc = "discard", ![p].open = 0]
            /\ UNCHANGED content
      /\ UNCHANGED <<strategy, name, tmp, asides, staged>>

\* ReplaceAside: is there a launcher to move aside, and to which number?
Aside(p) ==
  LET next == IF Listed = {} THEN 1 ELSE Max(Listed) + 1
  IN  /\ At(p, "aside") /\ next \in Numbers
      /\ proc' = [proc EXCEPT ![p].pc = IF name = 0 THEN "place" ELSE "move",
                              ![p].aside = IF name = 0 THEN 0 ELSE next]
      /\ UNCHANGED <<strategy, files, staged, faults>>

Move(p) ==
  LET n == proc[p].aside
      can == name # 0 /\ ~Open(name) /\ (asides[n] # 0 => ~Pinned(asides[n]))
  IN  /\ At(p, "move")
      /\ \/ /\ can
            /\ asides' = [asides EXCEPT ![n] = name] /\ name' = 0
            /\ Goto(p, "place") /\ UNCHANGED faults
         \/ /\ can => Fault
            /\ ~can => UNCHANGED faults
            /\ Goto(p, "discard") /\ UNCHANGED <<name, asides>>
      /\ UNCHANGED <<strategy, tmp, content, staged>>

\* A new launcher that cannot take the name: first the old one goes back.
AfterFailure(p) == IF proc[p].aside # 0 THEN "back" ELSE "discard"

\* The new launcher takes the name, and the directory is flushed; if that fails the
\* start reports it and drops nothing.
Place(p) ==
  /\ At(p, "place")
  /\ \/ /\ CanRename(tmp)
        /\ name' = tmp /\ tmp' = 0
        /\ \/ Goto(p, IF proc[p].aside # 0 THEN "clean" ELSE "drop") /\ UNCHANGED faults
           \/ Fault /\ Leave(p, "run")
     \/ /\ CanRename(tmp) => Fault
        /\ ~CanRename(tmp) => UNCHANGED faults
        /\ Goto(p, AfterFailure(p)) /\ UNCHANGED <<name, tmp>>
  /\ UNCHANGED <<strategy, asides, content, staged>>

Back(p) ==
  LET n == proc[p].aside
      f == asides[n]
  IN  /\ At(p, "back")
      /\ \/ /\ CanRename(f)
            /\ name' = f /\ asides' = [asides EXCEPT ![n] = 0]
            /\ Goto(p, "discard") /\ UNCHANGED faults
         \/ /\ CanRename(f) => Fault
            /\ ~CanRename(f) => UNCHANGED faults
            /\ Leave(p, "run") /\ UNCHANGED <<name, asides>>
      /\ UNCHANGED <<strategy, tmp, content, staged>>

\* A failed replacement removes the file it wrote; the start goes on.
Discard(p) ==
  /\ At(p, "discard")
  /\ tmp' = IF Pinned(tmp) THEN tmp ELSE 0
  /\ Leave(p, "run")
  /\ UNCHANGED <<strategy, name, asides, content, staged, faults>>

\* The old image cannot go while it runs: the next Repair, or the next boot, removes it.
Clean(p) ==
  LET n == proc[p].aside
  IN  /\ At(p, "clean")
      /\ asides' = IF Pinned(asides[n]) THEN asides ELSE [asides EXCEPT ![n] = 0]
      /\ Goto(p, "drop")
      /\ UNCHANGED <<strategy, name, tmp, content, staged, faults>>

\* dropStaged, best effort.
DropStaged(p) ==
  /\ At(p, "drop")
  /\ \/ staged' = 0 /\ UNCHANGED faults
     \/ UNCHANGED staged /\ Fault
  /\ Leave(p, "run")
  /\ UNCHANGED <<strategy, files>>

---------------------------------------------------------------------------
(* The rest.                                                               *)

\* The launcher hands over to the application and ends; or any process dies.
Exit(p) ==
  /\ At(p, "run")
  /\ proc' = [proc EXCEPT ![p] = Idle]
  /\ UNCHANGED <<strategy, files, staged, faults>>

Crash(p) ==
  /\ Working(p) /\ Fault
  /\ proc' = [proc EXCEPT ![p] = Idle]
  /\ UNCHANGED <<strategy, files, staged>>

\* A committed update stages its launcher with one rename (layout.PromoteLauncher).
Promote(v) ==
  /\ v > staged /\ (name # 0 => v > content[name])
  /\ \A f \in Used \ {0} : v > content[f]
  /\ Overlap \/ \A q \in Procs : ~Working(q)
  /\ staged' = v
  /\ UNCHANGED <<strategy, files, proc, faults>>

Init ==
  /\ strategy \in Strategies
  /\ name = 1 /\ tmp = 0 /\ asides = [n \in Numbers |-> 0]
  /\ content = [f \in Files |-> IF f = 1 THEN 1 ELSE Torn]
  /\ staged = 0
  /\ proc = [p \in Procs |-> Idle]
  /\ faults = MaxFaults

Repairing(p) == List(p) \/ Look(p) \/ Restore(p) \/ Sweep(p) \/ SweepTmp(p)
Replacing(p) ==
  \/ ReadStaged(p) \/ Compare(p) \/ Create(p) \/ Write(p) \/ Aside(p) \/ Move(p) \/ Place(p)
  \/ Back(p) \/ Discard(p) \/ Clean(p) \/ DropStaged(p)
Step(p) == Repairing(p) \/ Replacing(p)

Next ==
  \/ \E p \in Procs : Start(p) \/ RepairLauncher(p) \/ Step(p) \/ Exit(p) \/ Crash(p)
  \/ \E v \in 2..MaxVersion : Promote(v)

\* Fairness: a process goes on with what it began, a launcher ends, and an application
\* that is running updates itself, which is when it repairs.
Spec ==
  /\ Init /\ [][Next]_vars
  /\ \A p \in Procs : WF_vars(Step(p)) /\ WF_vars(Exit(p)) /\ WF_vars(RepairLauncher(p))

---------------------------------------------------------------------------
(* What the replacement promises.                                          *)

\* Every variable has its type.
TypeOK ==
  /\ strategy \in Strategies
  /\ name \in Files \cup {0} /\ tmp \in Files \cup {0} /\ asides \in [Numbers -> Files \cup {0}]
  /\ content \in [Files -> 0..MaxVersion] /\ staged \in 0..MaxVersion
  /\ proc \in [Procs -> [pc : Pcs, image : Files \cup {0}, open : Files \cup {0},
                         data : 0..MaxVersion, olds : SUBSET Numbers, aside : 0..MaxAside]]
  /\ faults \in 0..MaxFaults

\* ReplaceByRename: "an interruption at any point leaves either the old launcher or the
\* new one at the name, never a prefix of either"; ReplaceAside: where the name is empty,
\* the newest launcher beside it is a whole one for Repair to put back.
NeverLost ==
  IF name # 0 THEN content[name] # Torn
  ELSE strategy = "aside" /\ \E n \in Numbers :
         /\ asides[n] # 0 /\ content[asides[n]] # Torn
         /\ \A m \in Numbers : m > n => asides[m] = 0

\* updateSelf: a staged launcher is removed only when it is the one at the name, whatever
\* failed before, so that no interruption loses an update of the launcher.
StagedKept == [][staged # 0 /\ staged' = 0 => name # 0 /\ content[name] = staged]_vars

\* Repair: a launcher that was moved aside and is the only one left comes back while an
\* application runs that updates itself.
NameReturns == name = 0 ~> name # 0

=============================================================================
