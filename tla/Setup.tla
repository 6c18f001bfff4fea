------------------------------- MODULE Setup -------------------------------
(***************************************************************************)
(* Installing, and the entry in the operating system's list of installed   *)
(* applications.  The installer (cmd/installer, core/installer) refuses or *)
(* runs the ordinary transaction and then registers the entry; the         *)
(* launcher's start brings the entry in line with the live version; the    *)
(* uninstaller removes it (core/integrate).  Several install roots of one  *)
(* application share the entry's name, and other software may have taken   *)
(* it.                                                                     *)
(*                                                                         *)
(* A transaction is its swap and its commit (module Transaction has the    *)
(* rest), the refresh of the metadata one read of the channel's head and   *)
(* the time floor is not here (module Delivery has both), and an uninstall *)
(* is the removal of the entries and then of the root (module Uninstall).  *)
(* A root is worked on by one program at a time, its own updater aside.    *)
(***************************************************************************)
EXTENDS Naturals, FiniteSets

CONSTANTS
  Roots,        \* install roots of the application
  Procs,        \* running programs: installers, launchers, uninstallers
  OwnerFirst,   \* whether an interrupted write of a new key has set the owner
  MaxVersion,   \* bound: the newest version
  MaxEvents,    \* bound: what users, administrators and other software do
  MaxFaults     \* bound: crashes and failures

ASSUME SetupAssumption ==
  /\ OwnerFirst \in BOOLEAN /\ Roots # {} /\ Roots \cap {"absent", "foreign", "none"} = {}
  /\ MaxVersion \in Nat \ {0} /\ MaxEvents \in Nat /\ MaxFaults \in Nat

VARIABLES
  head,      \* the head of the channel
  live,      \* [Roots -> the version `current' names], 0 for none
  state,     \* [Roots -> the version of state.json], 0 for none
  open,      \* the roots whose journal ends with a swap and no commit
  meta,      \* the roots that have idunn's state directory
  secure,    \* the roots only administrators control
  manifest,  \* [Roots -> the scopes of the recorded entries]
  entry,     \* [Scopes -> the key in the registry]
  orphaned,  \* history: the scopes whose entry outlived its root's record, by hand
  proc,      \* the programs
  events,    \* events left
  faults     \* faults left

vars == <<head, live, state, open, meta, secure, manifest, entry, orphaned, proc, events, faults>>
tree == <<live, state, open, meta>>
world == <<head, secure, events>>

Versions == 0..MaxVersion
Scopes == {"user", "machine"}
Absent == [owner |-> "absent", version |-> 0]
Foreign == [owner |-> "foreign", version |-> 0]
Idle == [pc |-> "idle", root |-> CHOOSE r \in Roots : TRUE, pin |-> 0, down |-> FALSE,
         existing |-> 0, from |-> 0, to |-> 0, scope |-> "user", todo |-> {}]

At(p, l) == proc[p].pc = l
Put(p, q) == proc' = [proc EXCEPT ![p] = q]
Goto(p, l) == proc' = [proc EXCEPT ![p].pc = l]
End(p) == Put(p, Idle)
Fault == faults > 0 /\ faults' = faults - 1
Event == events > 0 /\ events' = events - 1
Busy(r) == \E p \in Procs : ~At(p, "idle") /\ proc[p].root = r
MayStart(p, r) == At(p, "idle") /\ ~Busy(r)

---------------------------------------------------------------------------
(* The installer.                                                          *)

\* The recorded version, 0 if there is none; a state that cannot be read is a refusal.
preflightState(r) == state[r]

\* Install up to the network.
Begin(p, r, pin, down) ==
  /\ MayStart(p, r)
  /\ Put(p, [Idle EXCEPT !.pc = "resolve", !.root = r, !.pin = pin, !.down = down,
                         !.existing = preflightState(r)])
  /\ UNCHANGED <<world, tree, manifest, entry, faults, orphaned>>

\* Not over the same or a newer version, unless the operator asked for it.
preflightVersion(existing, target, down) == existing = 0 \/ down \/ existing < target

\* resolve: the head, or the version named.  What is there already is success.
Resolve(p) ==
  LET q == proc[p]
      target == IF q.pin = 0 THEN head ELSE q.pin
  IN  /\ At(p, "resolve")
      /\ IF live[q.root] = target THEN Goto(p, "report")
         ELSE IF ~preflightVersion(q.existing, target, q.down) THEN End(p)
         ELSE Put(p, [q EXCEPT !.pc = "apply", !.from = live[q.root], !.to = target])
      /\ UNCHANGED <<world, tree, manifest, entry, faults, orphaned>>

\* Recovery of a swap that was not committed finishes it.
Settled(r) == [state EXCEPT ![r] = IF r \in open THEN live[r] ELSE @]

\* Apply: recovery first; then the install must be the one that was resolved against and
\* the policy must allow the step; then the swap.
Apply(p) ==
  LET q == proc[p]
      r == q.root
      refused == live[r] # q.from \/ (q.to < live[r] /\ ~q.down)
  IN  /\ At(p, "apply")
      /\ state' = Settled(r)
      /\ IF refused THEN End(p) /\ open' = open \ {r} /\ UNCHANGED <<live, meta>>
         ELSE /\ live' = [live EXCEPT ![r] = q.to]
              /\ open' = open \cup {r} /\ meta' = meta \cup {r}
              /\ Goto(p, "commit")
      /\ UNCHANGED <<world, manifest, entry, faults, orphaned>>

Commit(p) ==
  LET r == proc[p].root
  IN  /\ At(p, "commit")
      /\ state' = [state EXCEPT ![r] = live[r]] /\ open' = open \ {r}
      /\ Goto(p, "report")
      /\ UNCHANGED <<world, live, meta, manifest, entry, faults, orphaned>>

\* A failure before the commit is rolled back; before the swap nothing happened.
FailApply(p) ==
  LET r == proc[p].root
  IN  /\ proc[p].pc \in {"resolve", "apply", "commit"} /\ Fault
      /\ End(p)
      /\ IF At(p, "commit") THEN live' = [live EXCEPT ![r] = proc[p].from] /\ open' = open \ {r}
         ELSE UNCHANGED <<live, open>>
      /\ UNCHANGED <<world, state, meta, manifest, entry, orphaned>>

\* Mutant of InstalledVersion: the pointer alone.
InstalledPointer(r) == live[r] # 0

\* InstalledVersion: the pointer and the record have to agree.
InstalledVersion(r) == live[r] # 0 /\ live[r] = state[r]

\* doInstall: what is installed is read back before anything is registered.
Report(p) ==
  /\ At(p, "report")
  /\ IF InstalledVersion(proc[p].root) THEN Goto(p, "claim") ELSE End(p)
  /\ UNCHANGED <<world, tree, manifest, entry, faults, orphaned>>

---------------------------------------------------------------------------
(* The entry.                                                              *)

readManifest(r) == manifest[r]

\* Written atomically, or not at all.
writeManifest(r, scopes) == manifest' = [manifest EXCEPT ![r] = scopes]

ReadKey(s) == entry[s]

\* What an entry says: whose it is, and what follows from the live version.
values(r, v) == [owner |-> r, version |-> v]

\* Mutant of owns: any entry idunn wrote.
ownsAny(r, e) == e.owner \in Roots

owns(r, e) == e.owner = r

\* The root an entry names holds no idunn state any more.
abandoned(e) == e.owner \in Roots /\ e.owner \notin meta

claim(r, e) == e = Absent \/ owns(r, e) \/ abandoned(e)

\* registerEntry and RegisterUninstallEntry up to the record: the scope follows the root,
\* and an entry that is something else's is refused.
Claim(p) ==
  LET r == proc[p].root
      s == IF r \in secure THEN "machine" ELSE "user"
  IN  /\ At(p, "claim")
      /\ IF state[r] # 0 /\ live[r] # 0 /\ claim(r, ReadKey(s))
         THEN Put(p, [proc[p] EXCEPT !.pc = "record", !.scope = s, !.to = live[r]])
         ELSE End(p)
      /\ UNCHANGED <<world, tree, manifest, entry, faults, orphaned>>

\* The record first.
Record(p) ==
  LET r == proc[p].root
  IN  /\ At(p, "record")
      /\ \/ /\ writeManifest(r, readManifest(r) \cup {proc[p].scope})
            /\ Goto(p, "write") /\ UNCHANGED faults
         \/ End(p) /\ Fault /\ UNCHANGED manifest
      /\ UNCHANGED <<world, tree, entry, orphaned>>

WriteKey(p) ==
  LET q == proc[p]
  IN  /\ At(p, "write")
      /\ entry' = [entry EXCEPT ![q.scope] = values(q.root, q.to)]
      /\ orphaned' = orphaned \ {q.scope}
      /\ End(p)
      /\ UNCHANGED <<world, tree, manifest, faults>>

\* The values are set one by one, in no order: a failure or a crash leaves some of them.
TornWrite(p) ==
  LET q == proc[p]
      e == ReadKey(q.scope)
  IN  /\ At(p, "write") /\ Fault
      /\ \E o \in {e.owner, q.root}, v \in {e.version, q.to} :
           /\ OwnerFirst => o # "absent"
           /\ entry' = [entry EXCEPT ![q.scope] =
                          [owner |-> IF o = "absent" THEN "none" ELSE o, version |-> v]]
           /\ orphaned' = IF o = q.root THEN orphaned \ {q.scope} ELSE orphaned
      /\ End(p)
      /\ UNCHANGED <<world, tree, manifest>>

---------------------------------------------------------------------------
(* The launcher's start and the uninstaller.                               *)

\* Start: recovery, and then what is recorded, if a version is live.
Launch(p, r) ==
  /\ MayStart(p, r) /\ live[r] # 0
  /\ state' = Settled(r) /\ open' = open \ {r}
  /\ Put(p, [Idle EXCEPT !.pc = "refresh", !.root = r, !.to = live[r], !.todo = readManifest(r)])
  /\ UNCHANGED <<world, live, meta, manifest, entry, faults, orphaned>>

\* Mutant of differs: an entry is only ever brought forward.
isOlder(e, v) == e.version < v

differs(e, v) == e.version # v

\* refresh: only this root's entry, and only if it says something else.
Refresh(p, s) ==
  LET q == proc[p]
      write == owns(q.root, ReadKey(s)) /\ differs(ReadKey(s), q.to)
  IN  /\ At(p, "refresh") /\ s \in q.todo
      /\ \/ /\ entry' = IF write THEN [entry EXCEPT ![s] = values(q.root, q.to)] ELSE entry
            /\ UNCHANGED faults
         \/ write /\ Fault /\ UNCHANGED entry
      /\ Put(p, [q EXCEPT !.todo = q.todo \ {s}])
      /\ UNCHANGED <<world, tree, manifest, orphaned>>

RefreshDone(p) ==
  /\ At(p, "refresh") /\ proc[p].todo = {}
  /\ End(p)
  /\ UNCHANGED <<world, tree, manifest, entry, faults, orphaned>>

Unregister(p, r) ==
  /\ MayStart(p, r) /\ live[r] # 0 /\ Event
  /\ Put(p, [Idle EXCEPT !.pc = "unregister", !.root = r])
  /\ UNCHANGED <<head, secure, tree, manifest, entry, faults, orphaned>>

DeleteKey(p, s) ==
  LET r == proc[p].root
  IN  /\ At(p, "unregister") /\ s \in readManifest(r) /\ owns(r, ReadKey(s))
      /\ \/ entry' = [entry EXCEPT ![s] = Absent] /\ UNCHANGED <<proc, faults>>
         \/ End(p) /\ Fault /\ UNCHANGED entry
      /\ UNCHANGED <<world, tree, manifest, orphaned>>

\* Mutant of gone: a key that could not be removed is dropped from the record too.
goneAnyway(r, e) == TRUE

\* There is nothing of this root's under the name any more.
gone(r, e) == ~owns(r, e)

\* "Each record is dropped from the manifest once what it describes is gone."
DropRecord(p, s) ==
  LET r == proc[p].root
  IN  /\ At(p, "unregister") /\ s \in readManifest(r) /\ gone(r, ReadKey(s))
      /\ writeManifest(r, readManifest(r) \ {s})
      /\ UNCHANGED <<world, tree, entry, proc, faults, orphaned>>

\* Then the root goes.
RemoveRoot(p) ==
  LET r == proc[p].root
  IN  /\ At(p, "unregister") /\ readManifest(r) = {}
      /\ live' = [live EXCEPT ![r] = 0] /\ state' = [state EXCEPT ![r] = 0]
      /\ open' = open \ {r} /\ meta' = meta \ {r}
      /\ End(p)
      /\ UNCHANGED <<world, manifest, entry, faults, orphaned>>

---------------------------------------------------------------------------
(* The rest of the machine.                                                *)

Crash(p) ==
  /\ ~At(p, "idle") /\ Fault
  /\ End(p)
  /\ UNCHANGED <<world, tree, manifest, entry, orphaned>>

\* The application's own updater moves to the head.
Update(r) ==
  /\ live[r] # 0 /\ live[r] # head /\ Event
  /\ \A p \in Procs : proc[p].root = r => proc[p].pc \notin {"commit", "unregister"}
  /\ live' = [live EXCEPT ![r] = head] /\ state' = [state EXCEPT ![r] = head]
  /\ open' = open \ {r}
  /\ UNCHANGED <<head, secure, meta, manifest, entry, proc, faults, orphaned>>

Publish ==
  /\ head < MaxVersion /\ Event
  /\ head' = head + 1
  /\ UNCHANGED <<secure, tree, manifest, entry, proc, faults, orphaned>>

\* Somebody deletes a root by hand, without its uninstaller.
DeleteRoot(r) ==
  /\ r \in meta /\ ~Busy(r) /\ Event
  /\ live' = [live EXCEPT ![r] = 0] /\ state' = [state EXCEPT ![r] = 0]
  /\ open' = open \ {r} /\ meta' = meta \ {r} /\ manifest' = [manifest EXCEPT ![r] = {}]
  /\ orphaned' = orphaned \cup {s \in Scopes : entry[s].owner = r}
  /\ UNCHANGED <<head, secure, entry, proc, faults>>

\* Other software takes the name; a cleanup tool removes an entry of idunn's.
Occupy(s) ==
  /\ entry[s] = Absent /\ Event
  /\ \A q \in Procs : proc[q].pc \notin {"record", "write"}
  /\ entry' = [entry EXCEPT ![s] = Foreign]
  /\ UNCHANGED <<head, secure, tree, manifest, proc, faults, orphaned>>

Cleanup(s) ==
  /\ entry[s].owner \in Roots /\ Event
  /\ entry' = [entry EXCEPT ![s] = Absent]
  /\ UNCHANGED <<head, secure, tree, manifest, proc, faults, orphaned>>

\* An administrator changes who controls a root.
Secure(r) ==
  /\ Event
  /\ secure' = IF r \in secure THEN secure \ {r} ELSE secure \cup {r}
  /\ UNCHANGED <<head, tree, manifest, entry, proc, faults, orphaned>>

---------------------------------------------------------------------------
Init ==
  /\ head = 1 /\ open = {} /\ meta = {} /\ secure = {}
  /\ live = [r \in Roots |-> 0] /\ state = [r \in Roots |-> 0]
  /\ manifest = [r \in Roots |-> {}]
  /\ entry = [s \in Scopes |-> Absent] /\ orphaned = {}
  /\ proc = [p \in Procs |-> Idle]
  /\ events = MaxEvents /\ faults = MaxFaults

Installing(p) ==
  Resolve(p) \/ Apply(p) \/ Commit(p) \/ Report(p) \/ Claim(p) \/ Record(p) \/ WriteKey(p)
Working(p) ==
  \/ Installing(p) \/ RefreshDone(p) \/ RemoveRoot(p)
  \/ \E s \in Scopes : Refresh(p, s) \/ DeleteKey(p, s) \/ DropRecord(p, s)
Starting(r) == \E p \in Procs : Launch(p, r)
\* The command line names the root, and maybe an older version or a downgrade.
installVerb(p, r) == \E pin \in 0..(head - 1), down \in BOOLEAN : Begin(p, r, pin, down)

Next ==
  \/ \E p \in Procs : Working(p) \/ FailApply(p) \/ TornWrite(p) \/ Crash(p)
  \/ \E p \in Procs, r \in Roots : installVerb(p, r) \/ Unregister(p, r)
  \/ \E r \in Roots : Starting(r) \/ Update(r) \/ DeleteRoot(r) \/ Secure(r)
  \/ \E s \in Scopes : Occupy(s) \/ Cleanup(s)
  \/ Publish

Spec == Init /\ [][Next]_vars

\* Fairness: a program goes on with what it began, and the application is started again
\* and again, by its launcher.
FairSpec ==
  /\ Spec /\ \A p \in Procs : WF_vars(Working(p))
  /\ \A r \in Roots : SF_vars(Starting(r))

\* Nobody starts the application; the installer is run again and again.
RerunSpec ==
  /\ Spec /\ \A p \in Procs : WF_vars(Working(p))
  /\ \A r \in Roots : SF_vars(\E p \in Procs : Begin(p, r, 0, FALSE))

---------------------------------------------------------------------------
(* What the installer and its entry promise.                               *)

\* Every variable has its type.
TypeOK ==
  /\ head \in Versions /\ live \in [Roots -> Versions] /\ state \in [Roots -> Versions]
  /\ open \subseteq Roots /\ meta \subseteq Roots /\ secure \subseteq Roots
  /\ manifest \in [Roots -> SUBSET Scopes]
  /\ entry \in [Scopes -> [owner : Roots \cup {"absent", "foreign", "none"}, version : Versions]]
  /\ proc \in [Procs -> [pc : {"idle", "resolve", "apply", "commit", "report", "claim", "record",
                               "write", "refresh", "unregister"},
                         root : Roots, pin : Versions, down : BOOLEAN, existing : Versions,
                         from : Versions, to : Versions, scope : Scopes, todo : SUBSET Scopes]]
  /\ orphaned \subseteq Scopes
  /\ events \in 0..MaxEvents /\ faults \in 0..MaxFaults

\* RegisterUninstallEntry and Unregister: the entry of a root that is still there is on the
\* root's record, whatever was interrupted, so an uninstall finds it, unless somebody
\* deleted the record with an earlier root of that name.
EntryKnown ==
  \A s \in Scopes, r \in meta : entry[s].owner = r => s \in manifest[r] \/ s \in orphaned

\* claim and owns: "Nothing is removed that idunn did not write for this root": another
\* program's entry is never touched, and a root's entry only for that root, by a tool that
\* is not idunn's, or once the root is gone.
OthersKept ==
  [][\A s \in Scopes : entry'[s] # entry[s] =>
       /\ entry[s] # Foreign
       /\ entry[s].owner \in Roots =>
            \/ Busy(entry[s].owner) \/ entry[s].owner \notin meta
            \/ events' < events]_vars

\* doInstall: the installer reports success only for an install that is committed, the
\* pointer and the record agreeing on it, and on the list under this root's name.
SuccessMeansInstalled ==
  [][\A p \in Procs : WriteKey(p) =>
       LET r == proc[p].root
       IN  /\ live[r] # 0 /\ live[r] = state[r] /\ r \notin open
           /\ entry'[proc[p].scope].owner = r /\ proc[p].scope \in manifest[r]]_vars

\* Refresh: an entry that says another version than the one that is live, after an update,
\* a downgrade or a crash between the two, is brought in line by a later start.
EntryCatchesUp ==
  \A r \in Roots, s \in Scopes :
    (s \in manifest[r] /\ entry[s].owner = r /\ live[r] # 0 /\ entry[s].version # live[r])
      ~> (s \notin manifest[r] \/ entry[s].owner # r \/ live[r] = 0 \/ entry[s].version = live[r])

\* integrate.go: "the other order could leave an entry nothing knows to remove"; this one
\* leaves none either: whatever is under the application's name is another program's or has
\* an owner.
EntryRemovable == \A s \in Scopes : entry[s].owner # "none"

\* An install that was interrupted after its swap is settled by running the installer again,
\* as by the next start.
RerunSettles == \A r \in Roots : r \in open ~> r \notin open
=============================================================================
