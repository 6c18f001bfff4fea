---------------------------- MODULE SetupProofs ----------------------------
(***************************************************************************)
(* The safety properties of Setup, for any number of roots, versions,      *)
(* events and faults, and for any number of programs where that is so.     *)
(*                                                                         *)
(* An installer reads the install back before it claims the entry, claims  *)
(* it before it records it and records it before it writes it, and while   *)
(* it does the application may update itself and others may work on other  *)
(* roots.  Doing says what a program still stands on at each step; the     *)
(* pointer and the recorded version differ exactly where a swap is open.   *)
(***************************************************************************)
EXTENDS Setup, TLAPS

ProcType == [pc : {"idle", "resolve", "apply", "commit", "report", "claim", "record",
                   "write", "refresh", "unregister"},
             root : Roots, pin : Versions, down : BOOLEAN, existing : Versions,
             from : Versions, to : Versions, scope : Scopes, todo : SUBSET Scopes]
EntryType == [owner : Roots \cup {"absent", "foreign", "none"}, version : Versions]

\* TypeOK but for the programs.
TypeRest ==
  /\ head \in Versions /\ live \in [Roots -> Versions] /\ state \in [Roots -> Versions]
  /\ open \subseteq Roots /\ meta \subseteq Roots /\ secure \subseteq Roots
  /\ manifest \in [Roots -> SUBSET Scopes] /\ entry \in [Scopes -> EntryType]
  /\ orphaned \subseteq Scopes
  /\ events \in 0..MaxEvents /\ faults \in 0..MaxFaults

\* One program at a time works on a root.
OnePerRoot ==
  \A p, q \in Procs :
    ~At(p, "idle") /\ ~At(q, "idle") /\ proc[p].root = proc[q].root => p = q

\* Every entry that names a root is on that root's record, or outlived it.
Recorded ==
  \A s \in Scopes, r \in Roots : entry[s].owner = r => s \in manifest[r] \/ s \in orphaned

\* The pointer and the recorded version differ while a swap is not committed, and only then.
OpenDiffers == head # 0 /\ \A r \in Roots : r \in open <=> live[r] # state[r]

\* What a program whose record is c stands on.
Doing(c) ==
  /\ c.pc = "apply" => c.from # c.to
  /\ c.pc = "commit" => state[c.root] = c.from
  /\ c.pc \in {"claim", "record", "write"} => live[c.root] # 0 /\ c.root \notin open
  /\ c.pc = "write" => c.scope \in manifest[c.root]

Inv ==
  /\ TypeRest /\ proc \in [Procs -> ProcType]
  /\ OnePerRoot /\ Recorded /\ OpenDiffers /\ \A p \in Procs : Doing(proc[p])

---------------------------------------------------------------------------
(* Steps of a program.                                                     *)

LEMMA IdleType == Idle \in ProcType /\ Idle.pc = "idle"
<1>1. (CHOOSE r \in Roots : TRUE) \in Roots /\ 0 \in Versions /\ "user" \in Scopes
  BY SetupAssumption DEF Versions, Scopes
<1>2. QED
  BY <1>1 DEF Idle, ProcType

LEMMA CountTypes ==
  ASSUME TypeRest
  PROVE  /\ Fault => faults' \in 0..MaxFaults
         /\ Event => events' \in 0..MaxEvents
  BY SetupAssumption DEF TypeRest, Fault, Event

\* Program p works, or begins to work, on root r and touches no other root.
LEMMA ProcStep ==
  ASSUME Inv, NEW p \in Procs, NEW r \in Roots,
         (~At(p, "idle") /\ proc[p].root = r) \/ MayStart(p, r),
         NEW d \in ProcType, proc' = [proc EXCEPT ![p] = d],
         d.pc # "idle" => d.root = r, Doing(d)',
         \A x \in Roots : x # r => /\ live'[x] = live[x] /\ state'[x] = state[x]
                                   /\ manifest'[x] = manifest[x] /\ (x \in open' <=> x \in open),
         TypeRest', Recorded', OpenDiffers'
  PROVE  Inv'
<1>1. proc' \in [Procs -> ProcType] /\ \A q \in Procs : proc'[q] = IF q = p THEN d ELSE proc[q]
  BY DEF Inv
<1>2. \A q \in Procs : q # p /\ ~At(q, "idle") => proc[q].root # r
  BY DEF Inv, OnePerRoot, MayStart, Busy
<1>3. OnePerRoot'
  <2> SUFFICES ASSUME NEW a \in Procs, NEW b \in Procs,
                      proc'[a].pc # "idle", proc'[b].pc # "idle", proc'[a].root = proc'[b].root
               PROVE  a = b
    BY DEF OnePerRoot, At
  <2>1. CASE a = p \/ b = p
    BY <1>1, <1>2, <2>1 DEF At
  <2>2. CASE a # p /\ b # p
    BY <1>1, <2>2 DEF Inv, OnePerRoot, At
  <2>3. QED
    BY <2>1, <2>2
<1>4. \A q \in Procs : Doing(proc[q])'
  <2> SUFFICES ASSUME NEW q \in Procs, q # p PROVE Doing(proc[q])'
    BY <1>1
  <2>1. proc'[q] = proc[q] /\ Doing(proc[q]) /\ proc[q].root \in Roots
    BY <1>1 DEF Inv, ProcType
  <2>2. CASE proc[q].pc = "idle"
    BY <2>1, <2>2 DEF Doing
  <2>3. CASE proc[q].pc # "idle"
    <3>1. proc[q].root # r
      BY <1>2, <2>3 DEF At
    <3>2. QED
      BY <2>1, <3>1 DEF Doing
  <2>4. QED
    BY <2>2, <2>3
<1>5. QED
  BY <1>1, <1>3, <1>4 DEF Inv

\* A step that moves the program on and changes nothing else but counters.
LEMMA QuietStep ==
  ASSUME Inv, NEW p \in Procs, NEW r \in Roots,
         (~At(p, "idle") /\ proc[p].root = r) \/ MayStart(p, r),
         NEW d \in ProcType, proc' = [proc EXCEPT ![p] = d],
         d.pc # "idle" => d.root = r, Doing(d),
         UNCHANGED <<head, secure, tree, manifest, entry, orphaned>>,
         events' \in 0..MaxEvents, faults' \in 0..MaxFaults
  PROVE  Inv'
<1>1. Doing(d)'
  BY DEF Doing, tree
<1>2. TypeRest' /\ Recorded' /\ OpenDiffers'
  BY DEF Inv, TypeRest, Recorded, OpenDiffers, tree
<1>3. QED
  BY <1>1, <1>2, ProcStep DEF tree

\* A program ends.
LEMMA EndRecord ==
  ASSUME NEW p \in Procs, End(p)
  PROVE  proc' = [proc EXCEPT ![p] = Idle] /\ Idle \in ProcType /\ Idle.pc = "idle" /\ Doing(Idle)
  BY IdleType DEF End, Put, Doing

LEMMA EndStep ==
  ASSUME Inv, NEW p \in Procs, ~At(p, "idle"), End(p),
         UNCHANGED <<head, secure, tree, manifest, entry, orphaned>>,
         events' \in 0..MaxEvents, faults' \in 0..MaxFaults
  PROVE  Inv'
<1>1. proc[p].root \in Roots
  BY DEF Inv, ProcType
<1>2. QED
  BY <1>1, EndRecord, QuietStep

\* Going on to step l.
LEMMA GotoRecord ==
  ASSUME Inv, NEW p \in Procs,
         NEW l \in {"commit", "report", "claim", "write"}, Goto(p, l)
  PROVE  \E d \in ProcType :
           /\ proc' = [proc EXCEPT ![p] = d] /\ d.pc = l /\ d.root = proc[p].root
           /\ d.from = proc[p].from /\ d.to = proc[p].to /\ d.scope = proc[p].scope
<1> DEFINE d == [proc[p] EXCEPT !.pc = l]
<1>1. proc[p] \in ProcType
  BY DEF Inv
<1>2. d \in ProcType /\ d.pc = l
  BY <1>1 DEF ProcType
<1>3. proc' = [proc EXCEPT ![p] = d]
  BY DEF Goto, Inv
<1>4. QED
  BY <1>1, <1>2, <1>3 DEF ProcType

LEMMA BeginStep ==
  ASSUME Inv, NEW p \in Procs, NEW r \in Roots, NEW pin \in 0..(head - 1), NEW down \in BOOLEAN,
         Begin(p, r, pin, down)
  PROVE  Inv'
<1> DEFINE d == [Idle EXCEPT !.pc = "resolve", !.root = r, !.pin = pin, !.down = down,
                             !.existing = preflightState(r)]
<1>1. pin \in Versions /\ state[r] \in Versions /\ events \in 0..MaxEvents /\ faults \in 0..MaxFaults
  BY SetupAssumption DEF Inv, TypeRest, Versions
<1>2. d \in ProcType /\ d.pc = "resolve" /\ d.root = r
  BY <1>1, IdleType DEF ProcType, preflightState, Idle
<1>3. proc' = [proc EXCEPT ![p] = d] /\ MayStart(p, r)
      /\ UNCHANGED <<head, secure, tree, manifest, entry, orphaned, events, faults>>
  BY DEF Begin, Put, world
<1>4. Doing(d)
  BY <1>2 DEF Doing
<1>5. QED
  BY <1>1, <1>2, <1>3, <1>4, QuietStep

LEMMA ResolveStep == ASSUME Inv, NEW p \in Procs, Resolve(p) PROVE Inv'
<1> DEFINE q == proc[p]
           target == IF q.pin = 0 THEN head ELSE q.pin
<1>1. q \in ProcType /\ q.root \in Roots /\ target \in Versions /\ live[q.root] \in Versions /\ q.pc = "resolve"
      /\ events \in 0..MaxEvents /\ faults \in 0..MaxFaults /\ ~At(p, "idle")
  BY DEF Inv, TypeRest, ProcType, Resolve, At
<1>2. UNCHANGED <<head, secure, tree, manifest, entry, orphaned, events, faults>>
  BY DEF Resolve, world
<1>3. CASE Goto(p, "report")
  <2>1. PICK d \in ProcType : proc' = [proc EXCEPT ![p] = d] /\ d.pc = "report" /\ d.root = q.root
    BY <1>3, GotoRecord
  <2>2. Doing(d)
    BY <2>1 DEF Doing
  <2>3. QED
    BY <1>1, <1>2, <2>1, <2>2, QuietStep
<1>4. CASE End(p)
  BY <1>1, <1>2, <1>4, EndStep
<1>5. CASE /\ live[q.root] # target
           /\ Put(p, [q EXCEPT !.pc = "apply", !.from = live[q.root], !.to = target])
  <2> DEFINE d == [q EXCEPT !.pc = "apply", !.from = live[q.root], !.to = target]
  <2> HIDE DEF target
  <2>1. d \in ProcType /\ d.pc = "apply" /\ d.root = q.root /\ d.from = live[q.root] /\ d.to = target
    BY <1>1 DEF ProcType
  <2>2. Doing(d)
    BY <1>5, <2>1 DEF Doing
  <2>3. proc' = [proc EXCEPT ![p] = d]
    BY <1>5 DEF Put
  <2>4. QED
    BY <1>1, <1>2, <2>1, <2>2, <2>3, QuietStep
<1>6. QED
  BY <1>3, <1>4, <1>5 DEF Resolve

\* What recovery leaves of root r: the pointer and the record agree.
LEMMA SettledType ==
  ASSUME Inv, NEW r \in Roots
  PROVE  /\ Settled(r) \in [Roots -> Versions] /\ Settled(r)[r] = live[r]
         /\ \A x \in Roots : x # r => Settled(r)[x] = state[x]
  BY DEF Inv, TypeRest, Settled, OpenDiffers

LEMMA ApplyStep == ASSUME Inv, NEW p \in Procs, Apply(p) PROVE Inv'
<1> DEFINE q == proc[p]
           r == q.root
<1>1. q \in ProcType /\ r \in Roots /\ q.to \in Versions /\ q.pc = "apply" /\ q.from # q.to /\ ~At(p, "idle")
  BY DEF Inv, ProcType, Apply, At, Doing
<1>2. UNCHANGED <<head, secure, manifest, entry, orphaned, events, faults>> /\ state' = Settled(r)
  BY DEF Apply, world
<1>3. CASE End(p) /\ open' = open \ {r} /\ UNCHANGED <<live, meta>>
  <2>1. TypeRest'
    BY <1>1, <1>2, <1>3, SettledType DEF Inv, TypeRest
  <2>2. Recorded'
    BY <1>2 DEF Inv, Recorded
  <2>3. OpenDiffers'
    BY <1>1, <1>2, <1>3, SettledType DEF Inv, OpenDiffers
  <2>4. Idle \in ProcType /\ Idle.pc = "idle" /\ proc' = [proc EXCEPT ![p] = Idle]
    BY <1>3, EndRecord
  <2>5. PICK d \in ProcType : d.pc = "idle" /\ proc' = [proc EXCEPT ![p] = d]
    BY <2>4
  <2>6. Doing(d)'
    BY <2>5 DEF Doing
  <2>7. QED
    BY <1>1, <1>2, <1>3, <2>1, <2>2, <2>3, <2>5, <2>6, SettledType, ProcStep
<1>4. CASE /\ live[r] = q.from /\ live' = [live EXCEPT ![r] = q.to]
           /\ open' = open \cup {r} /\ meta' = meta \cup {r}
           /\ Goto(p, "commit")
  <2>1. live' \in [Roots -> Versions] /\ \A x \in Roots : live'[x] = IF x = r THEN q.to ELSE live[x]
    BY <1>1, <1>4 DEF Inv, TypeRest
  <2>2. TypeRest'
    BY <1>1, <1>2, <1>4, <2>1, SettledType DEF Inv, TypeRest
  <2>3. Recorded'
    BY <1>2 DEF Inv, Recorded
  <2>4. OpenDiffers'
    <3> DEFINE S == Settled(r)
    <3>1. S[r] = live[r] /\ \A x \in Roots : x # r => S[x] = state[x]
      BY <1>1, SettledType
    <3> HIDE DEF S
    <3>2. state' = S
      BY <1>2 DEF S
    <3>3. QED
      BY <1>1, <1>2, <1>4, <2>1, <3>1, <3>2 DEF Inv, OpenDiffers
  <2>5. PICK d \in ProcType :
          proc' = [proc EXCEPT ![p] = d] /\ d.pc = "commit" /\ d.root = r /\ d.from = q.from
    BY <1>4, GotoRecord
  <2>6. Doing(d)'
    BY <1>1, <1>2, <1>4, <2>5, SettledType DEF Doing
  <2>7. \A x \in Roots : x # r => /\ live'[x] = live[x] /\ state'[x] = state[x]
                                  /\ manifest'[x] = manifest[x] /\ (x \in open' <=> x \in open)
    BY <1>1, <1>2, <1>4, <2>1, SettledType
  <2>8. QED
    BY <1>1, <2>2, <2>3, <2>4, <2>5, <2>6, <2>7, ProcStep
<1>5. QED
  BY <1>3, <1>4 DEF Apply

LEMMA CommitStep == ASSUME Inv, NEW p \in Procs, Commit(p) PROVE Inv'
<1> DEFINE r == proc[p].root
<1>1. r \in Roots /\ live[r] \in Versions /\ ~At(p, "idle")
  BY DEF Inv, TypeRest, ProcType, Commit, At
<1>2. UNCHANGED <<head, secure, live, meta, manifest, entry, orphaned, events, faults>> /\ open' = open \ {r}
      /\ state' = [state EXCEPT ![r] = live[r]]
  BY DEF Commit, world
<1>3. state' \in [Roots -> Versions] /\ \A x \in Roots : state'[x] = IF x = r THEN live[r] ELSE state[x]
  BY <1>1, <1>2 DEF Inv, TypeRest
<1>4. TypeRest' /\ Recorded' /\ OpenDiffers'
  BY <1>1, <1>2, <1>3 DEF Inv, TypeRest, Recorded, OpenDiffers
<1>5. PICK d \in ProcType : proc' = [proc EXCEPT ![p] = d] /\ d.pc = "report" /\ d.root = r
  BY GotoRecord DEF Commit
<1>6. Doing(d)'
  BY <1>5 DEF Doing
<1>7. QED
  BY <1>1, <1>2, <1>3, <1>4, <1>5, <1>6, ProcStep

LEMMA FailApplyStep == ASSUME Inv, NEW p \in Procs, FailApply(p) PROVE Inv'
<1> DEFINE r == proc[p].root
<1>1. r \in Roots /\ proc[p].from \in Versions /\ ~At(p, "idle") /\ faults' \in 0..MaxFaults
      /\ UNCHANGED <<head, secure, state, meta, manifest, entry, orphaned, events>> /\ End(p)
      /\ events \in 0..MaxEvents
  BY CountTypes DEF Inv, TypeRest, ProcType, FailApply, At, world
<1>2. CASE UNCHANGED <<live, open>>
  BY <1>1, <1>2, EndStep DEF tree
<1>3. CASE At(p, "commit") /\ live' = [live EXCEPT ![r] = proc[p].from] /\ open' = open \ {r}
  <2>1. /\ live' \in [Roots -> Versions]
        /\ \A x \in Roots : live'[x] = IF x = r THEN proc[p].from ELSE live[x]
    BY <1>1, <1>3 DEF Inv, TypeRest
  <2>2. state[r] = proc[p].from
    BY <1>3 DEF Inv, Doing, At
  <2>3. TypeRest' /\ Recorded' /\ OpenDiffers'
    BY <1>1, <1>3, <2>1, <2>2 DEF Inv, TypeRest, Recorded, OpenDiffers
  <2>4. PICK d \in ProcType : d.pc = "idle" /\ proc' = [proc EXCEPT ![p] = d]
    BY <1>1, EndRecord
  <2>5. Doing(d)'
    BY <2>4 DEF Doing
  <2>6. QED
    BY <1>1, <1>3, <2>1, <2>3, <2>4, <2>5, ProcStep
<1>4. QED
  BY <1>2, <1>3 DEF FailApply

LEMMA ReportStep == ASSUME Inv, NEW p \in Procs, Report(p) PROVE Inv'
<1> DEFINE r == proc[p].root
<1>1. r \in Roots /\ ~At(p, "idle") /\ events \in 0..MaxEvents /\ faults \in 0..MaxFaults
      /\ UNCHANGED <<head, secure, tree, manifest, entry, orphaned, events, faults>>
  BY DEF Inv, TypeRest, ProcType, Report, At, world
<1>2. CASE InstalledVersion(r) /\ Goto(p, "claim")
  <2>1. PICK d \in ProcType : proc' = [proc EXCEPT ![p] = d] /\ d.pc = "claim" /\ d.root = r
    BY <1>2, GotoRecord
  <2>2. Doing(d)
    BY <1>1, <1>2, <2>1 DEF Doing, Inv, OpenDiffers, InstalledVersion
  <2>3. QED
    BY <1>1, <2>1, <2>2, QuietStep
<1>3. CASE End(p)
  BY <1>1, <1>3, EndStep
<1>4. QED
  BY <1>2, <1>3 DEF Report

LEMMA ClaimStep == ASSUME Inv, NEW p \in Procs, Claim(p) PROVE Inv'
<1> DEFINE r == proc[p].root
           s == IF r \in secure THEN "machine" ELSE "user"
<1>1. r \in Roots /\ ~At(p, "idle") /\ events \in 0..MaxEvents /\ faults \in 0..MaxFaults
      /\ UNCHANGED <<head, secure, tree, manifest, entry, orphaned, events, faults>>
      /\ proc[p] \in ProcType /\ Doing(proc[p]) /\ proc[p].pc = "claim" /\ live[r] \in Versions /\ s \in Scopes
  BY DEF Inv, TypeRest, ProcType, Claim, At, world, Scopes
<1>2. CASE Put(p, [proc[p] EXCEPT !.pc = "record", !.scope = s, !.to = live[r]])
  <2> DEFINE d == [proc[p] EXCEPT !.pc = "record", !.scope = s, !.to = live[r]]
  <2> HIDE DEF s
  <2>1. d \in ProcType /\ d.pc = "record" /\ d.root = r
    BY <1>1 DEF ProcType
  <2>2. Doing(d)
    BY <1>1, <2>1 DEF Doing
  <2>3. QED
    BY <1>1, <1>2, <2>1, <2>2, QuietStep DEF Put
<1>3. CASE End(p)
  BY <1>1, <1>3, EndStep
<1>4. QED
  BY <1>2, <1>3 DEF Claim

LEMMA RecordStep == ASSUME Inv, NEW p \in Procs, Record(p) PROVE Inv'
<1> DEFINE r == proc[p].root
           s == proc[p].scope
<1>1. r \in Roots /\ s \in Scopes /\ ~At(p, "idle") /\ faults' \in 0..MaxFaults
      /\ UNCHANGED <<head, secure, tree, entry, orphaned, events>> /\ events \in 0..MaxEvents
      /\ proc[p] \in ProcType /\ Doing(proc[p]) /\ proc[p].pc = "record"
  BY CountTypes DEF Inv, TypeRest, ProcType, Record, At, world
<1>2. CASE manifest' = [manifest EXCEPT ![r] = manifest[r] \cup {s}] /\ Goto(p, "write")
  <2>1. /\ manifest' \in [Roots -> SUBSET Scopes]
        /\ \A x \in Roots : manifest'[x] = IF x = r THEN manifest[r] \cup {s} ELSE manifest[x]
    BY <1>1, <1>2 DEF Inv, TypeRest
  <2>2. TypeRest' /\ Recorded' /\ OpenDiffers'
    BY <1>1, <2>1 DEF Inv, TypeRest, Recorded, OpenDiffers, tree
  <2>3. PICK d \in ProcType : proc' = [proc EXCEPT ![p] = d] /\ d.pc = "write" /\ d.root = r /\ d.scope = s
    BY <1>2, GotoRecord
  <2>4. Doing(d)'
    BY <1>1, <2>1, <2>3 DEF Doing, tree
  <2>5. QED
    BY <1>1, <2>1, <2>2, <2>3, <2>4, ProcStep DEF tree
<1>3. CASE End(p) /\ UNCHANGED manifest
  BY <1>1, <1>3, EndStep
<1>4. QED
  BY <1>2, <1>3 DEF Record, writeManifest, readManifest

\* A program writes its root's entry, or part of it: the record is there already.
LEMMA EntryStep ==
  ASSUME Inv, NEW p \in Procs, At(p, "write"), End(p), NEW e \in EntryType,
         entry' = [entry EXCEPT ![proc[p].scope] = e],
         \/ e.owner = proc[p].root /\ orphaned' = orphaned \ {proc[p].scope}
         \/ e.owner \in {entry[proc[p].scope].owner, "none"} /\ orphaned' = orphaned,
         UNCHANGED <<head, secure, tree, manifest>>, events' \in 0..MaxEvents, faults' \in 0..MaxFaults
  PROVE  Inv'
<1> DEFINE r == proc[p].root
           s == proc[p].scope
<1>1. r \in Roots /\ s \in Scopes /\ s \in manifest[r]
  BY DEF Inv, ProcType, At, Doing
<1>2. entry' \in [Scopes -> EntryType] /\ \A t \in Scopes : entry'[t] = IF t = s THEN e ELSE entry[t]
  BY <1>1 DEF Inv, TypeRest
<1>3. TypeRest' /\ OpenDiffers'
  BY <1>2 DEF Inv, TypeRest, OpenDiffers, tree
<1>4. Recorded'
  <2> SUFFICES ASSUME NEW t \in Scopes, NEW x \in Roots, entry'[t].owner = x
               PROVE  t \in manifest[x] \/ t \in orphaned'
    BY DEF Recorded
  <2>1. CASE t # s
    BY <1>2, <2>1 DEF Inv, Recorded
  <2>2. CASE t = s /\ e.owner = r
    BY <1>1, <1>2, <2>2
  <2>3. CASE t = s /\ e.owner \in {entry[s].owner, "none"} /\ orphaned' = orphaned
    BY <1>1, <1>2, <2>3, SetupAssumption DEF Inv, Recorded
  <2>4. QED
    BY <2>1, <2>2, <2>3
<1>5. PICK d \in ProcType : d.pc = "idle" /\ proc' = [proc EXCEPT ![p] = d]
  BY EndRecord
<1>6. Doing(d)'
  BY <1>5 DEF Doing
<1>7. QED
  BY <1>1, <1>3, <1>4, <1>5, <1>6, ProcStep DEF At, tree

LEMMA WriteKeyStep == ASSUME Inv, NEW p \in Procs, WriteKey(p) PROVE Inv'
<1> DEFINE e == values(proc[p].root, proc[p].to)
<1>1. proc[p] \in ProcType /\ events \in 0..MaxEvents /\ faults \in 0..MaxFaults
  BY DEF Inv, TypeRest
<1>2. e \in EntryType /\ e.owner = proc[p].root
  BY <1>1 DEF EntryType, ProcType, values
<1>3. QED
  BY <1>1, <1>2, EntryStep DEF WriteKey, world

LEMMA TornWriteStep == ASSUME Inv, NEW p \in Procs, TornWrite(p) PROVE Inv'
<1> DEFINE q == proc[p]
           k == entry[q.scope]
<1>1. q \in ProcType /\ k \in EntryType /\ events \in 0..MaxEvents /\ faults' \in 0..MaxFaults
  BY CountTypes DEF Inv, TypeRest, ProcType, TornWrite
<1>2. PICK o \in {k.owner, q.root}, v \in {k.version, q.to} :
        /\ entry' = [entry EXCEPT ![q.scope] =
                       [owner |-> IF o = "absent" THEN "none" ELSE o, version |-> v]]
        /\ orphaned' = IF o = q.root THEN orphaned \ {q.scope} ELSE orphaned
  BY DEF TornWrite, ReadKey
<1> DEFINE e == [owner |-> IF o = "absent" THEN "none" ELSE o, version |-> v]
<1>3. e \in EntryType
  BY <1>1 DEF EntryType, ProcType
<1>4. q.root # "absent"
  BY <1>1, SetupAssumption DEF ProcType
<1>5. \/ e.owner = q.root /\ orphaned' = orphaned \ {q.scope}
      \/ e.owner \in {k.owner, "none"} /\ orphaned' = orphaned
  BY <1>2, <1>4
<1>6. QED
  BY <1>1, <1>2, <1>3, <1>5, EntryStep DEF TornWrite, world

LEMMA LaunchStep == ASSUME Inv, NEW p \in Procs, NEW r \in Roots, Launch(p, r) PROVE Inv'
<1> DEFINE e == [Idle EXCEPT !.pc = "refresh", !.root = r, !.to = live[r], !.todo = readManifest(r)]
<1>1. live[r] \in Versions /\ manifest[r] \in SUBSET Scopes
  BY DEF Inv, TypeRest
<1>2. e \in ProcType /\ e.pc = "refresh" /\ e.root = r
  BY <1>1, IdleType DEF ProcType, Idle, readManifest
<1>3. PICK d \in ProcType : d.pc = "refresh" /\ d.root = r /\ proc' = [proc EXCEPT ![p] = d]
  BY <1>2 DEF Launch, Put
<1>4. MayStart(p, r) /\ UNCHANGED <<head, secure, live, meta, manifest, entry, orphaned, events, faults>>
      /\ state' = Settled(r) /\ open' = open \ {r}
  BY DEF Launch, world
<1>5. TypeRest'
  BY <1>4, SettledType DEF Inv, TypeRest
<1>6. Recorded'
  BY <1>4 DEF Inv, Recorded
<1>7. OpenDiffers'
  BY <1>4, SettledType DEF Inv, OpenDiffers
<1>8. Doing(d)'
  BY <1>3 DEF Doing
<1>9. \A x \in Roots : x # r => /\ live'[x] = live[x] /\ state'[x] = state[x]
                                /\ manifest'[x] = manifest[x] /\ (x \in open' <=> x \in open)
  BY <1>4, SettledType
<1>10. QED
  BY <1>3, <1>4, <1>5, <1>6, <1>7, <1>8, <1>9, ProcStep

LEMMA RefreshStep == ASSUME Inv, NEW p \in Procs, NEW s \in Scopes, Refresh(p, s) PROVE Inv'
<1> DEFINE q == proc[p]
           e == [q EXCEPT !.todo = q.todo \ {s}]
<1>1. q \in ProcType /\ q.root \in Roots /\ q.to \in Versions /\ ~At(p, "idle") /\ q.pc = "refresh"
      /\ UNCHANGED <<head, secure, tree, manifest, orphaned, events>> /\ faults' \in 0..MaxFaults
  BY CountTypes DEF Inv, TypeRest, ProcType, Refresh, At, world
<1>2. entry' \in [Scopes -> EntryType] /\ \A t \in Scopes : entry'[t].owner = entry[t].owner
  <2>1. \/ entry' = entry
        \/ entry[s].owner = q.root /\ entry' = [entry EXCEPT ![s] = values(q.root, q.to)]
    BY DEF Refresh, owns, ReadKey
  <2>2. values(q.root, q.to) \in EntryType /\ values(q.root, q.to).owner = q.root
    BY <1>1 DEF values, EntryType
  <2>3. QED
    BY <2>1, <2>2 DEF Inv, TypeRest
<1>3. TypeRest' /\ OpenDiffers'
  BY <1>1, <1>2 DEF Inv, TypeRest, OpenDiffers, tree
<1>4. Recorded'
  BY <1>1, <1>2 DEF Inv, Recorded
<1>5. e \in ProcType /\ e.pc = "refresh" /\ e.root = q.root
  BY <1>1 DEF ProcType
<1>6. PICK d \in ProcType : d.pc = "refresh" /\ d.root = q.root /\ proc' = [proc EXCEPT ![p] = d]
  BY <1>5 DEF Refresh, Put
<1>7. Doing(d)'
  BY <1>6 DEF Doing
<1>8. QED
  BY <1>1, <1>3, <1>4, <1>6, <1>7, ProcStep DEF tree

LEMMA RefreshDoneStep == ASSUME Inv, NEW p \in Procs, RefreshDone(p) PROVE Inv'
  BY EndStep DEF RefreshDone, At, world, Inv, TypeRest

LEMMA CrashStep == ASSUME Inv, NEW p \in Procs, Crash(p) PROVE Inv'
<1>1. events' \in 0..MaxEvents /\ faults' \in 0..MaxFaults
  BY CountTypes DEF Inv, TypeRest, Crash, world
<1>2. QED
  BY <1>1, EndStep DEF Crash, world

LEMMA UnregisterStep == ASSUME Inv, NEW p \in Procs, NEW r \in Roots, Unregister(p, r) PROVE Inv'
<1> DEFINE d == [Idle EXCEPT !.pc = "unregister", !.root = r]
<1>1. d \in ProcType /\ d.pc = "unregister" /\ d.root = r
  BY IdleType DEF ProcType, Idle
<1>2. Doing(d)
  BY <1>1 DEF Doing
<1>3. events' \in 0..MaxEvents /\ faults' \in 0..MaxFaults
  BY CountTypes DEF Inv, TypeRest, Unregister
<1>4. QED
  BY <1>1, <1>2, <1>3, QuietStep DEF Unregister, Put

\* The rest of what an uninstaller does, on its own root.
LEMMA DeleteKeyStep == ASSUME Inv, NEW p \in Procs, NEW s \in Scopes, DeleteKey(p, s) PROVE Inv'
<1>1. ~At(p, "idle") /\ faults' \in 0..MaxFaults /\ events' \in 0..MaxEvents
      /\ UNCHANGED <<head, secure, tree, manifest, orphaned, events>>
  BY CountTypes DEF Inv, TypeRest, DeleteKey, At, world
<1>2. CASE End(p) /\ UNCHANGED entry
  BY <1>1, <1>2, EndStep
<1>3. CASE entry' = [entry EXCEPT ![s] = Absent] /\ UNCHANGED proc
  <2>1. Absent \in EntryType /\ Absent.owner \notin Roots
    BY SetupAssumption DEF Absent, EntryType, Versions
  <2>2. entry' \in [Scopes -> EntryType] /\ \A t \in Scopes : entry'[t] = IF t = s THEN Absent ELSE entry[t]
    BY <1>3, <2>1 DEF Inv, TypeRest
  <2>3. TypeRest' /\ OpenDiffers'
    BY <1>1, <2>2 DEF Inv, TypeRest, OpenDiffers, tree
  <2>4. Recorded'
    BY <1>1, <2>1, <2>2 DEF Inv, Recorded
  <2>5. OnePerRoot' /\ \A q \in Procs : Doing(proc[q])'
    BY <1>1, <1>3 DEF Inv, OnePerRoot, At, Doing, tree
  <2>6. QED
    BY <1>3, <2>3, <2>4, <2>5 DEF Inv
<1>4. QED
  BY <1>2, <1>3 DEF DeleteKey

LEMMA DropRecordStep == ASSUME Inv, NEW p \in Procs, NEW s \in Scopes, DropRecord(p, s) PROVE Inv'
<1> DEFINE r == proc[p].root
<1>1. ~At(p, "idle") /\ r \in Roots /\ entry[s].owner # r /\ proc[p] \in ProcType /\ proc[p].pc = "unregister"
      /\ UNCHANGED <<head, secure, tree, entry, proc, orphaned, events, faults>>
      /\ manifest' = [manifest EXCEPT ![r] = manifest[r] \ {s}]
  BY DEF Inv, ProcType, DropRecord, At, world, gone, owns, ReadKey, writeManifest, readManifest
<1>2. /\ manifest' \in [Roots -> SUBSET Scopes]
      /\ \A x \in Roots : manifest'[x] = IF x = r THEN manifest[r] \ {s} ELSE manifest[x]
  BY <1>1 DEF Inv, TypeRest
<1>3. TypeRest' /\ OpenDiffers'
  BY <1>1, <1>2 DEF Inv, TypeRest, OpenDiffers, tree
<1>4. Recorded'
  BY <1>1, <1>2 DEF Inv, Recorded
<1>5. PICK d \in ProcType : d = proc[p]
  BY <1>1
<1>6. proc' = [proc EXCEPT ![p] = d]
  BY <1>1, <1>5 DEF Inv
<1>7. Doing(d)'
  BY <1>1, <1>5 DEF Doing
<1>8. QED
  BY <1>1, <1>2, <1>3, <1>4, <1>5, <1>6, <1>7, ProcStep DEF tree

\* A root that goes, by its uninstaller or by hand, leaves no swap open.
LEMMA RootGone ==
  ASSUME Inv, NEW r \in Roots, live' = [live EXCEPT ![r] = 0], state' = [state EXCEPT ![r] = 0],
         open' = open \ {r}, head' = head
  PROVE  /\ live' \in [Roots -> Versions] /\ state' \in [Roots -> Versions] /\ OpenDiffers'
         /\ \A x \in Roots : x # r => /\ live'[x] = live[x] /\ state'[x] = state[x]
                                      /\ (x \in open' <=> x \in open)
<1>1. 0 \in Versions
  BY SetupAssumption DEF Versions
<1>2. QED
  BY <1>1 DEF Inv, TypeRest, OpenDiffers

LEMMA RemoveRootStep == ASSUME Inv, NEW p \in Procs, RemoveRoot(p) PROVE Inv'
<1> DEFINE r == proc[p].root
<1>1. ~At(p, "idle") /\ r \in Roots /\ End(p)
      /\ UNCHANGED <<head, secure, manifest, entry, orphaned, events, faults>> /\ meta' = meta \ {r}
      /\ open' = open \ {r} /\ live' = [live EXCEPT ![r] = 0] /\ state' = [state EXCEPT ![r] = 0]
  BY DEF Inv, ProcType, RemoveRoot, At, world
<1>2. TypeRest'
  BY <1>1, RootGone DEF Inv, TypeRest
<1>3. Recorded'
  BY <1>1 DEF Inv, Recorded
<1>4. PICK d \in ProcType : d.pc = "idle" /\ proc' = [proc EXCEPT ![p] = d]
  BY <1>1, EndRecord
<1>5. Doing(d)'
  BY <1>4 DEF Doing
<1>6. QED
  BY <1>1, <1>2, <1>3, <1>4, <1>5, RootGone, ProcStep

---------------------------------------------------------------------------
(* The rest of the machine.                                                *)

\* Others change entries and counters; what a program stands on is not theirs.
LEMMA OutsideStep ==
  ASSUME Inv, UNCHANGED <<tree, manifest, proc, orphaned>>, TypeRest', head' # 0,
         \A t \in Scopes : entry'[t].owner \in {entry[t].owner, "absent", "foreign"}
  PROVE  Inv'
<1>1. OpenDiffers' /\ OnePerRoot'
  BY DEF Inv, OpenDiffers, OnePerRoot, At, tree
<1>2. Recorded'
  BY SetupAssumption DEF Inv, Recorded
<1>3. \A q \in Procs : Doing(proc[q])'
  BY DEF Inv, Doing, tree
<1>4. QED
  BY <1>1, <1>2, <1>3 DEF Inv

LEMMA OccupyStep == ASSUME Inv, NEW s \in Scopes, Occupy(s) \/ Cleanup(s) PROVE Inv'
<1>1. PICK e \in EntryType : e.owner \in {"absent", "foreign"} /\ entry' = [entry EXCEPT ![s] = e]
  BY SetupAssumption DEF Occupy, Cleanup, Absent, Foreign, EntryType, Versions
<1>2. entry' \in [Scopes -> EntryType] /\ \A t \in Scopes : entry'[t].owner \in {entry[t].owner, "absent", "foreign"}
  BY <1>1 DEF Inv, TypeRest
<1>3. UNCHANGED <<head, secure, tree, manifest, proc, faults, orphaned>> /\ events' \in 0..MaxEvents
  BY CountTypes DEF Occupy, Cleanup, Inv
<1>4. TypeRest' /\ head' # 0
  BY <1>2, <1>3 DEF Inv, TypeRest, OpenDiffers, tree
<1>5. QED
  BY <1>2, <1>3, <1>4, OutsideStep

LEMMA PublishStep == ASSUME Inv, Publish \/ \E r \in Roots : Secure(r) PROVE Inv'
<1>1. UNCHANGED <<tree, manifest, entry, proc, faults, orphaned>> /\ events' \in 0..MaxEvents
  BY CountTypes DEF Publish, Secure, Inv
<1>2. head' \in Versions /\ head' # 0 /\ secure' \subseteq Roots
  BY SetupAssumption DEF Publish, Secure, Inv, TypeRest, OpenDiffers, Versions
<1>3. TypeRest'
  BY <1>1, <1>2 DEF Inv, TypeRest, tree
<1>4. QED
  BY <1>1, <1>2, <1>3, OutsideStep

\* An update of the application leaves the pointer and the record agreeing.
LEMMA UpdateStep == ASSUME Inv, NEW r \in Roots, Update(r) PROVE Inv'
<1>1. UNCHANGED <<head, secure, meta, manifest, entry, proc, faults, orphaned>> /\ events' \in 0..MaxEvents
      /\ live' = [live EXCEPT ![r] = head] /\ state' = [state EXCEPT ![r] = head] /\ open' = open \ {r}
  BY CountTypes DEF Update, Inv
<1>2. /\ live' \in [Roots -> Versions] /\ state' \in [Roots -> Versions]
      /\ \A x \in Roots : /\ live'[x] = IF x = r THEN head ELSE live[x]
                          /\ state'[x] = IF x = r THEN head ELSE state[x]
  BY <1>1 DEF Inv, TypeRest
<1>3. TypeRest' /\ OpenDiffers' /\ Recorded' /\ OnePerRoot'
  BY <1>1, <1>2 DEF Inv, TypeRest, OpenDiffers, Recorded, OnePerRoot, At
<1>4. \A q \in Procs : Doing(proc[q])'
  <2> SUFFICES ASSUME NEW q \in Procs PROVE Doing(proc[q])'
    OBVIOUS
  <2>1. proc'[q] = proc[q] /\ Doing(proc[q]) /\ proc[q].root \in Roots /\ head # 0
        /\ (proc[q].root = r => proc[q].pc # "commit")
    BY <1>1 DEF Inv, OpenDiffers, ProcType, Update
  <2>2. QED
    BY <1>1, <1>2, <2>1 DEF Doing
<1>5. QED
  BY <1>1, <1>3, <1>4 DEF Inv

LEMMA DeleteRootStep == ASSUME Inv, NEW r \in Roots, DeleteRoot(r) PROVE Inv'
<1>1. UNCHANGED <<head, secure, entry, proc, faults>> /\ events' \in 0..MaxEvents /\ ~Busy(r)
      /\ open' = open \ {r} /\ live' = [live EXCEPT ![r] = 0] /\ state' = [state EXCEPT ![r] = 0]
      /\ meta' = meta \ {r} /\ manifest' = [manifest EXCEPT ![r] = {}]
      /\ orphaned' = orphaned \cup {s \in Scopes : entry[s].owner = r}
  BY CountTypes DEF DeleteRoot, Inv
<1>2. /\ manifest' \in [Roots -> SUBSET Scopes]
      /\ \A x \in Roots : manifest'[x] = IF x = r THEN {} ELSE manifest[x]
  BY <1>1 DEF Inv, TypeRest
<1>3. TypeRest'
  BY <1>1, <1>2, RootGone DEF Inv, TypeRest
<1>4. Recorded' /\ OnePerRoot'
  BY <1>1, <1>2 DEF Inv, Recorded, OnePerRoot, At
<1>5. \A q \in Procs : Doing(proc[q])'
  <2> SUFFICES ASSUME NEW q \in Procs PROVE Doing(proc[q])'
    OBVIOUS
  <2>1. proc'[q] = proc[q] /\ Doing(proc[q]) /\ proc[q].root \in Roots
        /\ (proc[q].pc # "idle" => proc[q].root # r)
    BY <1>1 DEF Inv, ProcType, Busy, At
  <2>2. CASE proc[q].pc = "idle"
    BY <2>1, <2>2 DEF Doing
  <2>3. CASE proc[q].pc # "idle"
    BY <1>1, <1>2, <2>1, <2>3, RootGone DEF Doing
  <2>4. QED
    BY <2>2, <2>3
<1>6. QED
  BY <1>1, <1>3, <1>4, <1>5, RootGone DEF Inv

LEMMA InitInv == Init => Inv
<1> SUFFICES ASSUME Init PROVE Inv
  OBVIOUS
<1>1. 0 \in Versions /\ 1 \in Versions
  BY SetupAssumption DEF Versions
<1>2. Absent \in EntryType /\ Absent.owner \notin Roots
  BY <1>1, SetupAssumption DEF Absent, EntryType
<1>3. TypeRest
  BY <1>1, <1>2, SetupAssumption DEF Init, TypeRest
<1>4. proc \in [Procs -> ProcType] /\ \A p \in Procs : proc[p] = Idle
  BY IdleType DEF Init
<1>5. OnePerRoot /\ \A p \in Procs : Doing(proc[p])
  BY <1>4, IdleType DEF OnePerRoot, At, Doing
<1>6. Recorded /\ OpenDiffers
  BY <1>2 DEF Init, Recorded, OpenDiffers
<1>7. QED
  BY <1>3, <1>4, <1>5, <1>6 DEF Inv

LEMMA InvStep == Inv /\ [Next]_vars => Inv'
<1> SUFFICES ASSUME Inv, [Next]_vars PROVE Inv'
  OBVIOUS
<1>1. CASE UNCHANGED vars
  BY <1>1 DEF Inv, TypeRest, OnePerRoot, At, Recorded, OpenDiffers, Doing, vars
<1>2. ASSUME NEW p \in Procs, Working(p) \/ FailApply(p) \/ TornWrite(p) \/ Crash(p) PROVE Inv'
  <2>1. CASE Installing(p)
    BY <2>1, ResolveStep, ApplyStep, CommitStep, ReportStep, ClaimStep, RecordStep, WriteKeyStep DEF Installing
  <2>2. CASE RefreshDone(p) \/ RemoveRoot(p) \/ FailApply(p) \/ TornWrite(p) \/ Crash(p)
    BY <2>2, RefreshDoneStep, RemoveRootStep, FailApplyStep, TornWriteStep, CrashStep
  <2>3. QED
    BY <1>2, <2>1, <2>2, RefreshStep, DeleteKeyStep, DropRecordStep DEF Working
<1>3. ASSUME NEW p \in Procs, NEW r \in Roots, installVerb(p, r) \/ Unregister(p, r) PROVE Inv'
  BY <1>3, BeginStep, UnregisterStep DEF installVerb
<1>4. ASSUME NEW r \in Roots, Starting(r) \/ Update(r) \/ DeleteRoot(r) \/ Secure(r) PROVE Inv'
  BY <1>4, LaunchStep, UpdateStep, DeleteRootStep, PublishStep DEF Starting
<1>5. QED
  BY <1>1, <1>2, <1>3, <1>4, OccupyStep, PublishStep DEF Next

\* Inv holds in every state, whatever programs run on whatever roots.
THEOREM Invariance == Spec => []Inv
  BY InitInv, InvStep, PTL DEF Spec

\* RegisterUninstallEntry and Unregister: whatever is interrupted, an uninstall finds the
\* entry of its root on the root's record.
THEOREM EntryAlwaysKnown == Spec => []EntryKnown
<1>1. Inv => EntryKnown
  BY DEF Inv, TypeRest, Recorded, EntryKnown
<1>2. QED
  BY <1>1, Invariance, PTL

\* doInstall: success is reported of a committed install that is on the list.
THEOREM SuccessIsInstalled == Spec => SuccessMeansInstalled
<1> DEFINE A == \A p \in Procs : WriteKey(p) =>
                  LET r == proc[p].root
                  IN  /\ live[r] # 0 /\ live[r] = state[r] /\ r \notin open
                      /\ entry'[proc[p].scope].owner = r /\ proc[p].scope \in manifest[r]
<1>1. Inv /\ [Next]_vars => [A]_vars
  <2> SUFFICES ASSUME Inv, NEW p \in Procs, WriteKey(p)
               PROVE  /\ live[proc[p].root] # 0 /\ live[proc[p].root] = state[proc[p].root]
                      /\ proc[p].root \notin open
                      /\ entry'[proc[p].scope].owner = proc[p].root
                      /\ proc[p].scope \in manifest[proc[p].root]
    OBVIOUS
  <2>1. proc[p].root \in Roots /\ proc[p].scope \in Scopes /\ Doing(proc[p]) /\ proc[p].pc = "write"
    BY DEF Inv, ProcType, WriteKey, At
  <2>2. entry'[proc[p].scope].owner = proc[p].root
    BY <2>1 DEF WriteKey, Inv, TypeRest, values
  <2>3. QED
    BY <2>1, <2>2 DEF Doing, Inv, OpenDiffers
<1>2. QED
  BY <1>1, Invariance, PTL DEF Spec, SuccessMeansInstalled

---------------------------------------------------------------------------
(* The entry and the others.  A program that found the name free, its own  *)
(* or abandoned writes under it two steps later: while it does, no other   *)
(* program of idunn's may register the same application elsewhere.         *)

Claimed ==
  \A p \in Procs : proc[p].pc \in {"record", "write"} => claim(proc[p].root, entry[proc[p].scope])

\* Where a step of program p leaves it: only Claim and Record go on towards the entry.
LEMMA NotRegistering ==
  ASSUME Inv, NEW p \in Procs,
         \/ Resolve(p) \/ Apply(p) \/ Commit(p) \/ Report(p) \/ WriteKey(p) \/ RefreshDone(p)
         \/ RemoveRoot(p) \/ FailApply(p) \/ TornWrite(p) \/ Crash(p)
         \/ \E s \in Scopes : Refresh(p, s) \/ DeleteKey(p, s) \/ DropRecord(p, s)
         \/ \E r \in Roots : installVerb(p, r) \/ Unregister(p, r) \/ Launch(p, r)
  PROVE  proc'[p].pc \notin {"record", "write"}
<1>1. proc \in [Procs -> ProcType] /\ proc[p] \in ProcType /\ Idle \in ProcType /\ Idle.pc = "idle"
  BY IdleType DEF Inv
<1>2. CASE End(p)
  BY <1>1, <1>2 DEF End, Put
<1>3. ASSUME NEW l \in {"commit", "report", "claim"}, Goto(p, l) PROVE proc'[p].pc \notin {"record", "write"}
  <2>1. PICK d \in ProcType : proc' = [proc EXCEPT ![p] = d] /\ d.pc = l
    BY <1>3, GotoRecord
  <2>2. QED
    BY <1>1, <2>1
<1>4. ASSUME NEW d, d.pc \notin {"record", "write"}, Put(p, d) PROVE proc'[p].pc \notin {"record", "write"}
  BY <1>1, <1>4 DEF Put
<1>5. CASE Apply(p) \/ Commit(p) \/ Report(p)
  BY <1>2, <1>3, <1>5 DEF Apply, Commit, Report
<1>6. CASE WriteKey(p) \/ RefreshDone(p) \/ RemoveRoot(p) \/ FailApply(p) \/ TornWrite(p) \/ Crash(p)
  BY <1>2, <1>6 DEF WriteKey, RefreshDone, RemoveRoot, FailApply, TornWrite, Crash
<1>7. CASE Resolve(p)
  <2> DEFINE t == IF proc[p].pin = 0 THEN head ELSE proc[p].pin
             d == [proc[p] EXCEPT !.pc = "apply", !.from = live[proc[p].root], !.to = t]
  <2>1. d.pc = "apply"
    BY <1>1 DEF ProcType
  <2>2. Goto(p, "report") \/ End(p) \/ Put(p, d)
    BY <1>7 DEF Resolve
  <2> HIDE DEF d
  <2>3. QED
    BY <1>2, <1>3, <1>4, <2>1, <2>2
<1>8. ASSUME NEW s \in Scopes, Refresh(p, s) PROVE proc'[p].pc \notin {"record", "write"}
  <2> DEFINE d == [proc[p] EXCEPT !.todo = proc[p].todo \ {s}]
  <2>1. d.pc = "refresh" /\ Put(p, d)
    BY <1>1, <1>8 DEF ProcType, Refresh, At
  <2> HIDE DEF d
  <2>2. QED
    BY <1>4, <2>1
<1>9. ASSUME NEW s \in Scopes, DeleteKey(p, s) \/ DropRecord(p, s) PROVE proc'[p].pc \notin {"record", "write"}
  BY <1>2, <1>9 DEF DeleteKey, DropRecord, At
<1>10. ASSUME NEW r \in Roots, NEW pin, NEW down, Begin(p, r, pin, down)
       PROVE  proc'[p].pc \notin {"record", "write"}
  <2> DEFINE d == [Idle EXCEPT !.pc = "resolve", !.root = r, !.pin = pin, !.down = down,
                               !.existing = preflightState(r)]
  <2>1. d.pc = "resolve"
    BY DEF Idle
  <2>2. Put(p, d)
    BY <1>10 DEF Begin
  <2> HIDE DEF d
  <2>3. QED
    BY <1>4, <2>1, <2>2
<1>11. ASSUME NEW r \in Roots, Unregister(p, r) PROVE proc'[p].pc \notin {"record", "write"}
  <2> DEFINE d == [Idle EXCEPT !.pc = "unregister", !.root = r]
  <2>1. d.pc = "unregister"
    BY DEF Idle
  <2>2. Put(p, d)
    BY <1>11 DEF Unregister
  <2> HIDE DEF d
  <2>3. QED
    BY <1>4, <2>1, <2>2
<1>12. ASSUME NEW r \in Roots, Launch(p, r) PROVE proc'[p].pc \notin {"record", "write"}
  <2> DEFINE d == [Idle EXCEPT !.pc = "refresh", !.root = r, !.to = live[r], !.todo = readManifest(r)]
  <2>1. d.pc = "refresh"
    BY DEF Idle
  <2>2. Put(p, d)
    BY <1>12 DEF Launch
  <2> HIDE DEF d
  <2>3. QED
    BY <1>4, <2>1, <2>2
<1>13. QED
  BY <1>5, <1>6, <1>7, <1>8, <1>9, <1>10, <1>11, <1>12 DEF installVerb

\* A claim is read off the entry, and the record that follows it changes no entry.
LEMMA ClaimHolds ==
  ASSUME Inv, Claimed, NEW p \in Procs, Claim(p) \/ Record(p), proc'[p].pc \in {"record", "write"}
  PROVE  claim(proc'[p].root, entry'[proc'[p].scope]) /\ UNCHANGED <<entry, meta>>
<1>1. proc \in [Procs -> ProcType] /\ proc[p] \in ProcType /\ Idle \in ProcType /\ Idle.pc = "idle"
  BY IdleType DEF Inv
<1>2. ~End(p) /\ UNCHANGED <<entry, meta>>
  BY <1>1 DEF End, Put, Claim, Record, tree
<1>3. CASE Claim(p)
  <2> DEFINE r == proc[p].root
             s == IF r \in secure THEN "machine" ELSE "user"
             d == [proc[p] EXCEPT !.pc = "record", !.scope = s, !.to = live[r]]
  <2>1. Put(p, d) /\ claim(r, entry[s])
    BY <1>2, <1>3 DEF Claim, ReadKey
  <2> HIDE DEF s
  <2>2. d.root = r /\ d.scope = s
    BY <1>1 DEF ProcType
  <2> HIDE DEF d
  <2>3. QED
    BY <1>1, <1>2, <2>1, <2>2 DEF Put
<1>4. CASE Record(p)
  <2>1. Goto(p, "write") /\ proc[p].pc = "record"
    BY <1>2, <1>4 DEF Record, At
  <2>2. PICK d \in ProcType : proc' = [proc EXCEPT ![p] = d] /\ d.root = proc[p].root /\ d.scope = proc[p].scope
    BY <2>1, GotoRecord
  <2>3. QED
    BY <1>1, <1>2, <2>1, <2>2 DEF Claimed
<1>5. QED
  BY <1>3, <1>4

LEMMA ClaimedStep ==
  ASSUME \A p, q \in Procs : p = q, Inv, Claimed, [Next]_vars
  PROVE  Claimed'
<1> SUFFICES ASSUME NEW p \in Procs, proc'[p].pc \in {"record", "write"}
             PROVE  claim(proc[p].root, entry[proc[p].scope])'
  BY DEF Claimed
<1>1. ASSUME NEW q \in Procs, Claim(q) \/ Record(q) PROVE claim(proc[p].root, entry[proc[p].scope])'
  BY <1>1, ClaimHolds DEF claim, abandoned, owns, Absent
<1>2. CASE UNCHANGED proc /\ UNCHANGED entry /\ meta' \subseteq meta
  BY <1>2 DEF Claimed, claim, abandoned, owns, Absent
<1>3. ASSUME NEW s \in Scopes, Cleanup(s) PROVE claim(proc[p].root, entry[proc[p].scope])'
  <2>1. proc' = proc /\ meta' = meta /\ entry' = [entry EXCEPT ![s] = Absent] /\ claim(proc[p].root, entry[proc[p].scope])
        /\ proc[p].scope \in Scopes /\ entry \in [Scopes -> EntryType]
    BY <1>3 DEF Cleanup, tree, Claimed, Inv, TypeRest, ProcType
  <2>2. CASE proc[p].scope = s
    BY <2>1, <2>2 DEF claim
  <2>3. CASE proc[p].scope # s
    BY <2>1, <2>3 DEF claim, abandoned, owns, Absent
  <2>4. QED
    BY <2>2, <2>3
<1>4. ASSUME NEW s \in Scopes, Occupy(s) PROVE FALSE
  BY <1>4 DEF Occupy
<1>5. ASSUME NEW r \in Roots, Update(r) \/ DeleteRoot(r) \/ Secure(r) PROVE UNCHANGED proc /\ UNCHANGED entry /\ meta' \subseteq meta
  BY <1>5 DEF Update, DeleteRoot, Secure, tree
<1>6. CASE Publish \/ UNCHANGED vars
  BY <1>2, <1>6 DEF Publish, vars, tree
<1>7. ASSUME NEW q \in Procs, Working(q) \/ FailApply(q) \/ TornWrite(q) \/ Crash(q) PROVE claim(proc[p].root, entry[proc[p].scope])'
  <2>1. q = p
    OBVIOUS
  <2>2. QED
    BY <1>1, <1>7, <2>1, NotRegistering DEF Working, Installing
<1>8. ASSUME NEW q \in Procs, NEW r \in Roots, installVerb(q, r) \/ Unregister(q, r) \/ Launch(q, r) PROVE FALSE
  BY <1>8, NotRegistering
<1>9. QED
  BY <1>2, <1>3, <1>4, <1>5, <1>6, <1>7, <1>8 DEF Next, Starting

\* An entry is changed by a program that claimed it or owns it, or by others.
LEMMA EntryChange ==
  ASSUME Inv, Claimed, Next, NEW s \in Scopes, entry'[s] # entry[s]
  PROVE  \/ \E p \in Procs : ~At(p, "idle") /\ claim(proc[p].root, entry[s])
         \/ entry[s] = Absent
         \/ entry[s].owner \in Roots /\ events' < events
<1>1. ASSUME NEW p \in Procs, WriteKey(p) \/ TornWrite(p)
      PROVE  ~At(p, "idle") /\ claim(proc[p].root, entry[s])
  <2>1. proc[p].pc = "write" /\ proc[p].scope \in Scopes /\ entry \in [Scopes -> EntryType]
    BY <1>1 DEF WriteKey, TornWrite, At, Inv, TypeRest, ProcType
  <2>2. PICK e : entry' = [entry EXCEPT ![proc[p].scope] = e]
    BY <1>1 DEF WriteKey, TornWrite
  <2>3. s = proc[p].scope
    BY <2>1, <2>2
  <2>4. QED
    BY <2>1, <2>3 DEF Claimed, At
<1>2. ASSUME NEW p \in Procs, NEW t \in Scopes, Refresh(p, t) \/ DeleteKey(p, t)
      PROVE  ~At(p, "idle") /\ claim(proc[p].root, entry[s])
  <2>1. ~At(p, "idle") /\ owns(proc[p].root, entry[t]) /\ \E e : entry' = [entry EXCEPT ![t] = e]
    BY <1>2 DEF Refresh, DeleteKey, At, ReadKey
  <2>2. s = t
    BY <2>1 DEF Inv, TypeRest
  <2>3. QED
    BY <2>1, <2>2 DEF claim
<1>3. ASSUME NEW t \in Scopes, Occupy(t) PROVE entry[s] = Absent
  BY <1>3 DEF Occupy, Inv, TypeRest
<1>4. ASSUME NEW t \in Scopes, Cleanup(t) PROVE entry[s].owner \in Roots /\ events' < events
  BY <1>4, SetupAssumption DEF Cleanup, Event, Inv, TypeRest
<1>5. ASSUME NEW p \in Procs,
             Resolve(p) \/ Apply(p) \/ Commit(p) \/ Report(p) \/ Claim(p) \/ Record(p) \/ RefreshDone(p)
               \/ RemoveRoot(p) \/ FailApply(p) \/ Crash(p) \/ \E t \in Scopes : DropRecord(p, t)
      PROVE  FALSE
  BY <1>5 DEF Resolve, Apply, Commit, Report, Claim, Record, RefreshDone, RemoveRoot, FailApply, Crash, DropRecord
<1>6. ASSUME NEW p \in Procs, NEW r \in Roots, installVerb(p, r) \/ Unregister(p, r) \/ Launch(p, r) PROVE FALSE
  BY <1>6 DEF installVerb, Begin, Unregister, Launch
<1>7. ASSUME NEW r \in Roots, Update(r) \/ DeleteRoot(r) \/ Secure(r) PROVE FALSE
  BY <1>7 DEF Update, DeleteRoot, Secure
<1>8. ~Publish
  BY DEF Publish
<1>9. QED
  BY <1>1, <1>2, <1>3, <1>4, <1>5, <1>6, <1>7, <1>8 DEF Next, Working, Installing, Starting

\* claim, owns and gone: with one program at a time nothing is written over and nothing
\* removed that idunn did not write for this root.  (With two installers of two roots it
\* may be: see Setup_two_installers.cfg.)
THEOREM OthersAlwaysKept ==
  ASSUME \A p, q \in Procs : p = q
  PROVE  Spec => OthersKept
<1> DEFINE A == \A s \in Scopes : entry'[s] # entry[s] =>
                  /\ entry[s] # Foreign
                  /\ entry[s].owner \in Roots =>
                       \/ Busy(entry[s].owner) \/ entry[s].owner \notin meta
                       \/ events' < events
<1>1. Init => Claimed
  BY IdleType DEF Init, Claimed
<1>2. Inv /\ Claimed /\ [Next]_vars => Claimed'
  BY ClaimedStep
<1>3. Inv /\ Claimed /\ [Next]_vars => [A]_vars
  <2> SUFFICES ASSUME Inv, Claimed, Next, NEW s \in Scopes, entry'[s] # entry[s]
               PROVE  /\ entry[s] # Foreign
                      /\ entry[s].owner \in Roots =>
                           \/ Busy(entry[s].owner) \/ entry[s].owner \notin meta
                           \/ events' < events
    OBVIOUS
  <2>1. CASE entry[s] = Absent
    BY <2>1, SetupAssumption DEF Absent, Foreign
  <2>2. CASE entry[s].owner \in Roots /\ events' < events
    BY <2>2, SetupAssumption DEF Foreign
  <2>3. ASSUME NEW p \in Procs, ~At(p, "idle"), claim(proc[p].root, entry[s]), entry[s] # Absent
        PROVE  /\ entry[s] # Foreign
               /\ entry[s].owner \in Roots => Busy(entry[s].owner) \/ entry[s].owner \notin meta
    <3>1. proc[p].root \in Roots
      BY DEF Inv, ProcType
    <3>2. entry[s].owner \in Roots
      BY <2>3, <3>1 DEF claim, owns, abandoned
    <3>3. entry[s] # Foreign
      BY <3>2, SetupAssumption DEF Foreign
    <3>4. QED
      BY <2>3, <3>3 DEF claim, owns, abandoned, Busy
  <2>4. QED
    BY <2>1, <2>2, <2>3, EntryChange
<1>4. QED
  BY <1>1, <1>2, <1>3, Invariance, PTL DEF Spec, OthersKept

=============================================================================
