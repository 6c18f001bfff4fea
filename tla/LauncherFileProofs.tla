------------------------- MODULE LauncherFileProofs -------------------------
(***************************************************************************)
(* The safety properties of LauncherFile, for any number of processes,     *)
(* versions, launchers moved aside and faults, as long as one process at a *)
(* time works on the launcher (~Overlap).                                  *)
(*                                                                         *)
(* That the name never refers to a part of a launcher is decided steps     *)
(* before the name changes: what is placed was written whole by the same   *)
(* process, no other name leads to the file it truncated, and the number a *)
(* launcher is moved aside to is still the highest.  Doing says what each  *)
(* step of a process may rely on.                                          *)
(***************************************************************************)
EXTENDS LauncherFile, FiniteSetTheorems, FunctionTheorems, TLAPS

\* No two processes are in the middle of a repair or a replacement.
Alone == \A p, q \in Procs : Working(p) /\ Working(q) => p = q

\* The file being written has no other name.
Apart == tmp # 0 => tmp # name /\ \A n \in Numbers : asides[n] # tmp

ProcType == [pc : Pcs, image : Files \cup {0}, open : Files \cup {0},
             data : 0..MaxVersion, olds : SUBSET Numbers, aside : 0..MaxAside]

\* What a process whose record is c relies on at each step.
Doing(c) ==
  /\ c.pc \in {"look", "restore"} => c.olds = Listed
  /\ c.pc = "restore" => name = 0
  /\ c.pc \in {"sweep", "sweeptmp"} => name # 0
  /\ c.pc \in {"compare", "create", "write", "aside", "move", "place", "clean", "drop"} =>
       c.data = staged /\ staged # 0
  /\ c.pc = "write" => c.open = tmp /\ tmp # 0 /\ content[tmp] = Torn
  /\ c.pc \in {"aside", "move", "place"} => tmp # 0 /\ content[tmp] = c.data
  /\ c.pc \in {"aside", "move"} => strategy = "aside"
  /\ c.pc = "move" => c.aside \in Numbers /\ \A m \in Numbers : m >= c.aside => asides[m] = 0
  /\ c.pc \in {"place", "back"} /\ c.aside # 0 =>
       asides[c.aside] # 0 /\ content[asides[c.aside]] # Torn
  /\ c.pc = "back" => c.aside # 0
  /\ c.pc = "clean" => c.aside \in Numbers
  /\ c.pc \notin {"move", "place", "back", "discard", "clean", "drop"} => c.aside = 0
  /\ c.pc \in {"clean", "drop"} => name # 0 /\ content[name] = c.data

Inv == TypeOK /\ Alone /\ Apart /\ (\A p \in Procs : Doing(proc[p])) /\ NeverLost

---------------------------------------------------------------------------
(* Numbers and files.                                                      *)

\* The number of launchers moved aside has a highest.
LEMMA MaxListed ==
  ASSUME NEW S \in SUBSET Numbers, S # {}
  PROVE  Max(S) \in S /\ \A m \in S : m <= Max(S)
<1> DEFINE T == {MaxAside - n : n \in S}
           R == {ss \in Nat \X Nat : ss[1] < ss[2]}
<1>1. MaxAside \in Nat /\ \A n \in S : n \in Nat /\ n <= MaxAside /\ MaxAside - n \in Nat
  BY LauncherFileAssumption DEF Numbers
<1>2. T \subseteq Nat /\ T # {}
  BY <1>1
<1>3. PICK x \in T : \A y \in T : <<y, x>> \notin R
  <2>1. IsWellFoundedOn(R, Nat)
    BY NatLessThanWellFounded DEF OpToRel
  <2> HIDE DEF R, T
  <2>2. QED
    BY <1>2, <2>1, WFMin
<1>4. \A y \in T : ~(y < x)
  BY <1>2, <1>3
<1>5. PICK n \in S : x = MaxAside - n
  OBVIOUS
<1>6. \A m \in S : n >= m
  <2> SUFFICES ASSUME NEW m \in S PROVE n >= m
    OBVIOUS
  <2>1. ~(MaxAside - m < MaxAside - n)
    BY <1>4, <1>5
  <2>2. QED
    BY <1>1, <2>1
<1>7. Max(S) \in S /\ \A m \in S : Max(S) >= m
  BY <1>6 DEF Max
<1>8. QED
  BY <1>1, <1>7

LEMMA UnionBound ==
  ASSUME NEW S, NEW T, IsFiniteSet(S), IsFiniteSet(T), NEW m \in Nat, NEW n \in Nat,
         Cardinality(S) <= m, Cardinality(T) <= n
  PROVE  IsFiniteSet(S \cup T) /\ Cardinality(S \cup T) <= m + n
<1>1. /\ IsFiniteSet(S \cap T) /\ IsFiniteSet(S \cup T)
      /\ Cardinality(S \cup T) = Cardinality(S) + Cardinality(T) - Cardinality(S \cap T)
  BY FS_Union, FS_Intersection
<1>2. /\ Cardinality(S) \in Nat /\ Cardinality(T) \in Nat /\ Cardinality(S \cap T) \in Nat
  BY <1>1, FS_CardinalityType
<1>3. QED
  BY <1>1, <1>2

\* The files the names and the processes use are at most as many as there are: one that
\* has no name yet can always be created.
LEMMA FreshFile ==
  ASSUME TypeOK, tmp = 0
  PROVE  Fresh \in Files /\ Fresh \notin Used
<1> DEFINE N == Cardinality(Procs)
           img == [p \in Procs |-> proc[p].image]
           opn == [p \in Procs |-> proc[p].open]
<1>1. IsFiniteSet(Procs) /\ N \in Nat /\ MaxAside \in Nat
  BY LauncherFileAssumption, FS_Union, FS_CardinalityType DEF Procs
<1>2. IsFiniteSet(Files) /\ Cardinality(Files) = 2 + MaxAside + 2 * N /\ 0 \notin Files
  <2>1. 2 + MaxAside + 2 * N \in Nat /\ 1 <= 2 + MaxAside + 2 * N
    BY <1>1
  <2>2. QED
    BY <2>1, FS_Interval DEF Files
<1>3. IsFiniteSet(Range(asides)) /\ Cardinality(Range(asides)) <= MaxAside
  <2>1. IsFiniteSet(Numbers) /\ Cardinality(Numbers) = MaxAside
    BY <1>1, LauncherFileAssumption, FS_Interval DEF Numbers
  <2>2. asides \in Surjection(Numbers, Range(asides))
    BY Fun_RangeProperties DEF TypeOK
  <2>3. QED
    BY <2>1, <2>2, FS_Surjection
<1>4. IsFiniteSet(Range(img)) /\ Cardinality(Range(img)) <= N
  <2>1. img \in [Procs -> Files \cup {0}]
    BY DEF TypeOK
  <2> HIDE DEF img
  <2>2. img \in Surjection(Procs, Range(img))
    BY <2>1, Fun_RangeProperties
  <2>3. QED
    BY <1>1, <2>2, FS_Surjection
<1>5. IsFiniteSet(Range(opn)) /\ Cardinality(Range(opn)) <= N
  <2>1. opn \in [Procs -> Files \cup {0}]
    BY DEF TypeOK
  <2> HIDE DEF opn
  <2>2. opn \in Surjection(Procs, Range(opn))
    BY <2>1, Fun_RangeProperties
  <2>3. QED
    BY <1>1, <2>2, FS_Surjection
<1> DEFINE A == {name} \cup {tmp}
           B == A \cup Range(asides)
           C == B \cup Range(img)
           D == C \cup Range(opn)
<1>6. Used = D
  BY DEF Used, Range, TypeOK
<1>7. IsFiniteSet(A) /\ Cardinality(A) <= 2
  <2>1. IsFiniteSet({name}) /\ IsFiniteSet({tmp}) /\ Cardinality({name}) = 1 /\ Cardinality({tmp}) = 1
    BY FS_Singleton, Zenon
  <2>2. Cardinality({name}) <= 1 /\ Cardinality({tmp}) <= 1
    BY <2>1
  <2>3. IsFiniteSet(A) /\ Cardinality(A) <= 1 + 1
    BY <2>1, <2>2, UnionBound
  <2>4. QED
    BY <2>3
<1>8. IsFiniteSet(B) /\ Cardinality(B) <= 2 + MaxAside
  <2> HIDE DEF A
  <2>1. QED
    BY <1>1, <1>3, <1>7, UnionBound
<1>9. IsFiniteSet(C) /\ Cardinality(C) <= (2 + MaxAside) + N
  <2>1. 2 + MaxAside \in Nat
    BY <1>1
  <2> HIDE DEF B, img
  <2>2. QED
    BY <1>1, <1>4, <1>8, <2>1, UnionBound
<1>10. 2 + MaxAside + N \in Nat
  BY <1>1
<1>11. IsFiniteSet(D) /\ Cardinality(D) <= ((2 + MaxAside) + N) + N
  <2> HIDE DEF C, opn
  <2>1. QED
    BY <1>1, <1>5, <1>9, <1>10, UnionBound
<1>12. ~(Files \subseteq Used)
  <2> SUFFICES ASSUME Files \subseteq D PROVE FALSE
    BY <1>6
  <2>1. Files \cup {0} \subseteq D
    OBVIOUS
  <2>2. Cardinality(Files \cup {0}) = Cardinality(Files) + 1
    BY <1>2, FS_AddElement
  <2>3. Cardinality(Files \cup {0}) <= Cardinality(D)
    BY <1>11, <2>1, FS_Subset
  <2>4. Cardinality(D) \in Nat
    BY <1>11, FS_CardinalityType
  <2>5. QED
    BY <1>1, <1>2, <1>11, <2>2, <2>3, <2>4
<1>13. QED
  BY <1>12 DEF Fresh

---------------------------------------------------------------------------
(* Steps of a process.                                                     *)

\* While a process works, every other one rests.
LEMMA OthersRest ==
  ASSUME Inv, NEW p \in Procs, Working(p)
  PROVE  \A q \in Procs : q # p => ~Working(q)
  BY DEF Inv, Alone

\* One process's step: Inv holds afterwards if its new record d stands on what it should
\* and the file being written and the name are as they have to be.
LEMMA OneStep ==
  ASSUME Inv, NEW p \in Procs, \A q \in Procs : q # p => ~Working(q),
         NEW d \in ProcType, proc' = [proc EXCEPT ![p] = d], Doing(d)',
         strategy' = strategy, name' \in Files \cup {0}, tmp' \in Files \cup {0},
         asides' \in [Numbers -> Files \cup {0}], content' \in [Files -> 0..MaxVersion],
         staged' \in 0..MaxVersion, faults' \in 0..MaxFaults, Apart', NeverLost'
  PROVE  Inv'
<1>1. proc' \in [Procs -> ProcType] /\ \A q \in Procs : proc'[q] = IF q = p THEN d ELSE proc[q]
  BY DEF Inv, TypeOK, ProcType
<1>2. TypeOK'
  BY <1>1 DEF Inv, TypeOK, ProcType
<1>3. \A q \in Procs : q # p => proc'[q].pc \in {"idle", "run"}
  BY <1>1 DEF Working
<1>4. Alone'
  BY <1>3 DEF Alone, Working
<1>5. \A q \in Procs : Doing(proc[q])'
  <2> SUFFICES ASSUME NEW q \in Procs, q # p PROVE Doing(proc[q])'
    BY <1>1
  <2>1. proc[q].aside = 0 /\ proc'[q] = proc[q]
    BY <1>1, <1>3 DEF Inv, Doing
  <2>2. QED
    BY <1>3, <2>1 DEF Doing
<1>6. QED
  BY <1>2, <1>4, <1>5 DEF Inv

\* A step that changes no file.
LEMMA QuietStep ==
  ASSUME Inv, NEW p \in Procs, \A q \in Procs : q # p => ~Working(q),
         NEW d \in ProcType, proc' = [proc EXCEPT ![p] = d], Doing(d),
         UNCHANGED <<strategy, files, staged>>, faults' \in 0..MaxFaults
  PROVE  Inv'
<1>1. Doing(d)'
  BY DEF Doing, Listed, files
<1>2. Apart' /\ NeverLost'
  BY DEF Inv, Apart, NeverLost, files
<1>3. QED
  BY <1>1, <1>2, OneStep DEF Inv, TypeOK, files

LEMMA FaultType == ASSUME TypeOK, Fault PROVE faults' \in 0..MaxFaults
  BY LauncherFileAssumption DEF TypeOK, Fault

\* Where a process goes that is done with the launcher, or whose repair is over.
LEMMA LeaveRecord ==
  ASSUME Inv, NEW p \in Procs, NEW l \in {"run", "idle", "read"}, Leave(p, l)
  PROVE  \E d \in ProcType : proc' = [proc EXCEPT ![p] = d] /\ d.pc = l /\ d.aside = 0
<1> DEFINE d == [Idle EXCEPT !.pc = l, !.image = proc[p].image]
<1>1. proc[p] \in ProcType
  BY DEF Inv, TypeOK, ProcType
<1>2. 0 \in 0..MaxVersion /\ 0 \in 0..MaxAside /\ {} \in SUBSET Numbers /\ l \in Pcs
  BY LauncherFileAssumption DEF Pcs
<1>3. d \in ProcType /\ d.pc = l /\ d.aside = 0
  BY <1>1, <1>2 DEF ProcType, Idle
<1>4. QED
  BY <1>3 DEF Leave

\* Going on to step l, the rest of the record as it was.
LEMMA GotoRecord ==
  ASSUME Inv, NEW p \in Procs, NEW l \in Pcs, Goto(p, l)
  PROVE  \E d \in ProcType :
           /\ proc' = [proc EXCEPT ![p] = d] /\ d.pc = l
           /\ d.olds = proc[p].olds /\ d.data = proc[p].data /\ d.open = proc[p].open
           /\ d.aside = proc[p].aside /\ d.image = proc[p].image
<1> DEFINE d == [proc[p] EXCEPT !.pc = l]
<1>1. proc[p] \in ProcType
  BY DEF Inv, TypeOK, ProcType
<1>2. d \in ProcType /\ d.pc = l
  BY <1>1 DEF ProcType
<1>3. proc' = [proc EXCEPT ![p] = d]
  BY DEF Goto, Inv, TypeOK
<1>4. QED
  BY <1>1, <1>2, <1>3 DEF ProcType

\* Nothing is relied on at these.
LEMMA RestOK ==
  ASSUME NEW d, \/ d.pc \in {"idle", "run", "read", "list"} /\ d.aside = 0
                \/ d.pc = "discard"
  PROVE  Doing(d)
  BY DEF Doing

\* A process ends its work without touching a file.
LEMMA GiveUpStep ==
  ASSUME Inv, NEW p \in Procs, Working(p), NEW l \in {"run", "idle", "read"}, Leave(p, l),
         UNCHANGED <<strategy, files, staged>>, faults' \in 0..MaxFaults
  PROVE  Inv'
  BY LeaveRecord, RestOK, OthersRest, QuietStep

LEMMA StartStep == ASSUME Inv, ~Overlap, NEW p \in Procs, Start(p) PROVE Inv'
<1> DEFINE d == [proc[p] EXCEPT !.pc = "list", !.image = name]
<1>1. proc[p] \in ProcType /\ name \in Files \cup {0} /\ faults \in 0..MaxFaults /\ proc[p].aside = 0
  BY DEF Inv, TypeOK, ProcType, Doing, Start, At
<1>2. d \in ProcType /\ d.pc = "list" /\ d.aside = 0
  BY <1>1 DEF ProcType, Pcs
<1>3. proc' = [proc EXCEPT ![p] = d]
  BY DEF Start, Inv, TypeOK
<1> HIDE DEF d
<1>4. Doing(d) /\ (\A q \in Procs : q # p => ~Working(q)) /\ UNCHANGED <<strategy, files, staged>>
  BY <1>2, RestOK DEF Start
<1>5. faults' \in 0..MaxFaults
  BY <1>1 DEF Start
<1>6. QED
  BY <1>2, <1>3, <1>4, <1>5, QuietStep

LEMMA RepairLauncherStep == ASSUME Inv, ~Overlap, NEW p \in Procs, RepairLauncher(p) PROVE Inv'
<1>1. PICK d \in ProcType : proc' = [proc EXCEPT ![p] = d] /\ d.pc = "list" /\ d.aside = 0
  <2>1. proc[p].aside = 0
    BY DEF Inv, Doing, RepairLauncher, At
  <2>2. QED
    BY <2>1, GotoRecord DEF RepairLauncher, Pcs
<1>2. Doing(d) /\ (\A q \in Procs : q # p => ~Working(q)) /\ UNCHANGED <<strategy, files, staged>>
  BY <1>1, RestOK DEF RepairLauncher
<1>3. faults' \in 0..MaxFaults
  BY DEF RepairLauncher, Inv, TypeOK
<1>4. QED
  BY <1>1, <1>2, <1>3, QuietStep

LEMMA ListStep == ASSUME Inv, NEW p \in Procs, List(p) PROVE Inv'
<1> DEFINE d == [proc[p] EXCEPT !.pc = "look", !.olds = Listed]
<1>1. proc[p] \in ProcType /\ Listed \in SUBSET Numbers /\ faults \in 0..MaxFaults /\ Working(p)
      /\ proc[p].aside = 0
  BY DEF Inv, TypeOK, ProcType, Doing, Listed, Working, List, At
<1>2. d \in ProcType /\ d.pc = "look" /\ d.olds = Listed /\ d.aside = 0
  BY <1>1 DEF ProcType, Pcs
<1>3. proc' = [proc EXCEPT ![p] = d]
  BY DEF List, Inv, TypeOK
<1>4. Doing(d)
  BY <1>2 DEF Doing
<1>5. QED
  BY <1>1, <1>2, <1>3, <1>4, OthersRest, QuietStep DEF List

LEMMA LookStep == ASSUME Inv, NEW p \in Procs, Look(p) PROVE Inv'
<1>1. Working(p) /\ UNCHANGED <<strategy, files, staged>> /\ faults' \in 0..MaxFaults
      /\ proc[p].olds = Listed /\ proc[p].aside = 0
  BY DEF Inv, TypeOK, Look, At, Working, Doing
<1>2. CASE Leave(p, Repaired(p))
  BY <1>1, <1>2, GiveUpStep DEF Repaired
<1>3. CASE name # 0 /\ Goto(p, "sweep")
  <2>1. PICK d \in ProcType : proc' = [proc EXCEPT ![p] = d] /\ d.pc = "sweep" /\ d.aside = 0
    BY <1>1, <1>3, GotoRecord DEF Pcs
  <2>2. Doing(d)
    BY <1>3, <2>1 DEF Doing
  <2>3. QED
    BY <1>1, <2>1, <2>2, OthersRest, QuietStep
<1>4. CASE name = 0 /\ Goto(p, "restore")
  <2>1. PICK d \in ProcType : proc' = [proc EXCEPT ![p] = d] /\ d.pc = "restore"
                              /\ d.olds = Listed /\ d.aside = 0
    BY <1>1, <1>4, GotoRecord DEF Pcs
  <2>2. Doing(d)
    BY <1>4, <2>1 DEF Doing
  <2>3. QED
    BY <1>1, <2>1, <2>2, OthersRest, QuietStep
<1>5. QED
  BY <1>2, <1>3, <1>4 DEF Look, Missing

LEMMA ReadStagedStep == ASSUME Inv, NEW p \in Procs, ReadStaged(p) PROVE Inv'
<1>1. Working(p) /\ UNCHANGED <<strategy, files, staged>> /\ faults' \in 0..MaxFaults
      /\ proc[p] \in ProcType /\ staged \in 0..MaxVersion /\ proc[p].aside = 0
  BY DEF Inv, TypeOK, ProcType, Doing, ReadStaged, At, Working
<1>2. CASE staged = 0
  BY <1>1, <1>2, GotoRecord, RestOK, OthersRest, QuietStep DEF ReadStaged, Pcs
<1>3. CASE staged # 0
  <2> DEFINE d == [proc[p] EXCEPT !.pc = "compare", !.data = staged]
  <2>1. d \in ProcType /\ d.pc = "compare" /\ d.data = staged /\ d.aside = 0
    BY <1>1 DEF ProcType, Pcs
  <2>2. proc' = [proc EXCEPT ![p] = d]
    BY <1>3 DEF ReadStaged, Inv, TypeOK
  <2>3. Doing(d)
    BY <1>3, <2>1 DEF Doing
  <2>4. QED
    BY <1>1, <2>1, <2>2, <2>3, OthersRest, QuietStep
<1>4. QED
  BY <1>2, <1>3

LEMMA CompareStep == ASSUME Inv, NEW p \in Procs, Compare(p) PROVE Inv'
<1>1. Working(p) /\ UNCHANGED <<strategy, files, staged>> /\ faults' \in 0..MaxFaults
      /\ proc[p].data = staged /\ staged # 0 /\ proc[p].aside = 0
  BY DEF Inv, TypeOK, Doing, Compare, At, Working
<1>2. PICK d \in ProcType :
        /\ proc' = [proc EXCEPT ![p] = d] /\ d.data = staged /\ d.aside = 0
        /\ d.pc = IF name # 0 /\ Same(name, proc[p].data) THEN "drop" ELSE "create"
  BY <1>1, GotoRecord DEF Compare, Pcs
<1>3. Doing(d)
  BY <1>1, <1>2 DEF Doing, Same
<1>4. QED
  BY <1>1, <1>2, <1>3, OthersRest, QuietStep

LEMMA AsideStep == ASSUME Inv, NEW p \in Procs, Aside(p) PROVE Inv'
<1> DEFINE next == IF Listed = {} THEN 1 ELSE Max(Listed) + 1
           d == [proc[p] EXCEPT !.pc = IF name = 0 THEN "place" ELSE "move",
                                !.aside = IF name = 0 THEN 0 ELSE next]
<1>1. Working(p) /\ UNCHANGED <<strategy, files, staged>> /\ faults' \in 0..MaxFaults
      /\ proc[p] \in ProcType /\ Doing(proc[p]) /\ proc[p].pc = "aside" /\ next \in Numbers
  BY DEF Inv, TypeOK, ProcType, Aside, At, Working
<1>2. \A m \in Numbers : m >= next => asides[m] = 0
  <2>1. Listed \in SUBSET Numbers
    BY DEF Listed
  <2>2. CASE Listed = {}
    BY <2>2 DEF Listed
  <2>3. CASE Listed # {}
    <3>1. Max(Listed) \in Numbers /\ \A m \in Listed : m <= Max(Listed)
      BY <2>1, <2>3, MaxListed
    <3>2. \A m \in Numbers : m >= Max(Listed) + 1 => m \notin Listed
      BY <3>1, LauncherFileAssumption DEF Numbers
    <3>3. QED
      BY <2>3, <3>2 DEF Listed
  <2>4. QED
    BY <2>2, <2>3
<1>3. next \in 0..MaxAside /\ next # 0
  BY <1>1, LauncherFileAssumption DEF Numbers
<1> HIDE DEF next
<1>4. d \in ProcType
  <2>1. (IF name = 0 THEN "place" ELSE "move") \in Pcs
    BY DEF Pcs
  <2>2. (IF name = 0 THEN 0 ELSE next) \in 0..MaxAside
    BY <1>3, LauncherFileAssumption
  <2>3. QED
    BY <1>1, <2>1, <2>2 DEF ProcType
<1>5. /\ d.pc = IF name = 0 THEN "place" ELSE "move"
      /\ d.aside = IF name = 0 THEN 0 ELSE next
      /\ d.data = proc[p].data
  BY <1>1 DEF ProcType
<1>6. proc' = [proc EXCEPT ![p] = d]
  BY DEF Aside, Inv, TypeOK, next
<1> HIDE DEF d
<1>7. Doing(d)
  BY <1>1, <1>2, <1>5 DEF Doing
<1>8. QED
  BY <1>1, <1>4, <1>6, <1>7, OthersRest, QuietStep

\* A launcher that only runs ends, whoever works meanwhile.
LEMMA ResumedRest ==
  ASSUME Inv, NEW p \in Procs, ~Working(p), NEW d \in ProcType, d.pc = "idle",
         d.aside = 0, proc' = [proc EXCEPT ![p] = d],
         UNCHANGED <<strategy, files, staged>>, faults' \in 0..MaxFaults
  PROVE  Inv'
<1>1. proc' \in [Procs -> ProcType] /\ \A q \in Procs : proc'[q] = IF q = p THEN d ELSE proc[q]
  BY DEF Inv, TypeOK, ProcType
<1>2. TypeOK'
  BY <1>1 DEF Inv, TypeOK, ProcType, files
<1>3. Alone'
  BY <1>1 DEF Inv, Alone, Working
<1>4. \A q \in Procs : Doing(proc[q])'
  <2> SUFFICES ASSUME NEW q \in Procs PROVE Doing(proc[q])'
    OBVIOUS
  <2>1. CASE q = p
    BY <1>1, <2>1 DEF Doing
  <2>2. CASE q # p
    <3>1. proc'[q] = proc[q] /\ Doing(proc[q])
      BY <1>1, <2>2 DEF Inv
    <3>2. QED
      BY <3>1 DEF Doing, Listed, files
  <2>3. QED
    BY <2>1, <2>2
<1>5. Apart' /\ NeverLost'
  BY DEF Inv, Apart, NeverLost, files
<1>6. QED
  BY <1>2, <1>3, <1>4, <1>5 DEF Inv

LEMMA RestStep ==
  ASSUME Inv, NEW p \in Procs, Exit(p) \/ Crash(p)
  PROVE  Inv'
<1>1. Idle \in ProcType /\ Idle.pc = "idle" /\ Idle.aside = 0
  BY LauncherFileAssumption DEF Idle, ProcType, Pcs
<1>2. proc' = [proc EXCEPT ![p] = Idle] /\ UNCHANGED <<strategy, files, staged>> /\ faults' \in 0..MaxFaults
  BY FaultType DEF Exit, Crash, Inv, TypeOK
<1>3. CASE Crash(p)
  <2>1. Doing(Idle) /\ \A q \in Procs : q # p => ~Working(q)
    BY <1>1, <1>3, RestOK, OthersRest DEF Crash
  <2>2. QED
    BY <1>1, <1>2, <2>1, QuietStep
<1>4. CASE Exit(p)
  <2>1. ~Working(p)
    BY <1>4 DEF Exit, At, Working
  <2>2. QED
    BY <1>1, <1>2, <2>1, ResumedRest
<1>5. QED
  BY <1>3, <1>4

---------------------------------------------------------------------------
(* Steps that change a name or a file.                                     *)

\* The old launcher Repair puts back is the newest, which is whole.
LEMMA RestoreStep == ASSUME Inv, NEW p \in Procs, Restore(p) PROVE Inv'
<1> DEFINE n == Max(proc[p].olds)
           f == asides[n]
<1>1. Working(p) /\ name = 0 /\ proc[p].olds = Listed
  BY DEF Inv, Doing, Restore, At, Working
<1>2. CASE /\ CanRename(f) /\ name' = f /\ asides' = [asides EXCEPT ![n] = 0]
           /\ Leave(p, Repaired(p)) /\ UNCHANGED faults
  <2>1. PICK m \in Numbers : /\ asides[m] # 0 /\ content[asides[m]] # Torn
                             /\ \A k \in Numbers : k > m => asides[k] = 0
    BY <1>1 DEF Inv, NeverLost
  <2>2. m \in Listed /\ Listed \in SUBSET Numbers
    BY <2>1 DEF Listed
  <2>3. n \in Listed /\ \A k \in Listed : k <= n
    BY <1>1, <2>2, MaxListed
  <2>4. n = m
    BY <2>1, <2>2, <2>3 DEF Listed, Numbers
  <2>5. f \in Files /\ content[f] # Torn
    BY <2>1, <2>4 DEF Inv, TypeOK
  <2>6. PICK d \in ProcType : proc' = [proc EXCEPT ![p] = d] /\ d.pc \in {"read", "idle"} /\ d.aside = 0
    BY <1>2, LeaveRecord DEF Repaired
  <2>7. asides' \in [Numbers -> Files \cup {0}] /\ \A k \in Numbers : asides'[k] \in {asides[k], 0}
    BY <1>2 DEF Inv, TypeOK
  <2>8. /\ tmp' = tmp /\ content' = content /\ staged' = staged /\ strategy' = strategy
        /\ name' = f /\ faults' = faults
    BY <1>2 DEF Restore
  <2>9. Apart'
    BY <2>2, <2>3, <2>5, <2>7, <2>8 DEF Inv, Apart
  <2>10. NeverLost'
    BY <2>5, <2>8, LauncherFileAssumption DEF NeverLost, Files
  <2>11. Doing(d)'
    BY <2>6 DEF Doing
  <2>12. QED
    BY <1>1, <2>5, <2>6, <2>7, <2>8, <2>9, <2>10, <2>11, OthersRest, OneStep DEF Inv, TypeOK
<1>3. CASE Leave(p, Over(p)) /\ UNCHANGED <<name, asides>>
  <2>1. faults' \in 0..MaxFaults
    BY FaultType DEF Restore, Inv, TypeOK
  <2>2. QED
    BY <1>1, <1>3, <2>1, GiveUpStep DEF Restore, Over, files
<1>4. QED
  BY <1>2, <1>3 DEF Restore

\* With a launcher at the name, removing files beside it loses nothing.
LEMMA RemoveStep ==
  ASSUME Inv, NEW p \in Procs, Working(p), name # 0,
         NEW d \in ProcType, proc' = [proc EXCEPT ![p] = d], Doing(d)',
         asides' \in [Numbers -> Files \cup {0}], \A n \in Numbers : asides'[n] \in {asides[n], 0},
         tmp' \in {tmp, 0}, UNCHANGED <<strategy, name, content, staged>>, faults' \in 0..MaxFaults
  PROVE  Inv'
<1>1. Apart'
  BY DEF Inv, Apart
<1>2. NeverLost'
  BY DEF Inv, NeverLost
<1>3. tmp' \in Files \cup {0}
  BY DEF Inv, TypeOK
<1>4. QED
  BY <1>1, <1>2, <1>3, OthersRest, OneStep DEF Inv, TypeOK

LEMMA SweepStep == ASSUME Inv, NEW p \in Procs, Sweep(p) PROVE Inv'
<1> DEFINE olds == proc[p].olds
           n == Max(olds)
<1>1. Working(p) /\ name # 0 /\ proc[p] \in ProcType /\ proc[p].pc = "sweep" /\ proc[p].aside = 0
      /\ faults' \in 0..MaxFaults /\ UNCHANGED <<strategy, name, tmp, content, staged>>
  BY DEF Inv, TypeOK, ProcType, Doing, Sweep, At, Working
<1>2. CASE olds = {}
  <2>1. PICK d \in ProcType : proc' = [proc EXCEPT ![p] = d] /\ d.pc = "sweeptmp" /\ d.aside = 0
    BY <1>1, <1>2, GotoRecord DEF Sweep, Pcs
  <2>2. Doing(d)'
    BY <1>1, <2>1 DEF Doing
  <2>3. asides' = asides /\ asides' \in [Numbers -> Files \cup {0}]
    BY <1>2 DEF Sweep, Inv, TypeOK
  <2>4. QED
    BY <1>1, <2>1, <2>2, <2>3, RemoveStep
<1>3. CASE olds # {}
  <2> DEFINE e == [proc[p] EXCEPT !.olds = olds \ {n}]
  <2>1. e \in ProcType /\ e.pc = "sweep" /\ e.aside = 0
    BY <1>1 DEF ProcType
  <2>2. PICK d \in ProcType : proc' = [proc EXCEPT ![p] = d] /\ d.pc = "sweep" /\ d.aside = 0
    BY <1>3, <2>1 DEF Sweep, Inv, TypeOK
  <2>3. Doing(d)'
    BY <1>1, <2>2 DEF Doing
  <2>4. asides' \in [Numbers -> Files \cup {0}] /\ \A k \in Numbers : asides'[k] \in {asides[k], 0}
    BY <1>3 DEF Sweep, Inv, TypeOK
  <2>5. QED
    BY <1>1, <2>2, <2>3, <2>4, RemoveStep
<1>4. QED
  BY <1>2, <1>3

LEMMA SweepTmpStep == ASSUME Inv, NEW p \in Procs, SweepTmp(p) PROVE Inv'
<1>1. Working(p) /\ name # 0 /\ faults' \in 0..MaxFaults /\ UNCHANGED <<strategy, name, content, staged>>
      /\ asides' = asides /\ asides' \in [Numbers -> Files \cup {0}] /\ tmp' \in {tmp, 0}
  BY DEF Inv, TypeOK, Doing, SweepTmp, At, Working
<1>2. PICK d \in ProcType : proc' = [proc EXCEPT ![p] = d] /\ d.pc \in {"read", "idle"} /\ d.aside = 0
  BY LeaveRecord DEF SweepTmp, Repaired
<1>3. Doing(d)'
  BY <1>2 DEF Doing
<1>4. QED
  BY <1>1, <1>2, <1>3, RemoveStep

LEMMA CleanStep == ASSUME Inv, NEW p \in Procs, Clean(p) PROVE Inv'
<1>1. Working(p) /\ Doing(proc[p]) /\ proc[p].pc = "clean"
      /\ faults' \in 0..MaxFaults /\ UNCHANGED <<strategy, name, tmp, content, staged>>
  BY DEF Inv, TypeOK, Clean, At, Working
<1>2. PICK d \in ProcType : proc' = [proc EXCEPT ![p] = d] /\ d.pc = "drop" /\ d.data = proc[p].data
  BY GotoRecord DEF Clean, Pcs
<1>3. Doing(d)' /\ name # 0
  BY <1>1, <1>2 DEF Doing
<1>4. asides' \in [Numbers -> Files \cup {0}] /\ \A k \in Numbers : asides'[k] \in {asides[k], 0}
  BY DEF Clean, Inv, TypeOK
<1>5. QED
  BY <1>1, <1>2, <1>3, <1>4, RemoveStep

\* Without a launcher at the name the file being written is not what stands in for it.
LEMMA DiscardStep == ASSUME Inv, NEW p \in Procs, Discard(p) PROVE Inv'
<1>1. Working(p) /\ UNCHANGED <<strategy, name, asides, content, staged, faults>> /\ tmp' \in {tmp, 0}
  BY DEF Discard, At, Working
<1>2. PICK d \in ProcType : proc' = [proc EXCEPT ![p] = d] /\ d.pc = "run" /\ d.aside = 0
  BY LeaveRecord DEF Discard
<1>3. Doing(d)' /\ Apart' /\ NeverLost'
  BY <1>1, <1>2 DEF Doing, Inv, Apart, NeverLost
<1>4. QED
  BY <1>1, <1>2, <1>3, OthersRest, OneStep DEF Inv, TypeOK

\* The file that is truncated has no other name.
LEMMA CreateStep == ASSUME Inv, NEW p \in Procs, Create(p) PROVE Inv'
<1> DEFINE f == IF tmp # 0 THEN tmp ELSE Fresh
           e == [proc[p] EXCEPT !.pc = "write", !.open = f]
<1>1. Working(p) /\ Doing(proc[p]) /\ proc[p] \in ProcType /\ proc[p].pc = "create"
      /\ f \in Files /\ UNCHANGED <<strategy, name, asides, staged, faults>>
      /\ tmp' = f /\ content' = [content EXCEPT ![f] = Torn]
  BY DEF Inv, TypeOK, ProcType, Create, At, Working
<1>2. f # name /\ \A n \in Numbers : asides[n] # f
  <2>1. CASE tmp # 0
    BY <2>1 DEF Inv, Apart
  <2>2. CASE tmp = 0
    BY <2>2, FreshFile DEF Inv, Used
  <2>3. QED
    BY <2>1, <2>2
<1>3. 0 \notin Files /\ 0 \in 0..MaxVersion
  BY LauncherFileAssumption DEF Files
<1>4. proc' = [proc EXCEPT ![p] = e]
  BY DEF Create, Inv, TypeOK
<1>5. PICK d \in ProcType : /\ proc' = [proc EXCEPT ![p] = d]
                            /\ d.pc = "write" /\ d.open = tmp' /\ d.data = proc[p].data
                            /\ d.aside = proc[p].aside
  <2> HIDE DEF f
  <2>1. e \in ProcType /\ e.pc = "write" /\ e.open = f /\ e.data = proc[p].data
        /\ e.aside = proc[p].aside
    BY <1>1 DEF ProcType, Pcs
  <2>2. QED
    BY <1>1, <1>4, <2>1
<1> HIDE DEF f, e
<1>6. content' \in [Files -> 0..MaxVersion] /\ \A g \in Files : content'[g] = IF g = f THEN Torn ELSE content[g]
  BY <1>1, <1>3 DEF Inv, TypeOK, Torn
<1>7. Doing(d)'
  BY <1>1, <1>3, <1>5, <1>6 DEF Doing
<1>8. Apart'
  BY <1>1, <1>2 DEF Apart
<1>9. NeverLost'
  <2>1. name # 0 => content'[name] = content[name]
    BY <1>2, <1>6 DEF Inv, TypeOK
  <2>2. \A n \in Numbers : asides[n] # 0 => content'[asides[n]] = content[asides[n]]
    BY <1>2, <1>6 DEF Inv, TypeOK
  <2>3. QED
    BY <1>1, <2>1, <2>2 DEF Inv, NeverLost
<1>10. QED
  BY <1>1, <1>5, <1>6, <1>7, <1>8, <1>9, OthersRest, OneStep DEF Inv, TypeOK

\* What is written is the data read, whole: the file was empty and nobody else writes it.
LEMMA WriteStep == ASSUME Inv, NEW p \in Procs, Write(p) PROVE Inv'
<1> DEFINE f == proc[p].open
<1>1. Working(p) /\ Doing(proc[p]) /\ proc[p] \in ProcType /\ proc[p].pc = "write"
      /\ UNCHANGED <<strategy, name, tmp, asides, staged>>
  BY DEF Inv, TypeOK, ProcType, Write, At, Working
<1>2. f = tmp /\ tmp # 0 /\ tmp \in Files /\ content[tmp] = Torn /\ staged # 0 /\ proc[p].data = staged
  BY <1>1 DEF Doing, Inv, TypeOK
<1>3. CASE /\ \E c \in Written(f, proc[p].data) : content' = [content EXCEPT ![f] = c]
           /\ proc' = [proc EXCEPT ![p].pc = IF strategy = "rename" THEN "place" ELSE "aside", ![p].open = 0]
           /\ UNCHANGED faults
  <2> DEFINE e == [proc[p] EXCEPT !.pc = IF strategy = "rename" THEN "place" ELSE "aside", !.open = 0]
  <2>1. content' = [content EXCEPT ![tmp] = staged]
    BY <1>2, <1>3 DEF Written
  <2>2. proc' = [proc EXCEPT ![p] = e]
    BY <1>3 DEF Inv, TypeOK
  <2>3. e \in ProcType
    <3>1. (IF strategy = "rename" THEN "place" ELSE "aside") \in Pcs
      BY DEF Pcs
    <3>2. QED
      BY <1>1, <3>1 DEF ProcType
  <2>4. /\ e.pc = IF strategy = "rename" THEN "place" ELSE "aside"
        /\ e.data = staged /\ e.aside = proc[p].aside
    BY <1>1, <1>2 DEF ProcType
  <2>5. PICK d \in ProcType : /\ proc' = [proc EXCEPT ![p] = d] /\ d.data = staged
                              /\ d.pc = IF strategy = "rename" THEN "place" ELSE "aside"
                              /\ d.aside = proc[p].aside
    BY <2>2, <2>3, <2>4
  <2>6. /\ content' \in [Files -> 0..MaxVersion]
        /\ \A g \in Files : content'[g] = IF g = tmp THEN staged ELSE content[g]
    BY <1>2, <2>1 DEF Inv, TypeOK
  <2>7. strategy = "rename" \/ strategy = "aside"
    BY LauncherFileAssumption DEF Inv, TypeOK
  <2>8. Apart'
    BY <1>1 DEF Inv, Apart
  <2>9. NeverLost'
    <3>1. name # 0 => content'[name] = content[name]
      BY <1>2, <2>6 DEF Inv, TypeOK, Apart
    <3>2. \A n \in Numbers : asides[n] # 0 => content'[asides[n]] = content[asides[n]]
      BY <1>2, <2>6 DEF Inv, TypeOK, Apart
    <3>3. QED
      BY <1>1, <3>1, <3>2 DEF Inv, NeverLost
  <2>10. Doing(d)'
    BY <1>1, <1>2, <2>5, <2>6, <2>7  DEF Doing, Inv
  <2>11. QED
    BY <1>1, <1>3, <2>5, <2>6, <2>8, <2>9, <2>10, OthersRest, OneStep DEF Inv, TypeOK
<1>4. CASE /\ Fault /\ proc' = [proc EXCEPT ![p].pc = "discard", ![p].open = 0]
           /\ UNCHANGED content
  <2> DEFINE e == [proc[p] EXCEPT !.pc = "discard", !.open = 0]
  <2>1. proc' = [proc EXCEPT ![p] = e]
    BY <1>4 DEF Inv, TypeOK
  <2>2. e \in ProcType /\ e.pc = "discard"
    BY <1>1 DEF ProcType, Pcs
  <2>3. Doing(e)
    BY <2>2, RestOK
  <2>4. faults' \in 0..MaxFaults
    BY <1>4, FaultType DEF Inv
  <2>5. QED
    BY <1>1, <1>4, <2>1, <2>2, <2>3, <2>4, OthersRest, QuietStep DEF files
<1>5. QED
  BY <1>3, <1>4 DEF Write

\* The launcher moved aside is whole and has the highest number.
LEMMA MoveStep == ASSUME Inv, NEW p \in Procs, Move(p) PROVE Inv'
<1> DEFINE n == proc[p].aside
<1>1. Working(p) /\ Doing(proc[p]) /\ proc[p].pc = "move" /\ UNCHANGED <<strategy, tmp, content, staged>>
      /\ faults' \in 0..MaxFaults
  BY FaultType DEF Inv, TypeOK, Move, At, Working
<1>2. CASE /\ name # 0 /\ asides' = [asides EXCEPT ![n] = name] /\ name' = 0
           /\ Goto(p, "place") /\ UNCHANGED faults
  <2>1. n \in Numbers /\ strategy = "aside" /\ \A m \in Numbers : m >= n => asides[m] = 0
    BY <1>1 DEF Doing
  <2>2. PICK d \in ProcType : /\ proc' = [proc EXCEPT ![p] = d] /\ d.pc = "place"
                              /\ d.data = proc[p].data /\ d.aside = n
    BY <1>2, GotoRecord DEF Pcs
  <2>3. /\ asides' \in [Numbers -> Files \cup {0}]
        /\ \A m \in Numbers : asides'[m] = IF m = n THEN name ELSE asides[m]
    BY <1>2, <2>1 DEF Inv, TypeOK
  <2>4. content[name] # Torn
    BY <1>2 DEF Inv, NeverLost
  <2>5. Apart'
    BY <1>1, <1>2, <2>3 DEF Inv, Apart
  <2>6. NeverLost'
    <3>1. asides'[n] # 0 /\ content'[asides'[n]] # Torn
      BY <1>1, <1>2, <2>1, <2>3, <2>4
    <3>2. \A m \in Numbers : m > n => asides'[m] = 0
      BY <2>1, <2>3 DEF Numbers
    <3>3. QED
      BY <1>1, <1>2, <2>1, <3>1, <3>2 DEF NeverLost
  <2>7. Doing(d)'
    <3>1. tmp # 0 /\ content[tmp] = proc[p].data /\ proc[p].data = staged /\ staged # 0
      BY <1>1 DEF Doing
    <3>2. asides'[n] = name
      BY <2>1, <2>3
    <3>3. QED
      BY <1>1, <1>2, <2>2, <2>4, <3>1, <3>2 DEF Doing
  <2>8. QED
    BY <1>1, <1>2, <2>2, <2>3, <2>5, <2>6, <2>7, OthersRest, OneStep DEF Inv, TypeOK
<1>3. CASE Goto(p, "discard") /\ UNCHANGED <<name, asides>>
  <2>1. PICK d \in ProcType : proc' = [proc EXCEPT ![p] = d] /\ d.pc = "discard"
    BY <1>3, GotoRecord DEF Pcs
  <2>2. QED
    BY <1>1, <1>3, <2>1, RestOK, OthersRest, QuietStep DEF files
<1>4. QED
  BY <1>2, <1>3 DEF Move

\* What takes the name is the staged launcher, whole.
LEMMA PlaceStep == ASSUME Inv, NEW p \in Procs, Place(p) PROVE Inv'
<1>1. Working(p) /\ Doing(proc[p]) /\ proc[p].pc = "place" /\ proc[p] \in ProcType
      /\ UNCHANGED <<strategy, asides, content, staged>> /\ faults' \in 0..MaxFaults
  BY FaultType DEF Inv, TypeOK, ProcType, Place, At, Working
<1>2. /\ tmp # 0 /\ content[tmp] = proc[p].data /\ proc[p].data = staged /\ staged # 0
      /\ proc[p].aside # 0 => proc[p].aside \in Numbers
  BY <1>1, LauncherFileAssumption DEF Doing, ProcType, Numbers
<1>3. CASE name' = tmp /\ tmp' = 0 /\ (Goto(p, IF proc[p].aside # 0 THEN "clean" ELSE "drop") \/ Leave(p, "run"))
  <2>1. Apart' /\ NeverLost'
    BY <1>1, <1>2, <1>3 DEF Apart, NeverLost, Torn
  <2>2. PICK d \in ProcType :
          /\ proc' = [proc EXCEPT ![p] = d]
          /\ \/ d.pc = "run" /\ d.aside = 0
             \/ /\ d.data = proc[p].data /\ d.aside = proc[p].aside
                /\ d.pc = IF proc[p].aside # 0 THEN "clean" ELSE "drop"
    BY <1>3, GotoRecord, LeaveRecord DEF Pcs
  <2>3. Doing(d)'
    BY <1>1, <1>2, <1>3, <2>2 DEF Doing
  <2>4. QED
    BY <1>1, <1>2, <1>3, <2>1, <2>2, <2>3, OthersRest, OneStep DEF Inv, TypeOK
<1>4. CASE Goto(p, AfterFailure(p)) /\ UNCHANGED <<name, tmp>>
  <2>1. PICK d \in ProcType :
          /\ proc' = [proc EXCEPT ![p] = d] /\ d.aside = proc[p].aside
          /\ d.pc = IF proc[p].aside # 0 THEN "back" ELSE "discard"
    BY <1>4, GotoRecord DEF Pcs, AfterFailure
  <2>2. Doing(d)
    BY <1>1, <2>1 DEF Doing
  <2>3. QED
    BY <1>1, <1>4, <2>1, <2>2, OthersRest, QuietStep DEF files
<1>5. QED
  BY <1>3, <1>4 DEF Place

LEMMA BackStep == ASSUME Inv, NEW p \in Procs, Back(p) PROVE Inv'
<1> DEFINE n == proc[p].aside
           f == asides[n]
<1>1. Working(p) /\ Doing(proc[p]) /\ proc[p].pc = "back" /\ proc[p] \in ProcType
      /\ UNCHANGED <<strategy, tmp, content, staged>> /\ faults' \in 0..MaxFaults
  BY FaultType DEF Inv, TypeOK, ProcType, Back, At, Working
<1>2. n \in Numbers /\ f # 0 /\ content[f] # Torn /\ f \in Files
  <2>1. n # 0 /\ n \in Numbers
    BY <1>1, LauncherFileAssumption DEF Doing, ProcType, Numbers
  <2>2. QED
    BY <1>1, <2>1 DEF Doing, Inv, TypeOK
<1>3. CASE name' = f /\ asides' = [asides EXCEPT ![n] = 0] /\ Goto(p, "discard")
  <2>1. PICK d \in ProcType : proc' = [proc EXCEPT ![p] = d] /\ d.pc = "discard"
    BY <1>3, GotoRecord DEF Pcs
  <2>2. asides' \in [Numbers -> Files \cup {0}] /\ \A k \in Numbers : asides'[k] \in {asides[k], 0}
    BY <1>3 DEF Inv, TypeOK
  <2>3. Apart' /\ NeverLost'
    BY <1>1, <1>2, <1>3, <2>2 DEF Inv, Apart, NeverLost
  <2>4. Doing(d)'
    BY <2>1 DEF Doing
  <2>5. QED
    BY <1>1, <1>2, <1>3, <2>1, <2>2, <2>3, <2>4, OthersRest, OneStep DEF Inv, TypeOK
<1>4. CASE Leave(p, "run") /\ UNCHANGED <<name, asides>>
  BY <1>1, <1>4, GiveUpStep DEF files
<1>5. QED
  BY <1>3, <1>4 DEF Back

LEMMA DropStagedStep == ASSUME Inv, NEW p \in Procs, DropStaged(p) PROVE Inv'
<1>1. Working(p) /\ UNCHANGED <<strategy, files>> /\ faults' \in 0..MaxFaults /\ staged' \in 0..MaxVersion
  BY FaultType, LauncherFileAssumption DEF Inv, TypeOK, DropStaged, At, Working
<1>2. PICK d \in ProcType : proc' = [proc EXCEPT ![p] = d] /\ d.pc = "run" /\ d.aside = 0
  BY LeaveRecord DEF DropStaged
<1>3. Doing(d)' /\ Apart' /\ NeverLost'
  BY <1>1, <1>2 DEF Doing, Inv, Apart, NeverLost, files
<1>4. QED
  BY <1>1, <1>2, <1>3, OthersRest, OneStep DEF Inv, TypeOK, files

\* A new launcher is staged only while nobody works on the one there.
LEMMA PromoteStep == ASSUME Inv, ~Overlap, NEW v \in 2..MaxVersion, Promote(v) PROVE Inv'
<1>1. /\ \A q \in Procs : ~Working(q) /\ proc[q].pc \in {"idle", "run"}
      /\ UNCHANGED <<strategy, files, proc, faults>> /\ staged' \in 0..MaxVersion
  BY LauncherFileAssumption DEF Promote, Working
<1>2. TypeOK' /\ Alone' /\ Apart' /\ NeverLost'
  BY <1>1 DEF Inv, TypeOK, Alone, Working, Apart, NeverLost, files
<1>3. \A q \in Procs : Doing(proc[q])'
  <2> SUFFICES ASSUME NEW q \in Procs PROVE Doing(proc[q])'
    OBVIOUS
  <2>1. proc[q].pc \in {"idle", "run"} /\ proc[q].aside = 0 /\ proc' = proc
    BY <1>1 DEF Inv, Doing
  <2>2. QED
    BY <2>1 DEF Doing
<1>4. QED
  BY <1>2, <1>3 DEF Inv

---------------------------------------------------------------------------
(* The invariant and the promises.                                         *)

LEMMA InitInv == Init => Inv
<1> SUFFICES ASSUME Init PROVE Inv
  OBVIOUS
<1>1. Idle \in ProcType /\ Idle.pc = "idle" /\ Idle.aside = 0
  BY LauncherFileAssumption DEF Idle, ProcType, Pcs
<1>2. 1 \in Files /\ 0 \notin Files
  <2>1. Cardinality(Procs) \in Nat
    BY LauncherFileAssumption, FS_Union, FS_CardinalityType DEF Procs
  <2>2. QED
    BY <2>1, LauncherFileAssumption DEF Files
<1>3. content \in [Files -> 0..MaxVersion] /\ content[1] = 1
  BY <1>2, LauncherFileAssumption DEF Init, Torn
<1>4. TypeOK
  BY <1>1, <1>2, <1>3, LauncherFileAssumption DEF Init, TypeOK, ProcType
<1>5. \A p \in Procs : proc[p] = Idle
  BY DEF Init
<1>6. Alone /\ \A p \in Procs : Doing(proc[p])
  BY <1>1, <1>5 DEF Alone, Working, Doing
<1>7. Apart /\ NeverLost
  BY <1>3 DEF Init, Apart, NeverLost, Torn
<1>8. QED
  BY <1>4, <1>6, <1>7 DEF Inv

LEMMA InvStep == ASSUME ~Overlap PROVE Inv /\ [Next]_vars => Inv'
<1> SUFFICES ASSUME Inv, [Next]_vars PROVE Inv'
  OBVIOUS
<1>1. CASE UNCHANGED vars
  <2>1. TypeOK' /\ Alone' /\ Apart' /\ NeverLost'
    BY <1>1 DEF Inv, TypeOK, Alone, Working, Apart, NeverLost, vars
  <2>2. \A p \in Procs : Doing(proc[p])'
    BY <1>1 DEF Inv, Doing, Listed, vars
  <2>3. QED
    BY <2>1, <2>2 DEF Inv
<1>2. ASSUME NEW p \in Procs, Step(p) PROVE Inv'
  <2>1. CASE Repairing(p)
    BY <2>1, ListStep, LookStep, RestoreStep, SweepStep, SweepTmpStep DEF Repairing
  <2>2. CASE Replacing(p)
    BY <2>2, ReadStagedStep, CompareStep, CreateStep, WriteStep, AsideStep, MoveStep, PlaceStep, BackStep,
       DiscardStep, CleanStep, DropStagedStep DEF Replacing
  <2>3. QED
    BY <1>2, <2>1, <2>2 DEF Step
<1>3. ASSUME NEW p \in Procs, Start(p) \/ RepairLauncher(p) \/ Exit(p) \/ Crash(p) PROVE Inv'
  BY <1>3, StartStep, RepairLauncherStep, RestStep
<1>4. QED
  BY <1>1, <1>2, <1>3, PromoteStep DEF Next

\* Inv holds in every state, if one process at a time works on the launcher.
THEOREM Invariance == ASSUME ~Overlap PROVE Spec => []Inv
  BY InitInv, InvStep, PTL DEF Spec

\* ReplaceByRename and ReplaceAside: whatever is interrupted and whenever, a whole
\* launcher is at the name, or beside it where Repair finds it.
THEOREM LauncherNeverLost == ASSUME ~Overlap PROVE Spec => []NeverLost
<1>1. Inv => NeverLost
  BY DEF Inv
<1>2. QED
  BY <1>1, Invariance, PTL

\* updateSelf: the staged launcher goes only when it is the one at the name.
THEOREM StagedLauncherKept == ASSUME ~Overlap PROVE Spec => StagedKept
<1>1. Inv /\ [Next]_vars => [staged # 0 /\ staged' = 0 => name # 0 /\ content[name] = staged]_vars
  <2> SUFFICES ASSUME Inv, Next, staged # 0, staged' = 0 PROVE name # 0 /\ content[name] = staged
    OBVIOUS
  <2>1. ASSUME NEW p \in Procs, DropStaged(p) PROVE name # 0 /\ content[name] = staged
    BY <2>1 DEF DropStaged, At, Inv, Doing
  <2>2. ASSUME NEW p \in Procs, ~DropStaged(p) PROVE ~Step(p)
    BY <2>2 DEF Step, Repairing, Replacing, List, Look, Restore, Sweep, SweepTmp, ReadStaged, Compare,
       Create, Write, Aside, Move, Place, Back, Discard, Clean
  <2>3. ASSUME NEW p \in Procs PROVE ~(Start(p) \/ RepairLauncher(p) \/ Exit(p) \/ Crash(p))
    BY DEF Start, RepairLauncher, Exit, Crash
  <2>4. ASSUME NEW v \in 2..MaxVersion PROVE ~Promote(v)
    BY LauncherFileAssumption DEF Promote
  <2>5. QED
    BY <2>1, <2>2, <2>3, <2>4 DEF Next
<1>2. QED
  BY <1>1, Invariance, PTL DEF Spec, StagedKept

=============================================================================
