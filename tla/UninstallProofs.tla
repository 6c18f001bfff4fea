--------------------------- MODULE UninstallProofs ---------------------------
(***************************************************************************)
(* The safety properties of Uninstall, for any number of faults.           *)
(*                                                                         *)
(* The argument is the order of the removal.  Every place of a run stands  *)
(* for what is already gone by then (Progress), everything from the        *)
(* deletion of the entry on needs an uninstall that began, and one that    *)
(* began is either still on record in the journal or has nothing left to   *)
(* record (Recorded).                                                      *)
(***************************************************************************)
EXTENDS Uninstall, TLAPS

\* The places of a run that have the deletion of the part behind them.
AfterCaches == {"state", "journal", "meta", "sweep", "self", "root"}
AfterVersions == AfterCaches \cup {"purge", "caches"}
AfterPointer == AfterVersions \cup {"trees", "versions"}
AfterRecord == AfterPointer \cup {"pointer"}
Removing == AfterRecord \cup {"entry", "record"}

\* Nothing is left that the journal would have to answer for.
Cleared ==
    /\ ~entry /\ ~cache
    /\ disk \cap {"pointer", "versions", "trees", "state", "record"} = {}

\* What is gone at each place of a run.
Progress ==
    /\ run.pc \in AfterRecord \cup {"record"} => ~entry
    /\ run.pc \in AfterRecord => "record" \notin disk
    /\ run.pc \in AfterPointer => "pointer" \notin disk
    /\ run.pc \in AfterPointer \ {"trees"} => "trees" \notin disk
    /\ run.pc \in AfterVersions => run.failed \/ "versions" \notin disk
    /\ run.pc \in AfterCaches => "versions" \notin disk /\ ~cache
    /\ run.pc \in AfterCaches \ {"state"} => "state" \notin disk

\* What a run found is still so when it acts on it.
Found ==
    /\ run.pc \in {"lock", "hook", "settle", "begin"} => run.recorded = ("record" \in disk)
    /\ run.pc = "lock" => run.resumed = (consent = "begun")
    /\ run.pc \in {"hook", "settle", "begin"} => consent # "begun"
    /\ run.pc \in {"settle", "begin"} => consent = "agreed"

\* An uninstall that began is on record or has nothing left to record; before one
\* began the installation is whole.  What stands in the root stands in a root.
Recorded ==
    /\ run.pc \in Removing => consent = "begun"
    /\ journal = "UNINSTALLING" => consent = "begun"
    /\ consent = "begun" => journal = "UNINSTALLING" \/ (journal = "NONE" /\ Cleared)
    /\ consent # "begun" => "versions" \in disk /\ ("pointer" \in disk => "trees" \in disk)
    /\ consent # "begun" => copies = {}
    /\ disk # {} => "root" \in disk

IndInv == TypeOK /\ EntryRecorded /\ Progress /\ Found /\ Recorded

-----------------------------------------------------------------------------
(* The record of a run keeps its type when the run moves, fails or ends. *)
LEMMA RunTyped ==
    ASSUME run \in Runs
    PROVE  /\ Idle \in Runs
           /\ \A p \in Pcs : [run EXCEPT !.pc = p] \in Runs
           /\ \A p \in Pcs : [run EXCEPT !.pc = p, !.failed = TRUE] \in Runs
           /\ \A p \in Pcs, b \in BOOLEAN : [run EXCEPT !.pc = p, !.kept = b] \in Runs
<1>1. "idle" \in Pcs
    BY DEF Pcs
<1> QED BY <1>1 DEF Runs, Idle

(* Every step keeps the types of the variables. *)
LEMMA TypeNext ==
    ASSUME TypeOK, [Next]_vars
    PROVE  TypeOK'
<1> USE UninstallAssumption DEF TypeOK, At, Goto, Return, root, outside, machine
<1>0. /\ Idle \in Runs
      /\ \A p \in Pcs : [run EXCEPT !.pc = p] \in Runs
      /\ \A p \in Pcs : [run EXCEPT !.pc = p, !.failed = TRUE] \in Runs
      /\ \A p \in Pcs, b \in BOOLEAN : [run EXCEPT !.pc = p, !.kept = b] \in Runs
    BY RunTyped
<1>1. ASSUME NEW self \in BOOLEAN, NEW lock \in BOOLEAN, NEW purge \in BOOLEAN,
             NEW registry \in BOOLEAN, Identify(self, lock, purge, registry)
      PROVE  TypeOK'
    <2> DEFINE resumed == Resumes(self)
               hasJournal == journal # "NONE"
               recorded == "record" \in disk
    <2>0. resumed \in BOOLEAN /\ hasJournal \in BOOLEAN /\ recorded \in BOOLEAN
        BY DEF Resumes
    <2>a. run' = [pc |-> "lock", self |-> self, lock |-> lock, purge |-> purge,
                  resumed |-> resumed, hasJournal |-> hasJournal, recorded |-> recorded,
                  failed |-> FALSE, kept |-> FALSE]
        BY <1>1 DEF Identify, Idle
    <2>b. "lock" \in Pcs
        BY DEF Pcs
    <2> HIDE DEF resumed, hasJournal, recorded
    <2>1. run' \in Runs
        BY <1>1, <2>0, <2>a, <2>b, Zenon DEF Runs
    <2> QED BY <1>1, <2>1 DEF Identify
<1>2. CASE TryLock
    <2>1. run' \in Runs
        BY <1>0, <1>2 DEF TryLock, Pcs
    <2> QED BY <1>2, <2>1 DEF TryLock, Parts, Journals
<1>3. CASE BeforeUninstall
    <2>1. run' \in Runs
        BY <1>0, <1>3 DEF BeforeUninstall, Pcs
    <2> QED BY <1>3, <2>1 DEF BeforeUninstall, Parts, Journals
<1>4. CASE Settle
    <2>1. run' \in Runs
        BY <1>0, <1>4 DEF Settle, Pcs
    <2> QED BY <1>4, <2>1 DEF Settle, Parts, Journals, RecoverRoot
<1>5. CASE Begin
    <2>1. run' \in Runs
        BY <1>0, <1>5 DEF Begin, Pcs
    <2> QED BY <1>5, <2>1 DEF Begin, Parts, Journals
<1>6. CASE Unregister
    <2>1. run' \in Runs
        BY <1>0, <1>6 DEF Unregister, Pcs
    <2> QED BY <1>6, <2>1 DEF Unregister, Parts, Journals, Removes
<1>7. CASE RemovePointer
    <2>1. run' \in Runs
        BY <1>0, <1>7 DEF RemovePointer, Pcs
    <2> QED BY <1>7, <2>1 DEF RemovePointer, Parts, Journals, Removes
<1>8. CASE RemoveVersions
    <2>1. run' \in Runs
        BY <1>0, <1>8 DEF RemoveVersions, Pcs
    <2> QED BY <1>8, <2>1 DEF RemoveVersions, Parts, Journals, Removes, InUse, Fault
<1>9. CASE PurgeData
    <2>1. run' \in Runs
        BY <1>0, <1>9 DEF PurgeData, Pcs
    <2>2. data' \in BOOLEAN
        BY <1>9, Zenon DEF PurgeData
    <2>3. faults' \in 0..MaxFaults
        BY <1>9 DEF PurgeData, Fault
    <2> QED BY <1>9, <2>1, <2>2, <2>3 DEF PurgeData
<1>10. CASE RemoveCaches
    <2>1. run' \in Runs
        BY <1>0, <1>10 DEF RemoveCaches, Pcs
    <2>2. cache' \in BOOLEAN
        BY <1>10, Zenon DEF RemoveCaches
    <2>3. faults' \in 0..MaxFaults
        BY <1>10 DEF RemoveCaches, Fault
    <2> QED BY <1>10, <2>1, <2>2, <2>3 DEF RemoveCaches
<1>11. CASE RemoveMeta
    <2>1. run' \in Runs
        BY <1>0, <1>11 DEF RemoveMeta, Pcs
    <2> QED BY <1>11, <2>1 DEF RemoveMeta, Parts, Journals, Removes
<1>12. CASE SweepRoot
    <2>1. run' \in Runs
        BY <1>0, <1>12 DEF SweepRoot, Pcs
    <2> QED BY <1>12, <2>1 DEF SweepRoot, Parts, Journals, Removes
<1>13. CASE RemoveSelf
    <2>1. run' \in Runs
        BY <1>0, <1>13 DEF RemoveSelf, Pcs
    <2> QED BY <1>13, <2>1 DEF RemoveSelf, Parts, Journals, Removes
<1>14. CASE RemoveRoot
    <2>1. run' \in Runs
        BY <1>0, <1>14 DEF RemoveRoot, Pcs
    <2> QED BY <1>14, <2>1 DEF RemoveRoot, Parts, Journals, WithoutRoot
<1>15. CASE Stop
    <2>1. run' \in Runs
        BY <1>0, <1>15 DEF Stop, Pcs
    <2> QED BY <1>15, <2>1 DEF Stop, Parts, Journals, Fault
<1>16. CASE Start
    <2>1. run' \in Runs
        BY <1>0, <1>16 DEF Start, Pcs
    <2> QED BY <1>16, <2>1 DEF Start, Parts, Journals, RecoverRoot
<1>17. CASE Close
    <2>1. run' \in Runs
        BY <1>0, <1>17 DEF Close, Pcs
    <2> QED BY <1>17, <2>1 DEF Close, Parts, Journals
<1>18. CASE Update
    <2>1. run' \in Runs
        BY <1>0, <1>18 DEF Update, Pcs
    <2> QED BY <1>18, <2>1 DEF Update, Parts, Journals
<1>19. CASE UserWrites
    <2>1. run' \in Runs
        BY <1>0, <1>19 DEF UserWrites, Pcs
    <2> QED BY <1>19, <2>1 DEF UserWrites, Parts, Journals
<1>20. ASSUME NEW removeRoot \in BOOLEAN, Finish(removeRoot) \/ GiveUp(removeRoot)
      PROVE  TypeOK'
    BY <1>20 DEF Finish, GiveUp, WithoutRoot, Removes, Fault
<1>21. CASE UNCHANGED vars
    BY <1>21 DEF vars
<1> QED
    BY <1>1, <1>2, <1>3, <1>4, <1>5, <1>6, <1>7, <1>8, <1>9, <1>10, <1>11, <1>12, <1>13,
       <1>14, <1>15, <1>16, <1>17, <1>18, <1>19, <1>20, <1>21
    DEF Next, Step

(* Every step keeps the order of the removal. *)
LEMMA OrderNext ==
    ASSUME IndInv, TypeOK', [Next]_vars
    PROVE  EntryRecorded' /\ Progress' /\ Found' /\ Recorded'
<1>0. run \in Runs
    BY DEF IndInv, TypeOK
<1> DEFINE Order == EntryRecorded /\ Progress /\ Found /\ Recorded
<1> USE DEF IndInv, EntryRecorded, Progress, Found, Recorded, Cleared, AfterCaches, AfterVersions,
            AfterPointer, AfterRecord, Removing, Runs, Idle, At, Goto, Return, root, outside,
            machine
<1>1. ASSUME NEW self \in BOOLEAN, NEW lock \in BOOLEAN, NEW purge \in BOOLEAN,
             NEW registry \in BOOLEAN, Identify(self, lock, purge, registry)
      PROVE  Order'
    BY <1>0, <1>1 DEF Order, Identify, Identified, Resumes, OnlyLeftovers
<1>2. CASE TryLock
    BY <1>0, <1>2 DEF Order, TryLock
<1>3. CASE BeforeUninstall
    BY <1>0, <1>3 DEF Order, BeforeUninstall
<1>4. CASE Settle
    BY <1>0, <1>4 DEF Order, Settle, RecoverRoot
<1>5. CASE Begin
    BY <1>0, <1>5 DEF Order, Begin
<1>6. CASE Unregister
    BY <1>0, <1>6 DEF Order, Unregister, Removes
<1>7. CASE RemovePointer
    BY <1>0, <1>7 DEF Order, RemovePointer, Removes
<1>8. CASE RemoveVersions
    BY <1>0, <1>8 DEF Order, RemoveVersions, Removes, InUse, Fault
<1>9. CASE PurgeData
    BY <1>0, <1>9 DEF Order, PurgeData, Fault
<1>10. CASE RemoveCaches
    BY <1>0, <1>10 DEF Order, RemoveCaches, Fault
<1>11. CASE RemoveMeta
    BY <1>0, <1>11 DEF Order, RemoveMeta, Removes
<1>12. CASE SweepRoot
    BY <1>0, <1>12 DEF Order, SweepRoot, Removes
<1>13. CASE RemoveSelf
    BY <1>0, <1>13 DEF Order, RemoveSelf, Removes
<1>14. CASE RemoveRoot
    BY <1>0, <1>14 DEF Order, RemoveRoot, WithoutRoot
<1>15. CASE Stop
    BY <1>0, <1>15 DEF Order, Stop, Fault
<1>16. CASE Start
    BY <1>0, <1>16 DEF Order, Start, Runnable, RecoverRoot
<1>17. CASE Close
    BY <1>0, <1>17 DEF Order, Close
<1>18. CASE Update
    BY <1>0, <1>18 DEF Order, Update
<1>19. CASE UserWrites
    BY <1>0, <1>19 DEF Order, UserWrites
<1>20. ASSUME NEW removeRoot \in BOOLEAN, Finish(removeRoot) \/ GiveUp(removeRoot)
      PROVE  Order'
    BY <1>0, <1>20 DEF Order, Finish, GiveUp, WithoutRoot, Removes, Fault
<1>21. CASE UNCHANGED vars
    BY <1>0, <1>21 DEF Order, vars
<1> QED
    BY <1>1, <1>2, <1>3, <1>4, <1>5, <1>6, <1>7, <1>8, <1>9, <1>10, <1>11, <1>12, <1>13,
       <1>14, <1>15, <1>16, <1>17, <1>18, <1>19, <1>20, <1>21
    DEF Next, Step

(* The inductive invariant holds initially. *)
LEMMA InvInit == Init => IndInv
<1> SUFFICES ASSUME Init PROVE IndInv
    OBVIOUS
<1>1. /\ disk \subseteq Parts /\ journal \in Journals \ {"UNINSTALLING"}
      /\ "versions" \in disk /\ ("pointer" \in disk => "trees" \in disk) /\ "root" \in disk
    BY DEF Init, Parts, Journals
<1>2. entry \in BOOLEAN /\ EntryRecorded
    BY Zenon DEF Init, EntryRecorded
<1>3. run = Idle /\ run.pc = "idle" /\ run \in Runs
    BY DEF Init, Idle, Runs, Pcs
<1>4. TypeOK
    <2>1. /\ cache \in BOOLEAN /\ data \in BOOLEAN /\ holdsImage \in BOOLEAN
          /\ running \in BOOLEAN /\ copies \subseteq BOOLEAN
        BY Zenon DEF Init
    <2>2. consent \in {"none", "agreed", "begun"} /\ faults \in 0..MaxFaults
        BY UninstallAssumption DEF Init
    <2> QED BY <1>1, <1>2, <1>3, <2>1, <2>2 DEF TypeOK
<1>5. Progress /\ Found
    BY <1>3
    DEF Progress, Found, AfterCaches, AfterVersions, AfterPointer, AfterRecord
<1>6. Recorded
    BY <1>1, <1>3
    DEF Init, Recorded, Removing, AfterCaches, AfterVersions, AfterPointer, AfterRecord
<1> QED BY <1>2, <1>4, <1>5, <1>6 DEF IndInv

(* At every moment the uninstall is on record or has nothing left to record, and  *)
(* each place of a run has the removals before it behind it (uninstall.go, Run).  *)
THEOREM InvariantHolds == Spec => []IndInv
<1>1. IndInv /\ [Next]_vars => IndInv'
    <2> SUFFICES ASSUME IndInv, [Next]_vars PROVE IndInv'
        OBVIOUS
    <2>1. TypeOK'
        BY TypeNext DEF IndInv
    <2> QED BY <2>1, OrderNext DEF IndInv
<1> QED BY <1>1, InvInit, PTL DEF Spec

(* A start that is not refused finds the whole tree its pointer names.            *)
THEOREM StartsAlwaysWhole == Spec => []StartsWhole
<1>1. IndInv => StartsWhole
    BY DEF IndInv, Recorded, Cleared, StartsWhole, Runnable
<1> QED BY <1>1, InvariantHolds, PTL

(* An uninstall that began is resumed as such from a root that holds only idunn's *)
(* files, and the host is not asked again.                                        *)
THEOREM AlwaysResumed == Spec => []Resumable
<1>1. IndInv => Resumable
    BY DEF IndInv, TypeOK, Parts, Recorded, Cleared, Resumable, Resumes, OnlyLeftovers
<1> QED BY <1>1, InvariantHolds, PTL

(* A registered "Installed apps" entry always has its record in the root.         *)
THEOREM EntryStaysRecorded == Spec => []EntryRecorded
<1>1. IndInv => EntryRecorded
    BY DEF IndInv
<1> QED BY <1>1, InvariantHolds, PTL

(* The journal goes only when nothing it stands for is left.                      *)
THEOREM EvidenceGoesLast == Spec => []EvidenceLast
<1>1. IndInv => EvidenceLast
    BY DEF IndInv, Recorded, Cleared, EvidenceLast
<1> QED BY <1>1, InvariantHolds, PTL

(* Nothing is removed, in the root or outside it, before the host agreed and the  *)
(* uninstall is on record: every removal belongs to an uninstall that began.      *)
THEOREM NothingRemovedUnagreed == Spec => UntouchedUnlessAgreed
<1> DEFINE Untouched == consent # "begun" =>
             disk \subseteq disk' /\ entry' = entry /\ cache' = cache /\ data' = data
<1>1. IndInv /\ [Next]_vars => [Untouched]_vars
    <2> SUFFICES ASSUME IndInv, Next, consent # "begun"
                 PROVE  disk \subseteq disk' /\ entry' = entry /\ cache' = cache /\ data' = data
        OBVIOUS
    <2>1. run.pc \notin Removing /\ copies = {}
        BY DEF IndInv, Recorded
    <2>2. CASE \E self, lock, purge, registry \in BOOLEAN : Identify(self, lock, purge, registry)
        BY <2>2 DEF Identify, root, outside
    <2>3. CASE Step
        BY <2>1, <2>3
        DEF Step, TryLock, BeforeUninstall, Settle, Begin, Unregister, RemovePointer,
            RemoveVersions, PurgeData, RemoveCaches, RemoveMeta, SweepRoot, RemoveSelf,
            RemoveRoot, RecoverRoot, Removing, AfterRecord, AfterPointer, AfterVersions,
            AfterCaches, At, root, outside
    <2>4. CASE Stop \/ Start \/ Close \/ Update \/ UserWrites
        BY <2>4 DEF Stop, Start, Close, Update, UserWrites, RecoverRoot, root, outside
    <2>5. CASE \E removeRoot \in BOOLEAN : Finish(removeRoot) \/ GiveUp(removeRoot)
        BY <2>1, <2>5 DEF Finish, GiveUp
    <2> QED BY <2>2, <2>3, <2>4, <2>5 DEF Next
<1> QED BY <1>1, InvariantHolds, PTL DEF Spec, UntouchedUnlessAgreed

(* No step removes a file idunn did not install, or the root that holds it.       *)
THEOREM UserFilesAlwaysStay == Spec => UserFilesStay
<1> DEFINE Kept == "user" \in disk => {"user", "root"} \subseteq disk'
<1>1. IndInv /\ [Next]_vars => [Kept]_vars
    <2> SUFFICES ASSUME IndInv, Next, "user" \in disk
                 PROVE  "user" \in disk' /\ "root" \in disk'
        OBVIOUS
    <2>1. "root" \in disk
        BY DEF IndInv, Recorded
    <2>2. CASE \E self, lock, purge, registry \in BOOLEAN : Identify(self, lock, purge, registry)
        BY <2>1, <2>2 DEF Identify, root
    <2>3. CASE Step
        BY <2>1, <2>3
        DEF Step, TryLock, BeforeUninstall, Settle, Begin, Unregister, RemovePointer,
            RemoveVersions, PurgeData, RemoveCaches, RemoveMeta, SweepRoot, RemoveSelf,
            RemoveRoot, WithoutRoot, RecoverRoot, Removes, root
    <2>4. CASE Stop \/ Start \/ Close \/ Update \/ UserWrites
        BY <2>1, <2>4 DEF Stop, Start, Close, Update, UserWrites, RecoverRoot, root
    <2>5. CASE \E removeRoot \in BOOLEAN : Finish(removeRoot) \/ GiveUp(removeRoot)
        BY <2>1, <2>5 DEF Finish, GiveUp, WithoutRoot, Removes, root
    <2> QED BY <2>2, <2>3, <2>4, <2>5 DEF Next
<1> QED BY <1>1, InvariantHolds, PTL DEF Spec, UserFilesStay
=============================================================================
