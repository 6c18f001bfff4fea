---------------------------- MODULE ElevateProofs ----------------------------
(***************************************************************************)
(* The safety properties of Elevate, for any number of users, roots,       *)
(* connections, versions and events.                                       *)
(*                                                                         *)
(* What a helper relies on when it installs was established several steps  *)
(* before, one after the other: who asks at the accept, the root and the   *)
(* head when the request was read, the version at the resolution.  SlotOK  *)
(* says what each stage of an exchange stands for, and that it still holds *)
(* although the helper may have been restarted with other accounts and the *)
(* channel may have moved on.                                              *)
(***************************************************************************)
EXTENDS Elevate, TLAPS

\* What an exchange has behind it at each stage.
SlotOK(s) ==
  /\ s.stage \in Working /\ s.kind = "service" => helper.up /\ uidPermitted(s.who, helper.uids)
  /\ s.stage \in {"checked", "resolved"} =>
       /\ s.vouched /\ s.seen <= head[Channel]
       /\ s.kind = "service" => s.root \in AllowedRoots
  /\ s.stage = "resolved" =>
       /\ s.from < s.version /\ s.version <= head[s.channel]
       /\ s.kind = "service" => s.channel = Channel /\ s.seen <= s.version

\* Whoever waits, waits on a connection that is not free.
WaitsOnSlot == \A u \in Users : client[u].slot # 0 => ~Free(client[u].slot)

\* Only connections to the service are ever queued.
QueuedByService == \A i \in Slots : slots[i].stage = "queued" => slots[i].kind = "service"

Inv == TypeOK /\ WaitsOnSlot /\ QueuedByService /\ (\A i \in Slots : SlotOK(slots[i])) /\ ReportedInstalled

---------------------------------------------------------------------------
(* The records the actions are made of.                                    *)

LEMMA RootChosen == (CHOOSE r \in Roots : TRUE) \in Roots
  BY ElevateAssumption

LEMMA NoSlotType == NoSlot \in SlotType
  BY ElevateAssumption, RootChosen DEF NoSlot, SlotType, Versions, Classes

LEMMA IdleType == Idle \in ClientType
  BY ElevateAssumption, RootChosen DEF Idle, ClientType, Versions

LEMMA EndedType ==
  ASSUME NEW s \in SlotType, NEW stage \in {"reply", "answered"}, NEW class \in Classes
  PROVE  Ended(s, stage, class) \in SlotType
  BY NoSlotType DEF Ended, SlotType

\* An exchange that is over has nothing to show.
LEMMA EndedOK ==
  ASSUME NEW s \in SlotType, NEW stage \in {"reply", "answered"}, NEW class \in Classes
  PROVE  SlotOK(Ended(s, stage, class))
  BY NoSlotType DEF Ended, SlotType, SlotOK, Working

LEMMA NoSlotOK == SlotOK(NoSlot)
  BY DEF NoSlot, SlotOK, Working

LEMMA RequestType ==
  ASSUME TypeOK, NEW u \in Users, NEW stage \in {"queued", "reading"}
  PROVE  newRequest(u, stage) \in SlotType
  BY NoSlotType DEF newRequest, SlotType, TypeOK, ClientType, Working

\* A queued slot is one of the backlog, a slot of the backlog is queued.
LEMMA QueuedInBacklog ==
  ASSUME TypeOK
  PROVE  /\ \A i \in Slots : slots[i].stage = "queued" <=> \E k \in DOMAIN backlog : backlog[k] = i
         /\ \A j, k \in DOMAIN backlog : backlog[j] = backlog[k] => j = k
  BY DEF TypeOK, Range, IsInjective

\* Whoever waits on a connection, waits on one of the table.
LEMMA SlotWaited ==
  ASSUME TypeOK
  PROVE  \A u \in Users : client[u].slot # 0 => client[u].slot \in Slots
  BY ElevateAssumption DEF TypeOK, ClientType, Slots

---------------------------------------------------------------------------
(* The actions.                                                            *)

\* A step inside one exchange: it was taken from the backlog, is not over, and what it
\* shows afterwards is what SlotOK asks.
LEMMA ExchangeStep ==
  ASSUME Inv, NEW i \in Slots, slots[i].stage \notin {"free", "queued"},
         NEW s \in SlotType, s.stage \notin {"free", "queued"}, SlotOK(s),
         Put(i, s), budget' \in 0..MaxEvents,
         UNCHANGED <<roots, callers, helper, backlog, client>>
  PROVE  Inv'
<1>1. slots' \in [Slots -> SlotType]
  BY DEF Inv, TypeOK, Put
<1>2. \A j \in Slots : slots'[j] = IF j = i THEN s ELSE slots[j]
  BY DEF Inv, TypeOK, Put
<1>3. {j \in Slots : slots'[j].stage = "queued"} = {j \in Slots : slots[j].stage = "queued"}
  BY <1>2
<1>4. TypeOK'
  BY <1>1, <1>3 DEF Inv, TypeOK, roots
<1>5. WaitsOnSlot'
  BY <1>2 DEF Inv, WaitsOnSlot, Free, TypeOK, ClientType, Slots
<1>6. \A j \in Slots : SlotOK(slots[j])'
  BY <1>2 DEF Inv, SlotOK, roots
<1>7. ReportedInstalled'
  BY DEF Inv, ReportedInstalled, roots
<1>8. QueuedByService'
  BY <1>2 DEF Inv, QueuedByService
<1>9. QED
  BY <1>4, <1>5, <1>6, <1>7, <1>8 DEF Inv

LEMMA ReadRequestStep == ASSUME Inv, NEW i \in Slots, ReadRequest(i) PROVE Inv'
<1> DEFINE s == slots[i]
           t == [s EXCEPT !.stage = "checked", !.seen = head[Channel],
                          !.vouched = CheckPrivilegedRoot(s.root)]
<1>1. s \in SlotType /\ s.stage = "reading" /\ SlotOK(s)
  BY DEF Inv, TypeOK, ReadRequest
<1>2. budget' \in 0..MaxEvents /\ UNCHANGED <<roots, callers, helper, backlog, client>>
  BY DEF Inv, TypeOK, ReadRequest
<1>3. CASE Put(i, Ended(s, "reply", "request")) \/ Put(i, Ended(s, "reply", "denied"))
  BY <1>1, <1>2, <1>3, EndedType, EndedOK, ExchangeStep DEF Classes, Ended, NoSlot
<1>4. CASE RootAccepted(s) /\ Put(i, t)
  <2>1. CheckPrivilegedRoot(s.root) = TRUE
    BY <1>4 DEF RootAccepted, CheckPrivilegedRoot
  <2>2. head[Channel] \in Versions /\ head[Channel] <= head[Channel]
    BY ElevateAssumption DEF Inv, TypeOK, Versions
  <2>3. t \in SlotType /\ t.stage = "checked"
    BY <1>1, <2>1, <2>2 DEF SlotType, Working
  <2>4. SlotOK(t)
    BY <1>1, <1>4, <2>1, <2>2 DEF SlotOK, SlotType, Working, RootAccepted
  <2>5. QED
    BY <1>1, <1>2, <1>4, <2>3, <2>4, ExchangeStep
<1>5. QED
  BY <1>3, <1>4 DEF ReadRequest

LEMMA ReadTimeoutStep == ASSUME Inv, NEW i \in Slots, ReadTimeout(i) PROVE Inv'
  BY EndedType, EndedOK, ExchangeStep DEF Inv, TypeOK, ReadTimeout, Classes, Ended, NoSlot

LEMMA ReplyStep == ASSUME Inv, NEW i \in Slots, Reply(i) PROVE Inv'
<1>1. slots[i] \in SlotType /\ slots[i].class \in Classes /\ slots[i].stage = "reply"
  BY DEF Inv, TypeOK, Reply, SlotType
<1>2. QED
  BY <1>1, EndedType, EndedOK, ExchangeStep DEF Inv, TypeOK, Reply, Ended, NoSlot

LEMMA SpendType == ASSUME TypeOK, Spend PROVE budget' \in 0..MaxEvents
  BY ElevateAssumption DEF TypeOK, Spend

LEMMA FailApplyStep == ASSUME Inv, NEW i \in Slots, FailApply(i) PROVE Inv'
<1>1. slots[i] \in SlotType /\ slots[i].stage \in {"checked", "resolved"} /\ budget' \in 0..MaxEvents
  BY SpendType DEF Inv, TypeOK, FailApply
<1>2. QED
  BY <1>1, EndedType, EndedOK, ExchangeStep DEF FailApply, Classes, Ended, NoSlot

LEMMA EndProcessStep ==
  ASSUME Inv, NEW i \in Slots, NEW c \in {"ok", "declined", "none"}, EndProcess(i, c)
  PROVE  Inv'
<1>1. slots[i] \in SlotType /\ slots[i].stage \notin {"free", "queued"} /\ budget' \in 0..MaxEvents
  BY SpendType DEF Inv, TypeOK, EndProcess, Working
<1>2. c \in Classes
  BY DEF Classes
<1>3. QED
  BY <1>1, <1>2, EndedType, EndedOK, ExchangeStep DEF EndProcess, Ended, NoSlot

\* An exchange that goes on to its installation: the version is newer than what is there.
LEMMA Resolved ==
  ASSUME Inv, NEW i \in Slots, slots[i].stage = "checked",
         installed[slots[i].root] < slots[i].version,
         slots[i].version <= head[slots[i].channel],
         slots[i].kind = "service" => slots[i].channel = Channel /\ slots[i].version = head[Channel],
         Put(i, [slots[i] EXCEPT !.stage = "resolved", !.from = installed[slots[i].root]]),
         UNCHANGED <<roots, callers, helper, backlog, client, budget>>
  PROVE  Inv'
<1> DEFINE s == slots[i]
           t == [s EXCEPT !.stage = "resolved", !.from = installed[s.root]]
<1>1. s \in SlotType /\ SlotOK(s) /\ s.root \in Roots /\ s.channel \in Channels
  BY DEF Inv, TypeOK, SlotType
<1>2. installed[s.root] \in Versions /\ head[s.channel] \in Versions /\ head[Channel] \in Versions
  BY <1>1, ElevateAssumption DEF Inv, TypeOK
<1>3. t \in SlotType /\ t.stage = "resolved"
  BY <1>1, <1>2 DEF SlotType, Working
<1>4. SlotOK(t)
  <2>1. s.seen \in Versions /\ s.version \in Versions /\ s.seen <= head[Channel]
    BY <1>1 DEF SlotType, SlotOK
  <2>2. QED
    BY <1>1, <1>2, <2>1 DEF SlotOK, SlotType, Working, Versions
<1>5. QED
  BY <1>3, <1>4, ExchangeStep DEF Inv, TypeOK

LEMMA ApplyRequestedStep == ASSUME Inv, NEW i \in Slots, ApplyRequested(i) PROVE Inv'
<1> DEFINE s == slots[i]
<1>1. s \in SlotType /\ s.stage = "checked" /\ s.kind = "service" /\ s.root \in Roots
      /\ budget' \in 0..MaxEvents /\ UNCHANGED <<roots, callers, helper, backlog, client, budget>>
  BY DEF Inv, TypeOK, ApplyRequested, SlotType
<1>2. CASE Put(i, Ended(s, "reply", "apply")) \/ Put(i, Ended(s, "reply", "ok"))
  BY <1>1, <1>2, EndedType, EndedOK, ExchangeStep DEF Classes, Ended, NoSlot
<1>3. CASE /\ s.channel = Channel /\ head[Channel] > installed[s.root]
           /\ Agrees(s.version, head[Channel])
           /\ Put(i, [s EXCEPT !.stage = "resolved", !.from = installed[s.root]])
  <2>1. installed[s.root] \in Versions /\ head[Channel] \in Versions
    BY <1>1, ElevateAssumption DEF Inv, TypeOK
  <2>2. installed[s.root] < s.version /\ s.version <= head[s.channel] /\ s.version = head[Channel]
    BY <1>3, <2>1 DEF Agrees, Versions
  <2>3. QED
    BY <1>1, <1>3, <2>2, Resolved
<1>4. QED
  BY <1>2, <1>3 DEF ApplyRequested

LEMMA PinnedApplyStep == ASSUME Inv, NEW i \in Slots, PinnedApply(i) PROVE Inv'
<1> DEFINE s == slots[i]
<1>1. s \in SlotType /\ s.stage = "checked" /\ s.kind = "process" /\ s.root \in Roots
      /\ budget' \in 0..MaxEvents /\ UNCHANGED <<roots, callers, helper, backlog, client, budget>>
  BY DEF Inv, TypeOK, PinnedApply, SlotType
<1>2. CASE Put(i, Ended(s, "reply", "apply")) \/ Put(i, Ended(s, "reply", "ok"))
  BY <1>1, <1>2, EndedType, EndedOK, ExchangeStep DEF Classes, Ended, NoSlot
<1>3. CASE /\ installed[s.root] # s.version
           /\ ~(installed[s.root] > s.version \/ s.version > head[s.channel])
           /\ Put(i, [s EXCEPT !.stage = "resolved", !.from = installed[s.root]])
  <2>1. installed[s.root] \in Versions /\ head[s.channel] \in Versions /\ s.version \in Versions
    BY <1>1 DEF Inv, TypeOK, SlotType
  <2>2. installed[s.root] < s.version /\ s.version <= head[s.channel]
    BY <1>3, <2>1 DEF Versions
  <2>3. QED
    BY <1>1, <1>3, <2>2, Resolved
<1>4. QED
  BY <1>2, <1>3 DEF PinnedApply

\* The only step that installs anything, and what it installs.
LEMMA InstallStep ==
  ASSUME Inv, NEW i \in Slots, Install(i)
  PROVE  /\ \A r \in Roots : installed'[r] # installed[r] =>
              /\ r = slots[i].root /\ installed'[r] = slots[i].version
              /\ installed[r] = slots[i].from
         /\ \A r \in Roots : installed'[r] >= installed[r]
         /\ installed' \in [Roots -> Versions]
<1> DEFINE s == slots[i]
<1>1. s \in SlotType /\ SlotOK(s) /\ s.stage = "resolved"
  BY DEF Inv, TypeOK, Install
<1>2. s.from < s.version /\ s.from \in Versions /\ s.version \in Versions /\ s.root \in Roots
  BY <1>1 DEF SlotOK, SlotType
<1>3. \/ installed' = installed
      \/ installed[s.root] = s.from /\ installed' = [installed EXCEPT ![s.root] = s.version]
  BY DEF Install
<1>4. installed \in [Roots -> Versions]
  BY DEF Inv, TypeOK
<1>5. QED
  BY <1>2, <1>3, <1>4 DEF Versions

LEMMA InstallKeeps == ASSUME Inv, NEW i \in Slots, Install(i) PROVE Inv'
<1> DEFINE s == slots[i]
<1>1. s \in SlotType /\ s.stage = "resolved"
  BY DEF Inv, TypeOK, Install
<1>2. \E c \in {"apply", "ok"} : Put(i, Ended(s, "reply", c))
  BY DEF Install
<1>3. PICK t \in SlotType : Put(i, t) /\ t.stage = "reply" /\ SlotOK(t)
  BY <1>1, <1>2, EndedType, EndedOK DEF Classes, Ended, NoSlot
<1>4. slots' \in [Slots -> SlotType] /\ \A j \in Slots : slots'[j] = IF j = i THEN t ELSE slots[j]
  BY <1>3 DEF Inv, TypeOK, Put
<1>5. {j \in Slots : slots'[j].stage = "queued"} = {j \in Slots : slots[j].stage = "queued"}
  BY <1>1, <1>3, <1>4
<1>6. tree' \in [Roots -> [Objects -> [owner : Nat, link : BOOLEAN, write : BOOLEAN, sticky : BOOLEAN]]]
  <2>1. Created \in [Objects -> [owner : Nat, link : BOOLEAN, write : BOOLEAN, sticky : BOOLEAN]]
    BY DEF Created, Secure
  <2>2. tree[s.root]["above"] \in [owner : Nat, link : BOOLEAN, write : BOOLEAN, sticky : BOOLEAN]
    BY <1>1 DEF Inv, TypeOK, SlotType, Objects
  <2>3. QED
    BY <2>1, <2>2 DEF Install, Inv, TypeOK
<1>7. TypeOK'
  BY <1>4, <1>5, <1>6, InstallStep DEF Inv, TypeOK, Install
<1>8. WaitsOnSlot'
  BY <1>3, <1>4 DEF Inv, WaitsOnSlot, Free, TypeOK, ClientType, Slots, Install
<1>9. \A j \in Slots : SlotOK(slots[j])'
  BY <1>3, <1>4 DEF Inv, SlotOK, Install
<1>10. ReportedInstalled'
  <2> SUFFICES ASSUME NEW u \in Users, client[u].committed
               PROVE  installed'[client[u].root] >= client[u].to
    BY DEF ReportedInstalled, Install
  <2>1. client[u].root \in Roots /\ client[u].to \in Versions
    BY DEF Inv, TypeOK, ClientType
  <2>2. installed[client[u].root] >= client[u].to
    BY DEF Inv, ReportedInstalled
  <2>3. QED
    BY <2>1, <2>2, InstallStep DEF Inv, TypeOK, Versions
<1>11. QueuedByService'
  BY <1>3, <1>4 DEF Inv, QueuedByService
<1>12. QED
  BY <1>7, <1>8, <1>9, <1>10, <1>11 DEF Inv

\* A step of the helper that ends nothing: accounts, roots and connections are as before.
LEMMA AcceptStep == ASSUME Inv, Accept PROVE Inv'
<1> DEFINE i == Head(backlog)
           s == slots[i]
<1>1. i \in Slots /\ backlog' = Tail(backlog) /\ backlog' \in Seq(Slots) /\ Len(backlog) > 0
  BY DEF Inv, TypeOK, Accept
<1>2. s \in SlotType /\ s.stage = "queued"
  BY <1>1, QueuedInBacklog DEF Inv, TypeOK
<1>3. PICK t \in SlotType : Put(i, t) /\ t.stage \in {"reading", "reply"} /\ SlotOK(t)
  <2>1. CASE authorizeConn(s) /\ takeToken
    <3> DEFINE t == [s EXCEPT !.stage = "reading"]
    <3>1. t \in SlotType /\ t.stage = "reading"
      BY <1>2 DEF SlotType, Working
    <3>2. SlotOK(t)
      BY <1>2, <2>1 DEF SlotOK, SlotType, authorizeConn, Accept
    <3>3. QED
      BY <2>1, <3>1, <3>2 DEF Accept
  <2>2. CASE ~(authorizeConn(s) /\ takeToken)
    BY <1>2, <2>2, EndedType, EndedOK DEF Accept, Classes, Ended, NoSlot
  <2>3. QED
    BY <2>1, <2>2
<1>4. slots' \in [Slots -> SlotType] /\ \A j \in Slots : slots'[j] = IF j = i THEN t ELSE slots[j]
  BY <1>1, <1>3 DEF Inv, TypeOK, Put
<1>5. helper' \in [up : BOOLEAN, uids : SUBSET Users, recent : BOOLEAN]
      /\ helper'.up = helper.up /\ helper'.uids = helper.uids
  BY DEF Accept, Inv, TypeOK, authorizeConn, uidPermitted
<1>6. IsInjective(backlog') /\ Range(backlog') = {j \in Slots : slots'[j].stage = "queued"}
  <2>1. /\ \A k \in DOMAIN backlog' : backlog'[k] = backlog[k+1] /\ k+1 \in DOMAIN backlog
        /\ \A k \in DOMAIN backlog : k = 1 \/ (k-1 \in DOMAIN backlog' /\ backlog'[k-1] = backlog[k])
        /\ 1 \in DOMAIN backlog /\ backlog[1] = i
        /\ DOMAIN backlog \subseteq Nat /\ DOMAIN backlog' \subseteq Nat
    BY <1>1 DEF Inv, TypeOK
  <2>2. IsInjective(backlog')
    BY <2>1, QueuedInBacklog DEF IsInjective, Inv
  <2>3. \A j \in Slots : slots'[j].stage = "queued" <=> \E k \in DOMAIN backlog' : backlog'[k] = j
    <3> SUFFICES ASSUME NEW j \in Slots
                 PROVE  slots'[j].stage = "queued" <=> \E k \in DOMAIN backlog' : backlog'[k] = j
      OBVIOUS
    <3>1. CASE j = i
      <4>1. ASSUME NEW k \in DOMAIN backlog', backlog'[k] = i PROVE FALSE
        <5>1. k \in Nat /\ k + 1 \in DOMAIN backlog /\ backlog[k + 1] = backlog[1]
          BY <2>1, <4>1
        <5>2. k + 1 = 1 /\ k # 0
          BY <2>1, <5>1, <1>1, QueuedInBacklog DEF Inv
        <5>3. QED
          BY <5>1, <5>2
      <4>2. QED
        BY <1>3, <1>4, <3>1, <4>1
    <3>2. CASE j # i
      BY <1>4, <2>1, <3>2, QueuedInBacklog DEF Inv
    <3>3. QED
      BY <3>1, <3>2
  <2>4. \A k \in DOMAIN backlog' : backlog'[k] \in Slots
    BY <1>1
  <2>5. QED
    BY <2>2, <2>3, <2>4 DEF Range
<1>7. TypeOK'
  BY <1>1, <1>4, <1>5, <1>6 DEF Inv, TypeOK, Accept, roots
<1>8. WaitsOnSlot'
  <2>1. \A j \in Slots : slots[j].stage # "free" => slots'[j].stage # "free"
    BY <1>3, <1>4
  <2>2. QED
    BY <2>1, SlotWaited DEF Inv, WaitsOnSlot, Free, Accept
<1>9. \A j \in Slots : SlotOK(slots[j])'
  BY <1>3, <1>4, <1>5 DEF Inv, SlotOK, Accept, roots
<1>10. ReportedInstalled'
  BY DEF Inv, ReportedInstalled, Accept, roots
<1>11. QueuedByService'
  BY <1>3, <1>4 DEF Inv, QueuedByService
<1>12. QED
  BY <1>7, <1>8, <1>9, <1>10, <1>11 DEF Inv

LEMMA StartHelperStep == ASSUME Inv, StartHelper PROVE Inv'
<1>1. helper' = [up |-> TRUE, uids |-> callers, recent |-> FALSE] /\ ~helper.up
  BY DEF StartHelper, newHelper, readCallers
<1>2. budget' \in 0..MaxEvents
  BY SpendType DEF StartHelper, Inv
<1>3. TypeOK'
  BY <1>1, <1>2 DEF Inv, TypeOK, StartHelper, roots
<1>4. \A j \in Slots : SlotOK(slots[j])'
  BY <1>1 DEF Inv, SlotOK, StartHelper, roots
<1>5. QED
  BY <1>3, <1>4 DEF Inv, WaitsOnSlot, QueuedByService, Free, ReportedInstalled, StartHelper, roots

LEMMA StopHelperStep == ASSUME Inv, StopHelper PROVE Inv'
<1> DEFINE open(s) == s.kind = "service" /\ s.stage \notin {"free", "answered"}
<1>1. \A j \in Slots : slots'[j] = IF open(slots[j]) THEN Ended(slots[j], "answered", "none") ELSE slots[j]
  BY DEF StopHelper
<1>2. \A j \in Slots : slots[j] \in SlotType
  BY DEF Inv, TypeOK
<1>3. \A j \in Slots : open(slots[j]) =>
        /\ slots'[j] \in SlotType /\ slots'[j].stage = "answered"
  <2> SUFFICES ASSUME NEW j \in Slots, open(slots[j])
               PROVE  slots'[j] \in SlotType /\ slots'[j].stage = "answered"
    OBVIOUS
  <2>1. slots'[j] = Ended(slots[j], "answered", "none") /\ slots[j] \in SlotType /\ "none" \in Classes
    BY <1>1, <1>2 DEF Classes
  <2>2. Ended(slots[j], "answered", "none") \in SlotType
    BY <2>1, EndedType
  <2>3. Ended(slots[j], "answered", "none").stage = "answered"
    BY DEF Ended, NoSlot
  <2>4. QED
    BY <2>1, <2>2, <2>3
<1>4. slots' \in [Slots -> SlotType]
  BY <1>1, <1>2, <1>3 DEF StopHelper
<1>5. helper' \in [up : BOOLEAN, uids : SUBSET Users, recent : BOOLEAN] /\ helper'.uids = helper.uids
  BY DEF StopHelper, Inv, TypeOK
<1>6. \A j \in Slots : slots'[j].stage # "queued"
  <2>1. \A j \in Slots : slots[j].stage = "queued" => slots[j].kind = "service"
    BY DEF Inv, QueuedByService
  <2>2. QED
    BY <1>1, <1>3, <2>1
<1>7. backlog' \in Seq(Slots) /\ IsInjective(backlog') /\ Range(backlog') = {}
  BY DEF StopHelper, IsInjective, Range
<1>8. TypeOK'
  BY <1>4, <1>5, <1>6, <1>7, SpendType DEF Inv, TypeOK, StopHelper, roots
<1>9. WaitsOnSlot'
  BY <1>1, <1>3 DEF Inv, WaitsOnSlot, Free, TypeOK, ClientType, Slots, StopHelper
<1>10. \A j \in Slots : SlotOK(slots[j])'
  BY <1>1, <1>3 DEF Inv, SlotOK, StopHelper, roots, Working
<1>11. ReportedInstalled'
  BY DEF Inv, ReportedInstalled, StopHelper, roots
<1>12. QueuedByService'
  BY <1>6 DEF QueuedByService
<1>13. QED
  BY <1>8, <1>9, <1>10, <1>11, <1>12 DEF Inv

\* A step of an asking process that leaves it waiting for nothing.
LEMMA ClientStep ==
  ASSUME Inv, NEW u \in Users, NEW c \in ClientType, c.slot = 0,
         c.committed => installed[c.root] >= c.to,
         client' = [client EXCEPT ![u] = c], budget' \in 0..MaxEvents,
         UNCHANGED <<roots, callers, helper, backlog, slots>>
  PROVE  Inv'
<1>1. client' \in [Users -> ClientType] /\ \A v \in Users : client'[v] = IF v = u THEN c ELSE client[v]
  BY DEF Inv, TypeOK
<1>2. TypeOK'
  BY <1>1 DEF Inv, TypeOK, roots
<1>3. WaitsOnSlot'
  BY <1>1 DEF Inv, WaitsOnSlot, Free
<1>4. ReportedInstalled'
  BY <1>1 DEF Inv, ReportedInstalled, roots
<1>5. \A j \in Slots : SlotOK(slots[j])'
  BY DEF Inv, SlotOK, roots
<1>6. QED
  BY <1>2, <1>3, <1>4, <1>5 DEF Inv, QueuedByService

LEMMA CheckStep ==
  ASSUME Inv, NEW u \in Users, NEW r \in Roots, NEW c \in Channels, NEW k \in {"service", "process"},
         CheckForUpdate(u, r, c, k)
  PROVE  Inv'
<1> DEFINE x == [pc |-> "offered", root |-> r, channel |-> c, kind |-> k, slot |-> 0,
                 from |-> installed[r], to |-> head[c], committed |-> FALSE]
<1>1. installed[r] \in Versions /\ head[c] \in Versions /\ 0 \in 0..MaxSlots
  BY ElevateAssumption DEF Inv, TypeOK
<1>2. x \in ClientType /\ x.slot = 0 /\ x.committed = FALSE
  BY <1>1 DEF ClientType
<1>3. client' = [client EXCEPT ![u] = x] /\ budget' \in 0..MaxEvents
      /\ UNCHANGED <<roots, callers, helper, backlog, slots>>
  BY DEF CheckForUpdate, Inv, TypeOK
<1>4. QED
  BY <1>2, <1>3, ClientStep

\* Giving up, for whatever reason.
LEMMA FailedStep ==
  ASSUME Inv, NEW u \in Users, Failed(u), budget' \in 0..MaxEvents,
         UNCHANGED <<roots, callers, helper, backlog, slots>>
  PROVE  Inv'
  BY IdleType, ClientStep DEF Failed, Idle

LEMMA GivenUpStep == ASSUME Inv, NEW u \in Users, Decline(u) \/ Cancel(u) PROVE Inv'
  BY SpendType, FailedStep DEF Decline, Cancel, Inv

\* A connection or a helper process is opened, by a process that waits for its answer or
\* by a stray peer.
LEMMA OpenStep ==
  ASSUME Inv, NEW i \in Slots, Free(i), NEW s \in SlotType, SlotOK(s), Put(i, s),
         \/ s.stage = "queued" /\ s.kind = "service" /\ backlog' = Append(backlog, i)
         \/ s.stage = "reading" /\ backlog' = backlog,
         client' \in [Users -> ClientType],
         \A v \in Users : /\ client'[v].committed = client[v].committed
                          /\ client'[v].root = client[v].root /\ client'[v].to = client[v].to,
         \/ \A v \in Users : client'[v].slot = client[v].slot
         \/ \E u \in Users : \A v \in Users : client'[v].slot = IF v = u THEN i ELSE client[v].slot,
         budget' \in 0..MaxEvents, UNCHANGED <<roots, callers, helper>>
  PROVE  Inv'
<1>1. slots' \in [Slots -> SlotType] /\ \A j \in Slots : slots'[j] = IF j = i THEN s ELSE slots[j]
  BY DEF Inv, TypeOK, Put
<1>2. slots[i].stage = "free" /\ s.stage # "free"
  BY DEF Free
<1>3. /\ backlog' \in Seq(Slots) /\ IsInjective(backlog')
      /\ Range(backlog') = {j \in Slots : slots'[j].stage = "queued"}
  <2>1. CASE s.stage = "reading" /\ backlog' = backlog
    <3>1. {j \in Slots : slots'[j].stage = "queued"} = {j \in Slots : slots[j].stage = "queued"}
      BY <1>1, <1>2, <2>1
    <3>2. QED
      BY <2>1, <3>1 DEF Inv, TypeOK
  <2>2. CASE s.stage = "queued" /\ backlog' = Append(backlog, i)
    <3>1. backlog \in Seq(Slots)
      BY DEF Inv, TypeOK
    <3>2. /\ backlog' \in Seq(Slots) /\ Len(backlog') = Len(backlog) + 1 /\ Len(backlog) \in Nat
          /\ DOMAIN backlog = 1..Len(backlog) /\ DOMAIN backlog' = 1..(Len(backlog) + 1)
          /\ \A k \in DOMAIN backlog : backlog'[k] = backlog[k]
          /\ backlog'[Len(backlog) + 1] = i
      BY <2>2, <3>1
    <3>3. \A k \in DOMAIN backlog : backlog[k] # i
      BY <1>2, QueuedInBacklog DEF Inv
    <3>4. IsInjective(backlog')
      <4> SUFFICES ASSUME NEW k \in DOMAIN backlog', NEW l \in DOMAIN backlog', backlog'[k] = backlog'[l]
                   PROVE  k = l
        BY DEF IsInjective
      <4>1. k \in DOMAIN backlog \/ k = Len(backlog) + 1
        BY <3>2
      <4>2. l \in DOMAIN backlog \/ l = Len(backlog) + 1
        BY <3>2
      <4>3. QED
        BY <4>1, <4>2, <3>2, <3>3, QueuedInBacklog DEF Inv
    <3>5. \A j \in Slots : slots'[j].stage = "queued" <=> \E k \in DOMAIN backlog' : backlog'[k] = j
      <4> SUFFICES ASSUME NEW j \in Slots
                   PROVE  slots'[j].stage = "queued" <=> \E k \in DOMAIN backlog' : backlog'[k] = j
        OBVIOUS
      <4>1. CASE j = i
        BY <4>1, <1>1, <2>2, <3>2
      <4>2. CASE j # i
        <5>1. slots'[j].stage = "queued" <=> \E k \in DOMAIN backlog : backlog[k] = j
          BY <4>2, <1>1, QueuedInBacklog DEF Inv
        <5>2. \A k \in DOMAIN backlog' : backlog'[k] = j => k \in DOMAIN backlog
          BY <3>2, <4>2
        <5>3. DOMAIN backlog \subseteq DOMAIN backlog'
          BY <3>2
        <5>4. QED
          BY <5>1, <5>2, <5>3, <3>2
      <4>3. QED
        BY <4>1, <4>2
    <3>6. \A k \in DOMAIN backlog' : backlog'[k] \in Slots
      BY <3>2
    <3>7. QED
      BY <3>2, <3>4, <3>5, <3>6 DEF Range
  <2>3. QED
    BY <2>1, <2>2
<1>4. \A v \in Users : client[v].slot # i
  BY <1>2, ElevateAssumption DEF Inv, WaitsOnSlot, Free, Slots
<1>5. \A v, w \in Users : client'[v].slot = client'[w].slot => v = w \/ client'[v].slot = 0
  BY <1>4 DEF Inv, TypeOK
<1>6. TypeOK'
  BY <1>1, <1>3, <1>5 DEF Inv, TypeOK, roots
<1>7. WaitsOnSlot'
  <2>1. \A j \in Slots : (slots[j].stage # "free" \/ j = i) => slots'[j].stage # "free"
    BY <1>1, <1>2
  <2>2. \A v \in Users : client'[v].slot = client[v].slot \/ client'[v].slot = i
    OBVIOUS
  <2>3. QED
    BY <2>1, <2>2, SlotWaited DEF Inv, WaitsOnSlot, Free
<1>8. \A j \in Slots : SlotOK(slots[j])'
  BY <1>1 DEF Inv, SlotOK, roots
<1>9. ReportedInstalled'
  BY DEF Inv, ReportedInstalled, roots
<1>10. QueuedByService'
  BY <1>1 DEF Inv, QueuedByService
<1>11. QED
  BY <1>6, <1>7, <1>8, <1>9, <1>10 DEF Inv

LEMMA SendStep ==
  ASSUME Inv, NEW u \in Users, NEW i \in Slots, Free(i), client[u].pc = "offered",
         NEW stage \in {"queued", "reading"}, Send(u, i, stage), budget' \in 0..MaxEvents,
         \/ stage = "queued" /\ client[u].kind = "service" /\ backlog' = Append(backlog, i)
         \/ stage = "reading" /\ client[u].kind = "process" /\ backlog' = backlog,
         UNCHANGED <<roots, callers, helper>>
  PROVE  Inv'
<1> DEFINE s == newRequest(u, stage)
<1>1. s \in SlotType /\ s.stage = stage /\ s.kind = client[u].kind
  BY RequestType DEF Inv, newRequest, NoSlot
<1>2. SlotOK(s)
  BY <1>1 DEF SlotOK, Working
<1>3. i \in 0..MaxSlots
  BY ElevateAssumption DEF Slots
<1>4. \A v \in Users : client[v] \in ClientType
  BY DEF Inv, TypeOK
<1>5. client' = [client EXCEPT ![u] = [client[u] EXCEPT !.pc = "waiting", !.slot = i]]
  BY DEF Send, Inv, TypeOK
<1>6. [client[u] EXCEPT !.pc = "waiting", !.slot = i] \in ClientType
  BY <1>3, <1>4 DEF ClientType
<1>7. client' \in [Users -> ClientType]
  BY <1>5, <1>6 DEF Inv, TypeOK
<1>8. PICK c \in ClientType :
        /\ client' = [client EXCEPT ![u] = c] /\ c.slot = i
        /\ c.committed = client[u].committed /\ c.root = client[u].root /\ c.to = client[u].to
  BY <1>4, <1>5, <1>6 DEF ClientType
<1>9. \A v \in Users : client'[v] = IF v = u THEN c ELSE client[v]
  BY <1>8 DEF Inv, TypeOK
<1>10. Put(i, s)
  BY DEF Send
<1>11. \A v \in Users : client'[v].slot = IF v = u THEN i ELSE client[v].slot
  BY <1>8, <1>9
<1>12. \A v \in Users : /\ client'[v].committed = client[v].committed
                        /\ client'[v].root = client[v].root /\ client'[v].to = client[v].to
  BY <1>8, <1>9
<1>13. QED
  BY <1>1, <1>2, <1>7, <1>10, <1>11, <1>12, OpenStep

LEMMA DialStep == ASSUME Inv, NEW u \in Users, NEW i \in Slots, Dial(u, i) PROVE Inv'
<1>1. budget' \in 0..MaxEvents /\ Free(i) /\ UNCHANGED <<roots, callers, helper>>
      /\ client[u].pc = "offered" /\ client[u].kind = "service"
  BY DEF Dial, Inv, TypeOK, First
<1>2. CASE helper.up
  BY <1>1, <1>2, SendStep DEF Dial
<1>3. CASE ~helper.up
  BY <1>1, <1>3, FailedStep DEF Dial
<1>4. QED
  BY <1>2, <1>3

LEMMA StartProcessStep == ASSUME Inv, NEW u \in Users, NEW i \in Slots, StartProcess(u, i) PROVE Inv'
<1>1. budget' \in 0..MaxEvents /\ Free(i) /\ UNCHANGED <<roots, callers, helper>> /\ backlog' = backlog
      /\ client[u].pc = "offered" /\ client[u].kind = "process" /\ Send(u, i, "reading")
  BY DEF StartProcess, Inv, TypeOK, First
<1>2. QED
  BY <1>1, SendStep

LEMMA StrayPeerStep ==
  ASSUME Inv, NEW u \in Users, NEW m \in {"silent", "malformed"}, NEW i \in Slots, StrayPeer(u, m, i)
  PROVE  Inv'
<1> DEFINE s == [NoSlot EXCEPT !.stage = "queued", !.who = u, !.msg = m]
<1>1. s \in SlotType /\ s.stage = "queued" /\ s.kind = "service"
  BY NoSlotType DEF SlotType, NoSlot
<1>2. SlotOK(s)
  BY <1>1 DEF SlotOK, Working
<1>3. budget' \in 0..MaxEvents /\ Free(i) /\ client' = client /\ UNCHANGED <<roots, callers, helper>>
      /\ Put(i, s) /\ backlog' = Append(backlog, i) /\ client' \in [Users -> ClientType]
  BY SpendType DEF StrayPeer, Inv, TypeOK, First
<1>4. QED
  BY <1>1, <1>2, <1>3, OpenStep

\* A connection is over, and nobody waits for it.
LEMMA CloseStep ==
  ASSUME Inv, NEW i \in Slots, slots[i].stage = "answered", Put(i, NoSlot),
         client' \in [Users -> ClientType],
         \A v \in Users : client'[v].slot = 0 \/ (client'[v].slot = client[v].slot /\ client[v].slot # i),
         \A v \in Users : client'[v].committed => installed[client'[v].root] >= client'[v].to,
         UNCHANGED <<roots, callers, helper, backlog, budget>>
  PROVE  Inv'
<1>1. slots' \in [Slots -> SlotType] /\ \A j \in Slots : slots'[j] = IF j = i THEN NoSlot ELSE slots[j]
  BY NoSlotType DEF Inv, TypeOK, Put
<1>2. NoSlot.stage = "free"
  BY DEF NoSlot
<1>3. {j \in Slots : slots'[j].stage = "queued"} = {j \in Slots : slots[j].stage = "queued"}
  BY <1>1, <1>2
<1>4. TypeOK'
  BY <1>1, <1>3 DEF Inv, TypeOK, roots
<1>5. WaitsOnSlot'
  BY <1>1, SlotWaited DEF Inv, WaitsOnSlot, Free
<1>6. \A j \in Slots : SlotOK(slots[j])'
  BY <1>1, <1>2 DEF Inv, SlotOK, roots, Working
<1>7. ReportedInstalled'
  BY DEF ReportedInstalled, roots
<1>8. QueuedByService'
  BY <1>1, <1>2 DEF Inv, QueuedByService
<1>9. QED
  BY <1>4, <1>5, <1>6, <1>7, <1>8 DEF Inv

LEMMA ForgetStep == ASSUME Inv, NEW i \in Slots, Forget(i) PROVE Inv'
<1>1. client' \in [Users -> ClientType] /\ \A v \in Users : client[v].slot # i
  BY DEF Inv, TypeOK, Forget
<1>2. \A v \in Users : client'[v].committed => installed[client'[v].root] >= client'[v].to
  BY DEF Inv, ReportedInstalled, Forget
<1>3. QED
  BY <1>1, <1>2, CloseStep DEF Forget

LEMMA ReceiveStep == ASSUME Inv, NEW u \in Users, Receive(u) PROVE Inv'
<1> DEFINE c == client[u]
<1>1. c \in ClientType /\ c.root \in Roots /\ c.to \in Versions
  BY DEF Inv, TypeOK, ClientType
<1>2. PICK d \in ClientType : /\ client' = [client EXCEPT ![u] = d] /\ d.slot = 0
                              /\ d.committed => installed[d.root] >= d.to
  <2>1. CASE ReadBack(c, slots[c.slot].class)
    <3> DEFINE d == [Idle EXCEPT !.root = c.root, !.to = c.to, !.committed = TRUE]
    <3>1. d \in ClientType /\ d.slot = 0 /\ d.root = c.root /\ d.to = c.to
      BY <1>1, IdleType DEF ClientType, Idle
    <3>2. installed[c.root] >= c.to
      BY <1>1, <2>1 DEF ReadBack, Versions
    <3>3. QED
      BY <2>1, <3>1, <3>2 DEF Receive
  <2>2. CASE ~ReadBack(c, slots[c.slot].class)
    BY <2>2, IdleType DEF Receive, Failed, Idle
  <2>3. QED
    BY <2>1, <2>2
<1>3. client' \in [Users -> ClientType] /\ \A v \in Users : client'[v] = IF v = u THEN d ELSE client[v]
  BY <1>2 DEF Inv, TypeOK
<1>4. \A v \in Users : client'[v].committed => installed[client'[v].root] >= client'[v].to
  BY <1>2, <1>3 DEF Inv, ReportedInstalled
<1>5. CASE c.slot # 0
  <2>1. c.slot \in Slots
    BY <1>5, SlotWaited DEF Inv
  <2>2. \A v \in Users : client'[v].slot = 0 \/ (client'[v].slot = client[v].slot /\ client[v].slot # c.slot)
    BY <1>2, <1>3, <1>5 DEF Inv, TypeOK
  <2>3. QED
    BY <1>3, <1>4, <2>1, <2>2, CloseStep DEF Receive
<1>6. CASE c.slot = 0
  <2>1. 0 \notin Slots
    BY ElevateAssumption DEF Slots
  <2>2. slots' = slots
    BY <1>6, <2>1 DEF Receive, Put, Inv, TypeOK
  <2>3. QED
    BY <1>2, <2>2, ClientStep DEF Receive, Inv, TypeOK
<1>7. QED
  BY <1>5, <1>6

LEMMA PublishStep == ASSUME Inv, NEW c \in Channels, Publish(c) PROVE Inv'
<1>1. head' \in [Channels -> Versions] /\ \A d \in Channels : head[d] <= head'[d]
  BY ElevateAssumption DEF Publish, Inv, TypeOK, Versions
<1>2. TypeOK'
  BY <1>1, SpendType DEF Inv, TypeOK, Publish
<1>3. \A j \in Slots : SlotOK(slots[j])'
  <2> SUFFICES ASSUME NEW j \in Slots PROVE SlotOK(slots[j])'
    OBVIOUS
  <2>1. slots[j] \in SlotType /\ SlotOK(slots[j]) /\ slots' = slots /\ helper' = helper
    BY DEF Inv, TypeOK, Publish
  <2>2. slots[j].channel \in Channels /\ slots[j].version \in Versions /\ slots[j].seen \in Versions
    BY <2>1 DEF SlotType
  <2>3. head[Channel] \in Versions /\ head'[Channel] \in Versions /\ head[Channel] <= head'[Channel]
    BY <1>1, ElevateAssumption DEF Inv, TypeOK
  <2>4. head[slots[j].channel] \in Versions /\ head'[slots[j].channel] \in Versions
        /\ head[slots[j].channel] <= head'[slots[j].channel]
    BY <1>1, <2>2 DEF Inv, TypeOK
  <2>5. slots[j].seen <= head[Channel] => slots[j].seen <= head'[Channel]
    BY <2>2, <2>3 DEF Versions
  <2>6. slots[j].version <= head[slots[j].channel] => slots[j].version <= head'[slots[j].channel]
    BY <2>2, <2>4 DEF Versions
  <2>7. QED
    BY <2>1, <2>5, <2>6 DEF SlotOK
<1>4. QED
  BY <1>2, <1>3 DEF Inv, WaitsOnSlot, QueuedByService, Free, ReportedInstalled, Publish

\* What changes only the accounts of callers.json, the modes of a root or the rate limit.
LEMMA EditCallersStep ==
  ASSUME Inv, NEW u \in Users, NEW add \in BOOLEAN, EditCallers(u, add)
  PROVE  Inv'
<1>1. TypeOK'
  BY SpendType DEF Inv, TypeOK, EditCallers, roots
<1>2. QED
  BY <1>1 DEF Inv, WaitsOnSlot, QueuedByService, Free, ReportedInstalled, SlotOK, EditCallers, roots

LEMMA ChmodStep ==
  ASSUME Inv, NEW r \in AllowedRoots, NEW o \in Objects, NEW m \in Modes, Chmod(r, o, m)
  PROVE  Inv'
<1>1. tree' \in [Roots -> [Objects -> [owner : Nat, link : BOOLEAN, write : BOOLEAN, sticky : BOOLEAN]]]
  <2>1. r \in Roots /\ m \in [owner : Nat, link : BOOLEAN, write : BOOLEAN, sticky : BOOLEAN]
    BY ElevateAssumption
  <2>2. QED
    BY <2>1 DEF Inv, TypeOK, Chmod
<1>2. TypeOK'
  BY <1>1, SpendType DEF Inv, TypeOK, Chmod
<1>3. QED
  BY <1>2 DEF Inv, WaitsOnSlot, QueuedByService, Free, ReportedInstalled, SlotOK, Chmod

LEMMA ElapseStep == ASSUME Inv, Elapse PROVE Inv'
<1>1. helper' \in [up : BOOLEAN, uids : SUBSET Users, recent : BOOLEAN]
      /\ helper'.up = helper.up /\ helper'.uids = helper.uids
  BY DEF Elapse, Inv, TypeOK
<1>2. TypeOK'
  BY <1>1 DEF Inv, TypeOK, Elapse, roots
<1>3. QED
  BY <1>1, <1>2 DEF Inv, WaitsOnSlot, QueuedByService, Free, ReportedInstalled, SlotOK, Elapse, roots

---------------------------------------------------------------------------
(* The invariant.                                                          *)

LEMMA InitInv == Init => Inv
<1> SUFFICES ASSUME Init PROVE Inv
  OBVIOUS
<1>1. \A i \in Slots : slots[i] = NoSlot
  BY DEF Init
<1>2. Created \in [Objects -> [owner : Nat, link : BOOLEAN, write : BOOLEAN, sticky : BOOLEAN]]
  BY DEF Created, Secure
<1>3. head \in [Channels -> Versions] /\ installed \in [Roots -> Versions]
  BY ElevateAssumption DEF Init, Versions
<1>4. tree \in [Roots -> [Objects -> [owner : Nat, link : BOOLEAN, write : BOOLEAN, sticky : BOOLEAN]]]
  BY <1>2 DEF Init
<1>5. callers \subseteq Users /\ helper \in [up : BOOLEAN, uids : SUBSET Users, recent : BOOLEAN]
  BY DEF Init
<1>6. slots \in [Slots -> SlotType] /\ client \in [Users -> ClientType] /\ budget \in 0..MaxEvents
  BY NoSlotType, IdleType, ElevateAssumption DEF Init
<1>7. backlog \in Seq(Slots) /\ IsInjective(backlog) /\ Range(backlog) = {}
  BY DEF Init, IsInjective, Range
<1>8. {i \in Slots : slots[i].stage = "queued"} = {}
  <2>1. NoSlot.stage = "free"
    BY DEF NoSlot
  <2>2. QED
    BY <1>1, <2>1
<1>9. \A u \in Users : client[u] = Idle /\ client[u].slot = 0 /\ client[u].committed = FALSE
  BY DEF Init, Idle
<1>10. TypeOK
  BY <1>3, <1>4, <1>5, <1>6, <1>7, <1>8, <1>9 DEF TypeOK
<1>11. QED
  BY <1>1, <1>8, <1>9, <1>10, NoSlotOK DEF Inv, WaitsOnSlot, QueuedByService, ReportedInstalled

LEMMA InvStep == Inv /\ [Next]_vars => Inv'
<1> SUFFICES ASSUME Inv, [Next]_vars PROVE Inv'
  OBVIOUS
<1>1. CASE UNCHANGED vars
  <2>1. TypeOK'
    BY <1>1 DEF Inv, TypeOK, vars
  <2>2. QED
    BY <1>1, <2>1 DEF Inv, WaitsOnSlot, QueuedByService, Free, ReportedInstalled, SlotOK, vars
<1>2. CASE Accept \/ Elapse
  BY <1>2, AcceptStep, ElapseStep
<1>3. CASE Outside
  BY <1>3, StartHelperStep, StopHelperStep, FailApplyStep, EndProcessStep, StrayPeerStep, PublishStep,
     EditCallersStep, ChmodStep, GivenUpStep DEF Outside
<1>4. ASSUME NEW i \in Slots, Serving(i) \/ Forget(i) PROVE Inv'
  BY <1>4, ReadRequestStep, ReadTimeoutStep, ApplyRequestedStep, PinnedApplyStep, InstallKeeps, ReplyStep,
     ForgetStep DEF Serving
<1>5. ASSUME NEW u \in Users, Request(u) \/ Receive(u) PROVE Inv'
  <2>1. CASE \E w \in Wants[u] : CheckForUpdate(u, w[1], w[2], w[3])
    <3>1. PICK w \in Wants[u] : CheckForUpdate(u, w[1], w[2], w[3])
      BY <2>1
    <3>2. w[1] \in Roots /\ w[2] \in Channels /\ w[3] \in {"service", "process"}
      BY ElevateAssumption
    <3>3. QED
      BY <3>1, <3>2, CheckStep
  <2>2. CASE RefuseStale(u)
    BY <2>2, FailedStep DEF RefuseStale, Inv, TypeOK
  <2>3. QED
    BY <1>5, <2>1, <2>2, DialStep, StartProcessStep, ReceiveStep DEF Request
<1>6. QED
  BY <1>1, <1>2, <1>3, <1>4, <1>5 DEF Next

\* Inv holds in every state that the helpers and the asking processes reach.
THEOREM Invariance == Spec => []Inv
  BY InitInv, InvStep, PTL DEF Spec

\* applyElevated: what a process was told was committed is installed, and stays, whoever
\* answers and whatever is applied later.
THEOREM ReportsHold == Spec => []ReportedInstalled
<1>1. Inv => ReportedInstalled
  BY DEF Inv
<1>2. QED
  BY <1>1, Invariance, PTL

---------------------------------------------------------------------------
(* What an installation stands on.                                         *)

\* A root changes in no step but Install's.
LEMMA OnlyInstall ==
  ASSUME [Next]_vars, installed' # installed
  PROVE  \E i \in Slots : Install(i)
<1>1. CASE UNCHANGED vars
  BY <1>1 DEF vars
<1>2. CASE Accept \/ Elapse \/ Outside
  BY <1>2 DEF Accept, Elapse, Outside, StartHelper, StopHelper, FailApply, EndProcess, Decline, Cancel,
     EditCallers, StrayPeer, Publish, Chmod, roots
<1>3. ASSUME NEW u \in Users, Request(u) \/ Receive(u) PROVE FALSE
  BY <1>3 DEF Request, CheckForUpdate, RefuseStale, Dial, StartProcess, Receive, roots
<1>4. ASSUME NEW i \in Slots, Serving(i) \/ Forget(i) PROVE Install(i)
  BY <1>4 DEF Serving, ReadRequest, ReadTimeout, ApplyRequested, PinnedApply, Reply, Forget, roots
<1>5. QED
  BY <1>1, <1>2, <1>3, <1>4 DEF Next

\* The exchange behind a change of a root: its helper, its version and its channel.
LEMMA InstallBasis ==
  ASSUME Inv, [Next]_vars, NEW r \in Roots, installed'[r] # installed[r]
  PROVE  \E i \in Slots :
           /\ Installer(i, r) /\ slots[i].vouched
           /\ installed'[r] > installed[r] /\ installed'[r] <= head[slots[i].channel]
           /\ slots[i].kind = "service" =>
                /\ r \in AllowedRoots /\ uidPermitted(slots[i].who, helper.uids)
                /\ slots[i].channel = Channel /\ installed'[r] >= slots[i].seen
<1>1. PICK i \in Slots : Install(i)
  BY OnlyInstall
<1> DEFINE s == slots[i]
<1>2. s \in SlotType /\ s.stage = "resolved" /\ SlotOK(s)
  BY <1>1 DEF Inv, TypeOK, Install
<1>3. r = s.root /\ installed'[r] = s.version /\ installed[r] = s.from
  BY <1>1, InstallStep
<1>4. slots'[i].stage = "reply"
  <2>1. slots'[i] = Ended(s, "reply", "apply") \/ slots'[i] = Ended(s, "reply", "ok")
    BY <1>1 DEF Install, Put, Inv, TypeOK
  <2>2. QED
    BY <2>1 DEF Ended, NoSlot
<1>5. s.version \in Versions /\ s.from \in Versions /\ s.seen \in Versions
  BY <1>2 DEF SlotType
<1>6. s.version > s.from /\ s.version <= head[s.channel] /\ s.vouched
  BY <1>2, <1>5 DEF SlotOK, Versions
<1>7. s.kind = "service" =>
        /\ s.root \in AllowedRoots /\ uidPermitted(s.who, helper.uids)
        /\ s.channel = Channel /\ s.version >= s.seen
  BY <1>2, <1>5 DEF SlotOK, Versions, Working
<1>8. QED
  BY <1>2, <1>3, <1>4, <1>6, <1>7 DEF Installer

\* serve: whatever is written is written for an account the running helper read at its
\* start, into a root of its own that was judged safe for this very request.
THEOREM InstallsVetted == Spec => VettedInstall
<1> DEFINE A == \A r \in Roots : installed'[r] # installed[r] =>
                  \E i \in Slots :
                    /\ Installer(i, r) /\ slots[i].vouched
                    /\ slots[i].kind = "service" =>
                         /\ r \in AllowedRoots
                         /\ slots[i].who \in helper.uids \/ (helper.uids = {} /\ slots[i].who = 0)
<1>1. Inv /\ [Next]_vars => [A]_vars
  BY InstallBasis DEF uidPermitted
<1>2. QED
  BY <1>1, Invariance, PTL DEF Spec, VettedInstall

\* ApplyRequested and preflightVersion: an installation is always an update, to a version
\* its channel has, and the service's to none older than the head it read.
THEOREM InstallsHead == Spec => HeadOnly
<1> DEFINE A == \A r \in Roots : installed'[r] # installed[r] =>
                  /\ installed'[r] > installed[r]
                  /\ \E i \in Slots :
                       /\ Installer(i, r) /\ installed'[r] <= head[slots[i].channel]
                       /\ slots[i].kind = "service" =>
                            slots[i].channel = Channel /\ installed'[r] >= slots[i].seen
<1>1. Inv /\ [Next]_vars => [A]_vars
  BY InstallBasis
<1>2. QED
  BY <1>1, Invariance, PTL DEF Spec, HeadOnly

=============================================================================
