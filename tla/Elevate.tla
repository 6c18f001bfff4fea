------------------------------ MODULE Elevate ------------------------------
(***************************************************************************)
(* Updates of install roots an ordinary process cannot write.  Processes   *)
(* of several users ask (core/updater/elevated.go) through one of two      *)
(* elevators (core/elevate): the service, one privileged helper answering  *)
(* a socket one connection at a time (cmd/helper), or a helper process     *)
(* started for the request (pkexec or UAC running cmd/installer apply).    *)
(* Either side may stop at any point: the asker stops waiting, the helper  *)
(* dies, an answer is lost.                                                *)
(*                                                                         *)
(* The helper's own refresh is one read of the channel's head, and its     *)
(* transaction one step (modules Delivery and Transaction have both).  The *)
(* rate limit's clock is the fact that a token was taken within the last   *)
(* MinInterval.  A connection is a slot; slots are used again.             *)
(***************************************************************************)
EXTENDS Naturals, Sequences, SequencesExt, FiniteSets

CONSTANTS
  Users,          \* the accounts whose processes ask; 0 is the superuser
  Roots,          \* install roots
  AllowedRoots,   \* the ones the service's helper maintains
  Channels,
  Channel,        \* the only channel a helper installs
  Wants,          \* [Users -> SUBSET (Roots \X Channels \X Kinds)]: what each may ask
                  \* for, and through which elevator
  Modes,          \* what an administrator may make of one object of a root
  MaxVersion,     \* bound: the newest version of a channel
  MaxSlots,       \* bound: connections and helper processes at a time
  MaxEvents       \* bound: publishes, edits, restarts, faults and stray peers

ASSUME ElevateAssumption ==
  /\ AllowedRoots # {} /\ AllowedRoots \subseteq Roots /\ Channel \in Channels
  /\ Wants \in [Users -> SUBSET (Roots \X Channels \X {"service", "process"})]
  /\ Modes \subseteq [owner : Nat, link : BOOLEAN, write : BOOLEAN, sticky : BOOLEAN]
  /\ 0 \in Users
  /\ MaxVersion \in Nat \ {0} /\ MaxSlots \in Nat /\ MaxEvents \in Nat

VARIABLES
  head,       \* [Channels -> version]: the head of each channel
  installed,  \* [Roots -> version], 0 for a root that does not exist yet
  tree,       \* [Roots -> [Objects -> mode]]: owner and mode of a root's objects
  callers,    \* callers.json: the accounts that may ask
  helper,     \* the service's process: running, the accounts it read at its
              \* start, and whether a token was taken within MinInterval
  backlog,    \* the connections the helper has not accepted, oldest first
  slots,      \* the connections and helper processes
  client,     \* [Users -> the asking process]
  budget      \* events left

vars == <<head, installed, tree, callers, helper, backlog, slots, client, budget>>
roots == <<head, installed, tree>>

Versions == 0..MaxVersion
Objects == {"above", "install", "current"}
  \* the directories above the root; the root and the entries a helper writes; the pointer
Slots == 1..MaxSlots
Classes == {"ok", "request", "denied", "apply", "declined", "none"}
Working == {"reading", "checked", "resolved"}

NoSlot == [stage |-> "free", kind |-> "service", who |-> 0, msg |-> "request",
           root |-> CHOOSE r \in Roots : TRUE, channel |-> Channel, version |-> 0,
           from |-> 0, class |-> "none", seen |-> 0, vouched |-> FALSE]
Idle == [pc |-> "idle", root |-> CHOOSE r \in Roots : TRUE, channel |-> Channel, kind |-> "service",
         from |-> 0, to |-> 0, slot |-> 0, committed |-> FALSE]

Spend == budget > 0 /\ budget' = budget - 1
Free(i) == slots[i].stage = "free"
Put(i, s) == slots' = [slots EXCEPT ![i] = s]
First(i) == Free(i) /\ \A j \in Slots : Free(j) => i <= j

\* An exchange that is over but for its answer.
Ended(s, stage, class) == [NoSlot EXCEPT !.kind = s.kind, !.stage = stage, !.class = class]

---------------------------------------------------------------------------
(* Which roots only administrators control.                                *)

\* Why an object is not one only root controls: a link, another owner, or a mode
\* that lets others write (or, above the root, rename).
modeProblem(m, role) ==
  \/ m.link
  \/ m.owner # 0
  \/ m.write /\ (role = "container" \/ ~m.sticky)

\* The pointer is the one link an install contains.
judgePointer(m) == IF m.link THEN m.owner = 0 ELSE ~modeProblem(m, "container")

CheckPrivilegedRoot(r) ==
  /\ ~modeProblem(tree[r]["above"], "ancestor")
  /\ installed[r] # 0 =>
       /\ ~modeProblem(tree[r]["install"], "container")
       /\ judgePointer(tree[r]["current"])

\* What a helper creates is root's, and nobody else may write it.
Secure == [owner |-> 0, link |-> FALSE, write |-> FALSE, sticky |-> FALSE]
Created == [o \in Objects |-> IF o = "current" THEN [Secure EXCEPT !.link = TRUE] ELSE Secure]

---------------------------------------------------------------------------
(* The service's helper.                                                   *)

\* Mutant of uidPermitted: no list means nobody, the superuser included.
uidListed(u, allowed) == u \in allowed

\* No list means the superuser alone.
uidPermitted(u, allowed) == IF allowed = {} THEN u = 0 ELSE u \in allowed

\* callers.json; a missing file is an empty list.
readCallers == callers

\* newHelper: a root that is not safe keeps the helper from starting; the socket comes last.
newHelper(uids) ==
  /\ \A r \in AllowedRoots : CheckPrivilegedRoot(r)
  /\ helper' = [up |-> TRUE, uids |-> uids, recent |-> FALSE]

\* serve: the accounts are read once.
StartHelper ==
  /\ ~helper.up /\ Spend
  /\ newHelper(readCallers)
  /\ UNCHANGED <<roots, callers, backlog, slots, client>>

\* The process ends: cancelled, killed or crashed.  Its connections close unanswered.
StopHelper ==
  /\ helper.up /\ Spend
  /\ helper' = [helper EXCEPT !.up = FALSE]
  /\ backlog' = <<>>
  /\ slots' = [i \in Slots |->
       IF slots[i].kind = "service" /\ slots[i].stage \notin {"free", "answered"}
       THEN Ended(slots[i], "answered", "none") ELSE slots[i]]
  /\ UNCHANGED <<roots, callers, client>>

\* Serve accepts the next connection when the last one was handled.
Unoccupied == \A i \in Slots : slots[i].kind = "service" => slots[i].stage \notin Working \cup {"reply"}

\* The account the kernel names for the other end of the connection.
authorizeConn(s) == uidPermitted(s.who, helper.uids)

\* One request per MinInterval, whoever asks.
takeToken == ~helper.recent

\* Accept; then who is asking, then how often, before anything is read.
Accept ==
  /\ helper.up /\ backlog # <<>> /\ Unoccupied
  /\ LET i == Head(backlog)
         s == slots[i]
     IN  /\ Put(i, IF authorizeConn(s) /\ takeToken THEN [s EXCEPT !.stage = "reading"]
                   ELSE Ended(s, "reply", "denied"))
         /\ helper' = [helper EXCEPT !.recent = helper.recent \/ authorizeConn(s)]
  /\ backlog' = Tail(backlog)
  /\ UNCHANGED <<roots, callers, client, budget>>

\* Mutants of RootAccepted: the check at the start is enough.
RootListed(s) == s.kind = "service" => s.root \in AllowedRoots

\* The root is one of the helper's (a started helper has none of its own: AcceptRequest)
\* and is judged again, now.
RootAccepted(s) ==
  /\ s.kind = "service" => s.root \in AllowedRoots
  /\ CheckPrivilegedRoot(s.root)

\* The three scalars are judged by the sender's rules again, on the socket and on the
\* command line alike.
ParseRequest(s) == s.msg = "request"

\* decodeRequest and the judgement of the root, for a request that has arrived.
ReadRequest(i) ==
  /\ slots[i].stage = "reading" /\ slots[i].msg # "silent"
  /\ LET s == slots[i]
     IN  Put(i, IF ~ParseRequest(s) THEN Ended(s, "reply", "request")
                ELSE IF ~RootAccepted(s) THEN Ended(s, "reply", "denied")
                ELSE [s EXCEPT !.stage = "checked", !.seen = head[Channel],
                               !.vouched = CheckPrivilegedRoot(s.root)])
  /\ UNCHANGED <<roots, callers, helper, backlog, client, budget>>

\* Mutant of Deadline: no read deadline.
NoDeadline(s) == FALSE

\* exchangeTimeout: nothing holds the helper longer.
Deadline(s) == s.msg = "silent"

ReadTimeout(i) ==
  /\ slots[i].stage = "reading" /\ Deadline(slots[i])
  /\ Put(i, Ended(slots[i], "reply", "request"))
  /\ UNCHANGED <<roots, callers, helper, backlog, client, budget>>

\* Mutant of Agrees: the caller's version is taken, if it is an update at all.
AgreesAnyway(v, h) == v <= h

\* The version asked for has to be the one this side resolved.
Agrees(v, h) == v = h

\* RequestApplier.Apply and ApplyRequested, up to Apply: the helper's channel, its own
\* resolution of the head, and the answer for a version that is already there.
ApplyRequested(i) ==
  LET s == slots[i]
      now == installed[s.root]
      newer == head[Channel] > now
  IN  /\ s.stage = "checked" /\ s.kind = "service"
      /\ Put(i, IF s.channel # Channel THEN Ended(s, "reply", "apply")
                ELSE IF ~newer
                  THEN Ended(s, "reply", IF now = s.version THEN "ok" ELSE "apply")
                ELSE IF ~Agrees(s.version, head[Channel])
                  THEN Ended(s, "reply", "apply")
                ELSE [s EXCEPT !.stage = "resolved", !.from = now])
      /\ UNCHANGED <<roots, callers, helper, backlog, client, budget>>

\* Apply: refused if the install moved on since the resolution, else the transaction.
Install(i) ==
  LET s == slots[i]
      stale == installed[s.root] # s.from
  IN  /\ s.stage = "resolved"
      /\ Put(i, Ended(s, "reply", IF stale THEN "apply" ELSE "ok"))
      /\ installed' = IF stale THEN installed ELSE [installed EXCEPT ![s.root] = s.version]
      /\ tree' = IF stale \/ s.from # 0 THEN tree
                 ELSE [tree EXCEPT ![s.root] = [Created EXCEPT !["above"] = tree[s.root]["above"]]]
      /\ UNCHANGED <<head, callers, helper, backlog, client, budget>>

\* The resolution or the transaction fails, at any point before the commit.
FailApply(i) ==
  /\ slots[i].stage \in {"checked", "resolved"} /\ Spend
  /\ Put(i, Ended(slots[i], "reply", "apply"))
  /\ UNCHANGED <<roots, callers, helper, backlog, client>>

\* encodeResponse and close, or the exit status.
Reply(i) ==
  /\ slots[i].stage = "reply"
  /\ Put(i, Ended(slots[i], "answered", slots[i].class))
  /\ UNCHANGED <<roots, callers, helper, backlog, client, budget>>

---------------------------------------------------------------------------
(* The helper of an interactive elevator: the installer's apply verb       *)
(* (cmd/installer), or a program of the host's in its place.               *)

\* Install of the version named, on the channel named, which this side resolves itself:
\* success if it is there already, a refusal if what is there is newer.
PinnedApply(i) ==
  LET s == slots[i]
      now == installed[s.root]
  IN  /\ s.stage = "checked" /\ s.kind = "process"
      /\ Put(i, IF now = s.version THEN Ended(s, "reply", "ok")
                ELSE IF now > s.version \/ s.version > head[s.channel] THEN Ended(s, "reply", "apply")
                ELSE [s EXCEPT !.stage = "resolved", !.from = now])
      /\ UNCHANGED <<roots, callers, helper, backlog, client, budget>>

\* The dialog is dismissed, the program dies, or it exits zero having done nothing.
EndProcess(i, c) ==
  /\ slots[i].kind = "process" /\ slots[i].stage \in Working \cup {"reply"} /\ Spend
  /\ c = "declined" => slots[i].stage = "reading"
  /\ Put(i, Ended(slots[i], "answered", c))
  /\ UNCHANGED <<roots, callers, helper, backlog, client>>

---------------------------------------------------------------------------
(* The asking process.                                                     *)

Failed(u) == client' = [client EXCEPT ![u] = Idle]

\* CheckForUpdate, without the right to write: the head against what is installed.
CheckForUpdate(u, r, c, k) ==
  /\ client[u].pc = "idle" /\ head[c] > installed[r]
  /\ client' = [client EXCEPT ![u] = [pc |-> "offered", root |-> r, channel |-> c, kind |-> k, slot |-> 0,
                                      from |-> installed[r], to |-> head[c], committed |-> FALSE]]
  /\ UNCHANGED <<roots, callers, helper, backlog, slots, budget>>

\* applyElevated up to the elevator: refused when the install moved on meanwhile.
Fresh(c) == installed[c.root] = c.from

RefuseStale(u) ==
  /\ client[u].pc = "offered" /\ ~Fresh(client[u])
  /\ Failed(u)
  /\ UNCHANGED <<roots, callers, helper, backlog, slots, budget>>

\* Root, channel and version cross the boundary, and nothing else does.
newRequest(u, stage) ==
  [NoSlot EXCEPT !.stage = stage, !.kind = client[u].kind, !.who = u, !.root = client[u].root,
                 !.channel = client[u].channel, !.version = client[u].to]

Send(u, i, stage) ==
  /\ client' = [client EXCEPT ![u].pc = "waiting", ![u].slot = i]
  /\ Put(i, newRequest(u, stage))

\* serviceElevator.Apply up to its wait: a failure if there is no helper to connect to.
Dial(u, i) ==
  /\ client[u].pc = "offered" /\ client[u].kind = "service" /\ Fresh(client[u]) /\ First(i)
  /\ IF helper.up THEN Send(u, i, "queued") /\ backlog' = Append(backlog, i)
     ELSE Failed(u) /\ UNCHANGED <<slots, backlog>>
  /\ UNCHANGED <<roots, callers, helper, budget>>

\* interactive.Apply (pkexec, UAC) up to its wait: a process of its own for this request.
StartProcess(u, i) ==
  /\ client[u].pc = "offered" /\ client[u].kind = "process" /\ Fresh(client[u]) /\ First(i)
  /\ Send(u, i, "reading")
  /\ UNCHANGED <<roots, callers, helper, backlog, budget>>

\* The pre-flight check or the user says no.
Decline(u) ==
  /\ client[u].pc = "offered" /\ Spend
  /\ Failed(u)
  /\ UNCHANGED <<roots, callers, helper, backlog, slots>>

\* The wait is cancelled; the apply is not.
Cancel(u) ==
  /\ client[u].pc = "waiting" /\ Spend
  /\ Failed(u)
  /\ UNCHANGED <<roots, callers, helper, backlog, slots>>

\* Mutant of ReadBack: the helper's word.
TrustAnswer(c, class) == class = "ok"

\* The answer, and then the pointer: anything but the version asked for is a failure.
ReadBack(c, class) == class = "ok" /\ installed[c.root] = c.to

Receive(u) ==
  LET c == client[u]
  IN  /\ c.pc = "waiting" /\ slots[c.slot].stage = "answered"
      /\ IF ReadBack(c, slots[c.slot].class)
         THEN client' = [client EXCEPT ![u] = [Idle EXCEPT !.root = c.root, !.to = c.to, !.committed = TRUE]]
         ELSE Failed(u)
      /\ Put(c.slot, NoSlot)
      /\ UNCHANGED <<roots, callers, helper, backlog, budget>>

\* Nobody waits for the answer any more.
Forget(i) ==
  /\ slots[i].stage = "answered" /\ \A u \in Users : client[u].slot # i
  /\ Put(i, NoSlot)
  /\ UNCHANGED <<roots, callers, helper, backlog, client, budget>>

---------------------------------------------------------------------------
(* The rest of the machine.                                                *)

\* Some other process of a user connects, and says nothing or nothing sensible.
StrayPeer(u, m, i) ==
  /\ helper.up /\ First(i) /\ Spend
  /\ Put(i, [NoSlot EXCEPT !.stage = "queued", !.who = u, !.msg = m])
  /\ backlog' = Append(backlog, i)
  /\ UNCHANGED <<roots, callers, helper, client>>

Publish(c) ==
  /\ head[c] < MaxVersion /\ Spend
  /\ head' = [head EXCEPT ![c] = @ + 1]
  /\ UNCHANGED <<installed, tree, callers, helper, backlog, slots, client>>

\* helper allow and helper deny: the file only, until the helper starts again.
EditCallers(u, add) ==
  /\ Spend /\ (u \in callers) # add
  /\ callers' = IF add THEN callers \cup {u} ELSE callers \ {u}
  /\ UNCHANGED <<roots, helper, backlog, slots, client>>

\* An administrator changes the mode of an object of a root (only maintained ones matter).
Chmod(r, o, m) ==
  /\ Spend /\ tree[r][o] # m /\ (installed[r] # 0 \/ o = "above")
  /\ tree' = [tree EXCEPT ![r][o] = m]
  /\ UNCHANGED <<head, installed, callers, helper, backlog, slots, client>>

\* MinInterval passes.
Elapse ==
  /\ helper.recent
  /\ helper' = [helper EXCEPT !.recent = FALSE]
  /\ UNCHANGED <<roots, callers, backlog, slots, client, budget>>

---------------------------------------------------------------------------
Init ==
  /\ head = [c \in Channels |-> 1]
  /\ \E v \in {0, 1} : installed = [r \in Roots |-> IF r \in AllowedRoots THEN v ELSE 1]
  /\ tree = [r \in Roots |-> Created]
  /\ callers \in {{}, Users}
  /\ helper = [up |-> TRUE, uids |-> callers, recent |-> FALSE]
  /\ backlog = <<>>
  /\ slots = [i \in Slots |-> NoSlot]
  /\ client = [u \in Users |-> Idle]
  /\ budget = MaxEvents

Serving(i) == ReadRequest(i) \/ ReadTimeout(i) \/ ApplyRequested(i) \/ PinnedApply(i) \/ Install(i) \/ Reply(i)
Request(u) == \/ \E w \in Wants[u] : CheckForUpdate(u, w[1], w[2], w[3])
              \/ RefuseStale(u) \/ \E i \in Slots : Dial(u, i) \/ StartProcess(u, i)
Outside ==
  \/ StartHelper \/ StopHelper
  \/ \E i \in Slots : FailApply(i) \/ \E c \in {"ok", "declined", "none"} : EndProcess(i, c)
  \/ \E u \in Users : Decline(u) \/ Cancel(u) \/ \E add \in BOOLEAN : EditCallers(u, add)
  \/ \E u \in Users, m \in {"silent", "malformed"}, i \in Slots : StrayPeer(u, m, i)
  \/ \E c \in Channels : Publish(c)
  \/ \E r \in AllowedRoots, o \in Objects, m \in Modes : Chmod(r, o, m)

Next ==
  \/ Accept \/ Elapse \/ Outside
  \/ \E i \in Slots : Serving(i) \/ Forget(i)
  \/ \E u \in Users : Request(u) \/ Receive(u)

Spec == Init /\ [][Next]_vars

\* Fairness: a helper that runs goes on running, whoever waits for an answer reads it,
\* time passes, and a host that has an update to ask for asks.  Nothing that depends on
\* an administrator, a user's answer or a stray peer is assumed.
FairSpec ==
  /\ Spec /\ WF_vars(Accept) /\ WF_vars(Elapse)
  /\ \A i \in Slots : WF_vars(Serving(i)) /\ WF_vars(Forget(i))
  /\ \A u \in Users : WF_vars(Receive(u)) /\ WF_vars(Request(u))

---------------------------------------------------------------------------
(* What elevation promises.                                                *)

\* Types.
SlotType ==
  [stage : {"free", "queued", "reply", "answered"} \cup Working, kind : {"service", "process"},
   who : Users, msg : {"request", "malformed", "silent"}, root : Roots, channel : Channels,
   version : Versions, from : Versions, class : Classes, seen : Versions, vouched : BOOLEAN]

ClientType ==
  [pc : {"idle", "offered", "waiting"}, root : Roots, channel : Channels, kind : {"service", "process"},
   from : Versions, to : Versions, slot : 0..MaxSlots, committed : BOOLEAN]

\* Every variable has its type, the backlog holds each queued connection once, and no
\* two processes wait on one connection.
TypeOK ==
  /\ head \in [Channels -> Versions] /\ installed \in [Roots -> Versions]
  /\ tree \in [Roots -> [Objects -> [owner : Nat, link : BOOLEAN, write : BOOLEAN, sticky : BOOLEAN]]]
  /\ callers \subseteq Users
  /\ helper \in [up : BOOLEAN, uids : SUBSET Users, recent : BOOLEAN]
  /\ slots \in [Slots -> SlotType]
  /\ backlog \in Seq(Slots)
  /\ IsInjective(backlog) /\ Range(backlog) = {i \in Slots : slots[i].stage = "queued"}
  /\ client \in [Users -> ClientType]
  /\ \A u, v \in Users : client[u].slot = client[v].slot => u = v \/ client[u].slot = 0
  /\ budget \in 0..MaxEvents

\* applyElevated: an update is reported as committed only if it is installed, and what
\* was reported stays true: a helper that exits zero, an answer about another process's
\* install, or a later apply never makes it false.
ReportedInstalled ==
  \A u \in Users : client[u].committed => installed[client[u].root] >= client[u].to

\* The exchange that changes a root.
Installer(i, r) == slots[i].stage = "resolved" /\ slots'[i].stage = "reply" /\ slots[i].root = r

\* serve: nothing is written for an account the helper did not read at its start, into a
\* root that is not its own, or into a root that was not judged safe for this request.
VettedInstall ==
  [][\A r \in Roots : installed'[r] # installed[r] =>
       \E i \in Slots :
         /\ Installer(i, r) /\ slots[i].vouched
         /\ slots[i].kind = "service" =>
              /\ r \in AllowedRoots
              /\ slots[i].who \in helper.uids \/ (helper.uids = {} /\ slots[i].who = 0)]_vars

\* ApplyRequested and preflightVersion: what is installed is newer than what was there,
\* and if the service installs it, not older than the head its channel had when the
\* request was read, however old the request and whichever helper ran meanwhile.
HeadOnly ==
  [][\A r \in Roots : installed'[r] # installed[r] =>
       /\ installed'[r] > installed[r]
       /\ \E i \in Slots :
            /\ Installer(i, r) /\ installed'[r] <= head[slots[i].channel]
            /\ slots[i].kind = "service" => slots[i].channel = Channel /\ installed'[r] >= slots[i].seen]_vars

\* exchangeTimeout: whoever waits for an answer gets one, or the end of the connection,
\* whatever other peers say or leave unsaid.
EveryoneAnswered == \A u \in Users : client[u].pc = "waiting" ~> client[u].pc # "waiting"

\* The only account the service serves (the superuser if it was told of none), asking
\* for the channel in a root that is safe.
Entitled(u, r) ==
  /\ helper.up /\ r \in AllowedRoots /\ CheckPrivilegedRoot(r)
  /\ helper.uids = {u} \/ (helper.uids = {} /\ u = 0)
  /\ Wants[u] = {<<r, Channel, "service">>}

\* takeToken comes after authorizeConn, so only an account that may ask uses up the rate
\* limit: a request that was cancelled, refused for asking too often or answered after
\* its helper died is asked again and gets the root to the head, however often the
\* accounts that may not ask do.
AskingAgainSettles ==
  \A u \in Users, r \in Roots : <>[]Entitled(u, r) => <>[](installed[r] >= head[Channel])
============================================================================
