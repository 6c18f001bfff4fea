------------------------------ MODULE Delivery ------------------------------
(***************************************************************************)
(* One client of a repository: the check for an update (core/updater,      *)
(* core/trust, core/timefloor), the walk to the release that is offered    *)
(* (core/release), the three sources a file may come from (core/stage) and *)
(* the download (module Fetch), while the repository goes on publishing    *)
(* and collecting (module Repository), files rot, and the clock is set.    *)
(*                                                                         *)
(* go-tuf is external: a refresh gives the signed targets of one served    *)
(* state, refuses metadata that has expired by the local clock, and        *)
(* verified bytes are the bytes named.  The transaction that makes a       *)
(* staged release current is one step here; module Transaction has it.     *)
(***************************************************************************)
EXTENDS Repository, Fetch, FiniteSetsExt

CONSTANTS
  Before,         \* the releases published so far, all on the channel
  Channel,        \* the channel this client follows
  ClientVersion,  \* the version of this client
  Withheld,       \* versions whose rollout this client's bucket is outside of
  PatchCost,      \* the size of a patch and of a file, in the same unit
  FileCost,
  maxWalk,        \* the longest walk through published releases
  MaxClock,       \* bound: times, from 1 on; 0 is before the repository was signed
  MaxEvents       \* bound: publishes and faults (of disk, link, clock, process, release)

ASSUME DeliveryAssumption ==
  /\ Channel \in Channels /\ maxWalk \in Nat \ {0} /\ MaxClock \in Nat \ {0} /\ PatchCost > 0 /\ FileCost > 0
  /\ Before # {} /\ IsFiniteSet(Before) /\ Before \subseteq Releases /\ \A r \in Before : r.channel = Channel
  /\ \A r \in Releases : /\ r.version \in Nat \ {0} /\ r.minFrom \in Nat /\ r.minClient \in Nat
                         /\ r.files = [f \in DOMAIN r.files |-> r.files[f]]
  /\ ClientVersion \in Nat /\ MaxEvents \in Nat
  /\ \E r \in Reps : r.id = "good" /\ r.len = Ceiling /\ r.etag # ""

VARIABLES
  expires,   \* when the served timestamp expires
  view,      \* the signed targets of the last refresh
  cache,     \* the local targets directory: <<path, data>>, one per path
  trees,     \* the installed versions: what each file holds
  current,   \* the live version, 0 for none
  prev,      \* the last confirmed version while current is on probation, else 0
  blocked,   \* the version a failed probation rolled back, else 0
  clock,     \* the local clock
  known,     \* the recorded known-good time
  pc,        \* idle, refreshed, offered, step, stage or fetch
  offer,     \* the release CheckForUpdate returned, and the version it was for
  walk,      \* the releases Apply still has to install
  staged,    \* the staging tree: what each staged file holds
  budget     \* publishes and faults left

clientVars == <<view, cache, trees, current, prev, blocked, known, pc, offer, walk, staged, dl>>
vars == <<repoVars, expires, clientVars, clock, budget>>

NoOffer == [to |-> [version |-> 0], from |-> 0]
Rot == "rot"       \* bytes that are not what any role signs for
EmptyTree == [f \in {} |-> Rot]

---------------------------------------------------------------------------
(* Trust: verified targets, from the cache or the repository.              *)

\* The bytes are exactly the ones a role of the view signs for under that path; the
\* one check for whatever did not come through a download.
VerifyTarget(t, data) == t \in view /\ data = t[2]

\* materialize: a cached copy that verifies, or else a download.
Obtainable(t) == t \in view /\ (t \in cache \/ t \in files)

Cached(ts) == {c \in cache : c[1] \notin Paths(ts)} \cup ts

\* The pointer of the channel and the descriptor it names, as the view signs them.
PointerOf(ts) == {p \in Of("channels", ts) : p[1] = PointerPath(Channel)}
HeadOf(ts) == {t \in Of("releases", ts) : \E p \in PointerOf(ts) : t[2].version = p[2]}

\* The releases of the view whose descriptor can be resolved.
Resolvable == {t[2] : t \in {u \in Of("releases", view) : Obtainable(u)}}

---------------------------------------------------------------------------
(* The release walk.                                                       *)

\* What the migration floor does not decide.
Acceptable(d, at) ==
  /\ d.channel = Channel
  /\ d.minClient <= ClientVersion
  /\ at # 0 => d.version > at

applicable(d, at) == Acceptable(d, at) /\ (at # 0 => at >= d.minFrom)

Reachable(cs, at) == {c \in cs : c.version > at /\ applicable(c, at)}

\* Mutant of furthestReachable: the nearest.
nearestReachable(cs, at) ==
  CHOOSE c \in Reachable(cs, at) : \A e \in Reachable(cs, at) : e.version >= c.version

\* The newest candidate that may be installed on top of a version.
furthestReachable(cs, at) ==
  CHOOSE c \in Reachable(cs, at) : \A e \in Reachable(cs, at) : e.version <= c.version

\* The walk to d: d alone unless its floor forbids the jump, else the furthest
\* reachable release again and again, through releases of the channel only.  <<>> is
\* a refusal.
Candidates(d, at) ==
  {c \in Resolvable : c.version > at /\ c.version < d.version /\ c.channel = d.channel} \cup {d}

\* What the loop makes of them: from each release the furthest reachable one, up to d.
Walks(d, at) ==
  LET cs == Candidates(d, at)
      below(w, i) == IF i = 1 THEN at ELSE w[i-1].version
  IN  {w \in UNION {[1..n -> cs] : n \in 1..maxWalk} :
         /\ w[Len(w)] = d
         /\ \A i \in DOMAIN w : /\ Reachable(cs, below(w, i)) # {}
                               /\ w[i] = furthestReachable(cs, below(w, i))}

steps(d, at) ==
  IF applicable(d, at) THEN <<d>>
  ELSE IF ~Acceptable(d, at) \/ Walks(d, at) = {} THEN <<>>
  ELSE CHOOSE w \in Walks(d, at) : TRUE

---------------------------------------------------------------------------
(* The sources of a file.                                                  *)

\* The published releases from the installed one to d, of every channel; none unless
\* the installed one is published too and each of them can be resolved.
Chain(d) ==
  LET ds == {e \in DescriptorsIn(view) : e.version >= current /\ e.version < d.version}
  IN  IF current \in {e.version : e \in ds} /\ ds \subseteq Resolvable THEN ds \cup {d} ELSE {}

\* The payloads one destination had along the chain, repeats dropped.
Lineage(d, f) ==
  LET chain == {e \in Chain(d) : f \in DOMAIN e.files}
      before(e) == {x \in chain : x.version < e.version}
      last(e) == CHOOSE x \in before(e) : \A y \in before(e) : y.version <= x.version
      changed == {e \in chain : before(e) # {} => last(e).files[f] # e.files[f]}
      nth(n) == CHOOSE e \in changed : Cardinality({x \in changed : x.version < e.version}) = n - 1
  IN  [n \in 1..Cardinality(changed) |-> nth(n).files[f]]

\* The patch targets of the cheapest way from the first payload of a lineage to its
\* last: a shortest path over the patches the view lists.
Patch(d, from, to) == <<PatchPath(Line[d.version], from, to), "patch">>
NoRoute == [cost |-> FileCost, hops |-> {}]

cheapest(d, lineage) ==
  LET best[n \in DOMAIN lineage] ==
        LET ways == {i \in 1..(n-1) : Patch(d, lineage[i], lineage[n]) \in view}
            from == CHOOSE i \in ways : \A k \in ways : best[i].cost <= best[k].cost
        IN  IF n = 1 THEN [cost |-> 0, hops |-> {}]
            ELSE IF ways = {} THEN NoRoute
            ELSE [cost |-> best[from].cost + PatchCost,
                  hops |-> best[from].hops \cup {Patch(d, lineage[from], lineage[n])}]
  IN  best[Len(lineage)]

Payload(d, f) == <<PayloadPath(Line[d.version], d.files[f]), d.files[f]>>

\* A file some installed version holds with exactly the bytes of a target the view
\* signs for.
Local(f, t) == \E v \in DOMAIN trees : f \in DOMAIN trees[v] /\ VerifyTarget(t, trees[v][f])

\* There is a history, it ends at this file, a route over it costs less than the
\* file, and its first payload is on disk.
Patchable(d, f) ==
  LET lineage == Lineage(d, f)
      route == cheapest(d, lineage)
  IN  /\ Len(lineage) >= 2
      /\ lineage[Len(lineage)] = d.files[f]
      /\ route.cost < FileCost
      /\ Local(f, <<PayloadPath(Line[d.version], lineage[1]), lineage[1]>>)
      /\ \A t \in route.hops : Obtainable(t)

---------------------------------------------------------------------------
(* Checking for an update.                                                 *)

Spend == budget > 0 /\ budget' = budget - 1

\* Mutant of ClockSane: no floor.
ClockAny == clock >= 0

\* floor.Check: a clock below the known-good time refuses everything.
ClockSane == clock >= known

\* Observe raises the recorded time and never lowers it.
Observe(t) == known' = Max({known, t})

\* Mutant of Refresh: metadata that has not expired is not asked for again.
RefreshOnce ==
  /\ pc = "idle"
  /\ served # {}
  /\ ClockSane
  /\ clock <= expires
  /\ view' = IF view = {} THEN served ELSE view
  /\ Observe(clock)
  /\ pc' = "refreshed"
  /\ UNCHANGED <<repoVars, expires, cache, trees, current, prev, blocked, offer, walk, staged, dl, clock, budget>>

\* CheckForUpdate up to the refresh and the record of it.  The metadata must not
\* have expired by the local clock (go-tuf).
Refresh ==
  /\ pc = "idle"
  /\ served # {}
  /\ ClockSane
  /\ clock <= expires
  /\ view' = served
  /\ Observe(clock)
  /\ pc' = "refreshed"
  /\ UNCHANGED <<repoVars, expires, cache, trees, current, prev, blocked, offer, walk, staged, dl, clock, budget>>

\* LatestRelease: the channel's pointer, then the descriptor it names, each from the
\* cache or the repository, which may have collected them meanwhile.
LatestRelease ==
  {t[2] : t \in {u \in HeadOf(view) : Obtainable(u) /\ \A p \in PointerOf(view) : Obtainable(p)}}

\* A client outside a staged rollout's window stays out of it, check after check.
inRollout(d) == d.version \notin Withheld

\* What CheckForUpdate offers: not the installed release, none that was rolled back
\* here, none there is no way to, and none this client is not in the rollout of.
Offers ==
  {d \in LatestRelease :
     /\ d.version # current
     /\ d.version # blocked
     /\ steps(d, current) # <<>>
     /\ inRollout(d)}

\* The descriptors that were read on the way stay in the cache.
Consulted(d) ==
  HeadOf(view) \cup PointerOf(view)
    \cup (IF applicable(d, current) THEN {}
          ELSE {<<DescriptorPath(c.version), c>> : c \in Candidates(d, current)})

Resolve ==
  /\ pc = "refreshed"
  /\ \/ \E d \in Offers :
          /\ cache' = Cached(Consulted(d))
          /\ offer' = [to |-> d, from |-> current]
          /\ pc' = "offered"
     \/ /\ Offers = {}
        /\ pc' = "idle"
        /\ UNCHANGED <<cache, offer>>
  /\ UNCHANGED <<repoVars, expires, view, trees, current, prev, blocked, known, walk, staged, dl, clock, budget>>

---------------------------------------------------------------------------
(* Applying it.                                                            *)

\* plan: the walk, or the release alone where it cannot be planned; the step then
\* refuses it.
Plan ==
  /\ pc = "offered"
  /\ walk' = IF ClockSane /\ current = offer.from /\ steps(offer.to, current) # <<>>
             THEN steps(offer.to, current) ELSE <<offer.to>>
  /\ pc' = "step"
  /\ UNCHANGED <<repoVars, expires, view, cache, trees, current, prev, blocked, known, offer, staged, dl, clock, budget>>

\* Mutant of StepAllowed: the plan is trusted.
StepAllowedPlanned(d) == ClockSane /\ d.version # current /\ d.version # blocked

\* The clock, the version the release was resolved against, the policy and the
\* block, read again before each step of the walk.
StepAllowed(d) ==
  /\ ClockSane
  /\ current = offer.from
  /\ d.version # current
  /\ applicable(d, current)
  /\ d.version # blocked

BeginStep ==
  /\ pc = "step" /\ walk # <<>>
  /\ StepAllowed(Head(walk))
  /\ staged' = EmptyTree
  /\ pc' = "stage"
  /\ UNCHANGED <<repoVars, expires, view, cache, trees, current, prev, blocked, known, offer, walk, dl, clock, budget>>

\* The walk is done, or a step of it is refused: Apply returns.
Return ==
  /\ pc = "step"
  /\ walk # <<>> => ~StepAllowed(Head(walk))
  /\ pc' = "idle" /\ walk' = <<>> /\ offer' = NoOffer
  /\ UNCHANGED <<repoVars, expires, view, cache, trees, current, prev, blocked, known, staged, dl, clock, budget>>

\* A step fails: its transaction is rolled back, and the releases installed before it
\* stay.  The probation record it was armed with names a version that never went
\* live, and has replaced the one the live version had.
Fail ==
  /\ pc' = "idle" /\ walk' = <<>> /\ offer' = NoOffer /\ staged' = EmptyTree /\ dl' = NoDownload
  /\ prev' = IF pc \in {"stage", "fetch"} THEN 0 ELSE prev
  /\ UNCHANGED <<repoVars, expires, view, current, blocked, known, clock>>

Stage(f, content) == staged' = [g \in DOMAIN staged \cup {f} |-> IF g = f THEN content ELSE staged[g]]

\* reuse: bytes of an installed version that verify against the signed target.
Reuse(d, f) ==
  /\ Local(f, Payload(d, f))
  /\ Stage(f, d.files[f])
  /\ UNCHANGED <<cache, pc, dl, budget>>

\* patched: the hops of the cheapest route from a verified base, each result checked
\* against its signed target.
Patched(d, f) ==
  /\ ~Local(f, Payload(d, f))
  /\ Patchable(d, f)
  /\ Stage(f, d.files[f])
  /\ cache' = Cached(cheapest(d, Lineage(d, f)).hops)
  /\ UNCHANGED <<pc, dl, budget>>

\* Materialize, when neither of them could, be it for a fault on the way: a cached
\* copy that verifies, else a download.
Materialize(d, f) ==
  LET t == Payload(d, f) IN
  /\ ~Local(f, t)
  /\ IF Patchable(d, f) THEN Spend ELSE UNCHANGED budget
  /\ \/ /\ t \in view \cap cache
        /\ Stage(f, d.files[f])
        /\ UNCHANGED <<pc, dl>>
     \/ /\ t \notin view \cap cache
        /\ dl' = IF t \in view \cap files THEN StartDownload ELSE Failed
        /\ pc' = "fetch"
        /\ UNCHANGED staged
  /\ UNCHANGED cache

\* The next file of the release, from the first source that has it.
NextFile(d) == CHOOSE f \in DOMAIN d.files \ DOMAIN staged : TRUE

StageFile ==
  LET d == Head(walk) IN
  /\ pc = "stage"
  /\ DOMAIN staged # DOMAIN d.files
  /\ LET f == NextFile(d) IN Reuse(d, f) \/ Patched(d, f) \/ Materialize(d, f)
  /\ UNCHANGED <<repoVars, expires, view, trees, current, prev, blocked, known, offer, walk, clock>>

\* The host answers well, or one of the ways it does not.
Healthy == CHOOSE r \in Reps : r.id = "good" /\ r.len = Ceiling /\ r.etag # ""

Answer ==
  /\ pc = "fetch"
  /\ dl.state = "run"
  /\ \/ request(Healthy, GoodAnswer(Healthy)) /\ UNCHANGED budget
     \/ \E x \in Responses : request(x[1], x[2]) /\ Spend
  /\ UNCHANGED <<repoVars, expires, view, cache, trees, current, prev, blocked, known, pc, offer, walk, staged, clock>>

\* What the bytes of a body are: the signed content, or something else.
Holds(body, content) ==
  IF Len(body) = Ceiling /\ \A i \in DOMAIN body : body[i] = "good" THEN content ELSE Rot

\* The body is verified against the signed length and hash; only then is it cached
\* and streamed on.
Verified(d, f) == dl.state = "arrived" /\ Holds(dl.body, d.files[f]) = d.files[f]

Fetched ==
  LET d == Head(walk)
      f == NextFile(d)
  IN  /\ pc = "fetch"
      /\ Verified(d, f)
      /\ Stage(f, Holds(dl.body, d.files[f]))
      /\ cache' = Cached({Payload(d, f)})
      /\ dl' = NoDownload
      /\ pc' = "stage"
      /\ UNCHANGED <<repoVars, expires, view, trees, current, prev, blocked, known, offer, walk, clock, budget>>

\* Anything else fails the step.
NotFetched ==
  /\ pc = "fetch"
  /\ dl.state # "run"
  /\ ~Verified(Head(walk), NextFile(Head(walk)))
  /\ Fail
  /\ UNCHANGED <<trees, cache, budget>>

\* A tree of that version is there already: the step is refused, and its rollback
\* removes the tree that was in the way.
InTheWay ==
  LET d == Head(walk) IN
  /\ pc = "stage"
  /\ DOMAIN staged = DOMAIN d.files
  /\ d.version \in DOMAIN trees
  /\ trees' = [v \in DOMAIN trees \ {d.version} |-> trees[v]]
  /\ Fail
  /\ UNCHANGED <<cache, budget>>

\* The versions the garbage collection keeps: the live one, its newest predecessor,
\* anything newer, and the one a probation returns to.
Retained(versions, live, pinned) ==
  {v \in versions : \/ v >= live \/ v = pinned
                    \/ \A w \in versions : w < live => w <= v}

\* The staged release becomes the live one, on probation against the last version
\* that was confirmed; there is none for a first install.
Commit ==
  LET d == Head(walk)
      back == IF prev # 0 THEN prev ELSE current
      all == DOMAIN trees \cup {d.version}
  IN  /\ pc = "stage"
      /\ DOMAIN staged = DOMAIN d.files
      /\ d.version \notin DOMAIN trees
      /\ trees' = [v \in Retained(all, d.version, back) |-> IF v = d.version THEN staged ELSE trees[v]]
      /\ current' = d.version
      /\ prev' = back
      /\ offer' = [offer EXCEPT !.from = d.version]
      /\ walk' = Tail(walk)
      /\ staged' = EmptyTree
      /\ pc' = "step"
      /\ UNCHANGED <<repoVars, expires, view, cache, blocked, known, dl, clock, budget>>

---------------------------------------------------------------------------
(* What happens around the client.                                         *)

\* The new version confirms that it works.
Confirm ==
  /\ prev # 0 /\ pc \notin {"stage", "fetch"}
  /\ prev' = 0
  /\ UNCHANGED <<repoVars, expires, view, cache, trees, current, blocked, known, pc, offer, walk, staged, dl, clock, budget>>

\* The new version fails its probation: the launcher goes back and blocks it.  An
\* update agent in another process may hold an offer at that moment.
Revert ==
  /\ prev # 0 /\ pc \notin {"stage", "fetch"}
  /\ Spend
  /\ current' = prev /\ blocked' = current /\ prev' = 0
  /\ trees' = [v \in DOMAIN trees \ {current} |-> trees[v]]
  /\ UNCHANGED <<repoVars, expires, view, cache, known, pc, offer, walk, staged, dl, clock>>

\* The process dies; staging and download are lost, the cache and the trees stay.
Crash ==
  /\ pc # "idle"
  /\ Spend
  /\ Fail
  /\ UNCHANGED <<trees, cache>>

\* An installed file or a cached payload changes on disk.
Decay ==
  /\ Spend
  /\ \/ /\ \E v \in DOMAIN trees : \E f \in DOMAIN trees[v] : trees' = [trees EXCEPT ![v][f] = Rot]
        /\ UNCHANGED cache
     \/ /\ \E t \in Of("payloads", cache) : cache' = (cache \ {t}) \cup {<<t[1], Rot>>}
        /\ UNCHANGED trees
  /\ UNCHANGED <<repoVars, expires, view, current, prev, blocked, known, pc, offer, walk, staged, dl, clock>>

\* Time passes, or the local clock is set back.
SetClock ==
  /\ Spend
  /\ clock' \in 0..MaxClock
  /\ UNCHANGED <<repoVars, expires, clientVars>>

\* The targets a publish leads to: pointers, descriptors, payloads, and a patch for
\* every destination whose content changed where one is worth it.
NextServed(r, drop) ==
  LET descs == (DescriptorsIn(served) \ drop) \cup {Descriptor(r)}
      old == {d \in DescriptorsIn(served) : d.version < r.version}
  IN  {p \in Of("channels", served) : p[1] # PointerPath(r.channel)}
        \cup {<<PointerPath(r.channel), r.version>>}
        \cup {<<DescriptorPath(d.version), d>> : d \in descs}
        \cup UNION {PayloadsOf(d) : d \in descs}
        \cup Of("patches", served)
        \cup UNION {{Patch(r, d.files[f], r.files[f]) :
                        f \in {g \in DOMAIN r.files \cap DOMAIN d.files :
                                 <<d.files[g], r.files[g]>> \in Smaller}} : d \in old}

\* The repository publishes, with metadata valid up to some time: an operator may
\* shorten the validity too.
Published(r, drop) ==
  /\ Spend
  /\ served' = NextServed(r, drop)
  /\ Release(r, drop)
  /\ expires' \in 0..MaxClock
  /\ UNCHANGED <<clientVars, clock>>

\* What nothing serves any more is deleted: between two reads of the client it makes
\* no difference in how many steps.
Collected ==
  /\ files # files \cap served
  /\ files' = files \cap served
  /\ UNCHANGED <<served, ever>>
  /\ UNCHANGED <<expires, clientVars, clock, budget>>

Client == Refresh \/ Resolve \/ Plan \/ BeginStep \/ Return \/ StageFile
            \/ Answer \/ Fetched \/ NotFetched \/ InTheWay \/ Commit \/ Confirm

\* Retention takes the oldest releases first.
Oldest == {{d \in DescriptorsIn(served) : d.version <= e.version} : e \in DescriptorsIn(served)}

\* An operator publishes the next version, or points the channel back at one that is
\* still served.
Publishable ==
  {r \in Releases : \/ \A d \in DescriptorsIn(ever) : d.version < r.version
                    \/ Descriptor(r) \in DescriptorsIn(served)}

World == \/ \E r \in Publishable : \E drop \in Oldest \cup {{}} : Published(r, drop)
         \/ Collected \/ Revert \/ Crash \/ Decay \/ SetClock

\* A repository that has published the releases in Before, and a client that has
\* nothing installed yet or the first of them.
Init ==
  /\ \E r \in Before :
       /\ \A e \in Before : e.version <= r.version
       /\ served = {<<PointerPath(e.channel), r.version>> : e \in Before}
                     \cup {<<DescriptorPath(e.version), Descriptor(e)>> : e \in Before}
                     \cup UNION {PayloadsOf(e) : e \in Before}
  /\ files = served /\ ever = served
  /\ expires = 1 /\ view = {} /\ cache = {}
  /\ \E r \in Before :
       /\ \A e \in Before : e.version >= r.version
       /\ \/ current = 0 /\ trees = EmptyTree
          \/ current = r.version /\ trees = [v \in {r.version} |-> r.files]
  /\ prev = 0 /\ blocked = 0
  /\ clock = 1 /\ known = 0
  /\ pc = "idle" /\ offer = NoOffer /\ walk = <<>> /\ staged = EmptyTree /\ dl = NoDownload
  /\ budget = MaxEvents

Next == Client \/ World
Spec == Init /\ [][Next]_vars

\* A call is under way, or a check would not be refused for the clock.
Ready == pc # "idle" \/ (ClockSane /\ clock <= expires)

\* The host asks for updates again and again, and every call returns: weak fairness
\* of Client, with its enabling condition written out.
FairSpec == Spec /\ ([]<>~Ready \/ []<><<Client>>_vars)

---------------------------------------------------------------------------
(* Properties.                                                             *)

\* The shape of the client's state.
TypeOK ==
  /\ served \subseteq ever /\ files \subseteq ever /\ view \subseteq ever
  /\ \A c, d \in cache : c[1] = d[1] => c = d
  /\ {current, prev} \subseteq DOMAIN trees \cup {0}
  /\ expires \in 0..MaxClock /\ clock \in 0..MaxClock /\ known \in 0..MaxClock
  /\ pc \in {"idle", "refreshed", "offered", "step", "stage", "fetch"}
  /\ dl.state \in {"none", "run", "arrived", "failed"}
  /\ budget \in 0..MaxEvents

\* The release that is made current is one the repository published for the channel,
\* with exactly the signed content of every file of it -- reused, patched, cached or
\* downloaded, over whatever rot, mirror and broken link; it jumps no migration floor,
\* and it is not the version that failed its probation here, not even as a step of
\* the walk to a later one: although the walk was planned earlier, against a version
\* a launcher may have reverted since, and the channel may point back.  (A revert goes
\* back to prev.)
InstallsAllowed ==
  [][current' # current /\ current' # prev =>
       /\ current' > current
       /\ current' # blocked
       /\ \E d \in DescriptorsIn(ever) :
            /\ d.version = current' /\ d.channel = Channel
            /\ trees'[current'] = d.files
            /\ current # 0 => d.minFrom <= current]_vars

\* Metadata is accepted only if it was valid at every time at which an earlier check
\* succeeded: turning the clock back does not revive what has expired.
NoExpiredView ==
  [][(view' # view \/ known' # known) => known <= expires /\ known <= known']_vars

\* The planner against its definition: the walk exists exactly when some set of no
\* more than maxWalk releases of the channel leads to d in steps whose floors hold,
\* and it is a smallest such set.
LeadsTo(S, d, at) ==
  /\ d \in S
  /\ \A c \in S : LET below == {at} \cup {b.version : b \in {x \in S : x.version < c.version}}
                  IN  Acceptable(c, at) /\ (at # 0 => c.minFrom <= Max(below))

PlansShortest ==
  pc = "refreshed" =>
    \A d \in LatestRelease :
      LET plan == steps(d, current)
          ways == {S \in SUBSET Candidates(d, current) :
                     LeadsTo(S, d, current) /\ Cardinality(S) <= maxWalk}
      IN  IF ways = {} THEN plan = <<>>
          ELSE /\ plan # <<>>
               /\ \A S \in ways : Len(plan) <= Cardinality(S)

\* Nothing is left to do: the head is installed, is not for this client, or is behind
\* a version the client has blocked.
Settled(d) ==
  d.version = current \/ d.version = blocked \/ d.version \in Withheld
    \/ LET plan == steps(d, current)
       IN  plan = <<>> \/ \E i \in DOMAIN plan : plan[i].version = blocked

\* Once the repository, the disk, the link and the clock leave it alone, a client
\* ends up on the head of its channel -- through every step the floors ask for, over
\* trees of its own that are in the way -- unless the head is not for it, the walk
\* passes through a version it has blocked, or the metadata has expired.
CatchesUp ==
  <>[](\/ ~ClockSane \/ clock > expires
       \/ view = served /\ \A t \in HeadOf(view) : Settled(t[2]))

\* What the planner says of itself (steps, apply.go:139-141): a step this planner
\* picks cannot be one the apply then refuses.
StepsAccepted ==
  (pc = "offered" /\ ClockSane /\ current = offer.from) =>
    LET plan == steps(offer.to, current) IN plan # <<>> => StepAllowed(Head(plan))
=============================================================================
