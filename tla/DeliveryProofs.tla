--------------------------- MODULE DeliveryProofs ---------------------------
(***************************************************************************)
(* The safety properties of Delivery, for every set of releases, every     *)
(* history of publishes, faults and clocks, and every size of a download.  *)
(*                                                                         *)
(* An update is decided in three places: the check offers a release, the   *)
(* plan makes a walk of it, and each step of the walk is allowed or not    *)
(* when it begins.  Between them the repository publishes, a launcher may  *)
(* revert and the disk may rot.  Inv says what still holds of each: what   *)
(* is offered and walked was signed once, and while a step is staged, what *)
(* it was allowed by has not changed and what is staged is what was        *)
(* signed.                                                                 *)
(*                                                                         *)
(* The plan itself rests on the order of versions, which is shown to be a  *)
(* total preorder (CompareTotal, CompareTransitive), and is then a         *)
(* shortest walk (PlansAlwaysShortest).                                    *)
(***************************************************************************)
EXTENDS Delivery, SemVer, SequenceTheorems, FiniteSetTheorems, WellFoundedInduction, TLAPS

Ids == {r.id : r \in Reps}

\* The body is of the representation its validator names.
Pure(body, etag) == etag # "" => \A i \in DOMAIN body : \E r \in Reps : r.id = body[i] /\ r.etag = etag

\* What is held of download c.
Held(c) == c.state \in {"run", "arrived"} => c.body \in Seq(Ids) /\ Pure(c.body, c.etag)

Descriptors == {Descriptor(r) : r \in Releases}

\* Whatever a client knows of was served once, and every release served is one that an
\* operator published.
Signed == served \subseteq ever /\ view \subseteq ever /\ DescriptorsIn(ever) \subseteq Descriptors

\* Clock, recorded time and versions are numbers.
Numbers ==
  clock \in Nat /\ known \in Nat /\ expires \in Nat /\ current \in Nat /\ prev \in Nat

\* What is offered and what is walked is signed.
Walked ==
  /\ pc = "offered" => offer.to \in DescriptorsIn(ever)
  /\ walk \in Seq(DescriptorsIn(ever))

\* While a step is staged it is still allowed, and what is staged is the signed content.
Staging ==
  pc \in {"stage", "fetch"} =>
    /\ walk # <<>> /\ applicable(Head(walk), current) /\ Head(walk).version # blocked
    /\ staged = [f \in DOMAIN staged |-> Head(walk).files[f]]
    /\ DOMAIN staged \subseteq DOMAIN Head(walk).files
    /\ pc = "fetch" => DOMAIN staged # DOMAIN Head(walk).files

Inv == Signed /\ Numbers /\ Walked /\ Staging /\ Held(dl)

---------------------------------------------------------------------------
(* The download.                                                           *)

LEMMA BytesPure ==
  ASSUME NEW rep \in Reps, NEW n \in Nat
  PROVE  Bytes(rep, n) \in Seq(Ids) /\ Pure(Bytes(rep, n), rep.etag)
<1>1. Bytes(rep, n) \in [1..n -> Ids]
  BY DEF Bytes, Ids
<1>2. Bytes(rep, n) \in Seq(Ids)
  BY <1>1, SeqDef
<1>3. Pure(Bytes(rep, n), rep.etag)
  BY DEF Bytes, Pure
<1>4. QED
  BY <1>2, <1>3

LEMMA ConcatPure ==
  ASSUME NEW a \in Seq(Ids), NEW b \in Seq(Ids), NEW e, Pure(a, e), Pure(b, e)
  PROVE  a \o b \in Seq(Ids) /\ Pure(a \o b, e)
<1>1. a \o b \in Seq(Ids)
  OBVIOUS
<1> DEFINE c == a \o b
<1>2. /\ Len(a) \in Nat /\ Len(b) \in Nat /\ Len(c) = Len(a) + Len(b) /\ DOMAIN c = 1..Len(c)
      /\ DOMAIN a = 1..Len(a) /\ DOMAIN b = 1..Len(b)
      /\ \A i \in 1..Len(c) : c[i] = IF i <= Len(a) THEN a[i] ELSE b[i - Len(a)]
  BY <1>1, ConcatProperties, LenProperties
<1> HIDE DEF c
<1>3. ASSUME e # "", NEW i \in DOMAIN c
      PROVE  \E r \in Reps : r.id = c[i] /\ r.etag = e
  <2>1. i \in 1..Len(c) /\ i \in Nat /\ i <= Len(a) + Len(b) /\ i >= 1
    <3>1. i \in 1..Len(c)
      BY <1>2, Zenon
    <3>2. QED
      BY <1>2, <3>1
  <2>2. CASE i <= Len(a)
    <3>1. i \in DOMAIN a /\ c[i] = a[i]
      BY <1>2, <2>1, <2>2
    <3>2. QED
      BY <1>3, <3>1 DEF Pure
  <2>3. CASE i > Len(a)
    <3>1. i - Len(a) \in DOMAIN b /\ c[i] = b[i - Len(a)]
      BY <1>2, <2>1, <2>3
    <3>2. QED
      BY <1>3, <3>1 DEF Pure
  <2>4. QED
    BY <1>2, <2>1, <2>2, <2>3
<1>4. QED
  BY <1>1, <1>3 DEF Pure, c

\* Whatever follows a response holds no more than the body it is given.
LEMMA AgainHeld ==
  ASSUME NEW body \in Seq(Ids), NEW total, NEW etag, Pure(body, etag)
  PROVE  Held(Again(body, total, etag))
  BY DEF Held, Again, Failed

LEMMA TakeHeld ==
  ASSUME NEW body \in Seq(Ids), NEW n, NEW want, NEW broken, NEW total, NEW etag, Pure(body, etag)
  PROVE  Held(Take(body, n, want, broken, total, etag))
<1>1. Held(Failed)
  BY DEF Held, Failed
<1>2. Held(Arrived(body, etag))
  BY DEF Held, Arrived
<1>3. QED
  BY <1>1, <1>2, AgainHeld, Zenon DEF Take

\* A response to a running download: the whole of one representation, a part of the one
\* that If-Range named, or nothing more.
LEMMA RequestHeld ==
  ASSUME Held(dl), dl.state = "run", NEW rep \in Reps, NEW answer, answer.n \in Nat, request(rep, answer)
  PROVE  Held(dl')
<1>1. dl.body \in Seq(Ids) /\ Pure(dl.body, dl.etag)
  BY DEF Held
<1>2. Held(Failed)
  BY DEF Held, Failed
<1>3. CASE dl' = Whole(rep, answer.n, answer.announced, answer.broken)
  BY <1>2, <1>3, BytesPure, TakeHeld, Zenon DEF Whole
<1>4. CASE /\ dl.etag = "" \/ rep.etag = dl.etag
           /\ dl' = Partial(rep, answer.first, answer.n, answer.announced, answer.broken)
  <2> DEFINE got == dl.body \o Bytes(rep, answer.n)
  <2>1. Bytes(rep, answer.n) \in Seq(Ids) /\ Pure(Bytes(rep, answer.n), dl.etag)
    <3>1. Bytes(rep, answer.n) \in Seq(Ids) /\ Pure(Bytes(rep, answer.n), rep.etag)
      BY BytesPure
    <3>2. CASE dl.etag = ""
      BY <3>1, <3>2 DEF Pure
    <3>3. CASE dl.etag = rep.etag
      BY <3>1, <3>3
    <3>4. QED
      BY <1>4, <3>2, <3>3
  <2>2. got \in Seq(Ids) /\ Pure(got, dl.etag)
    BY <1>1, <2>1, ConcatPure
  <2> HIDE DEF got
  <2>3. ASSUME NEW n, NEW want, NEW broken, NEW total PROVE Held(Take(got, n, want, broken, total, dl.etag))
    BY <2>2, TakeHeld
  <2>4. QED
    BY <1>2, <1>4, <2>3, Zenon DEF Partial, got
<1>5. CASE dl' = Again(<<>>, 0, "")
  <2>1. <<>> \in Seq(Ids) /\ Pure(<<>>, "")
    BY DEF Pure
  <2>2. QED
    BY <1>5, <2>1, AgainHeld
<1>6. CASE dl' = Again(dl.body, dl.total, dl.etag)
  BY <1>1, <1>6, AgainHeld
<1>7. QED
  BY <1>2, <1>3, <1>4, <1>5, <1>6 DEF request
---------------------------------------------------------------------------
(* The walk.                                                               *)

LEMMA DescriptorType ==
  ASSUME NEW d \in Descriptors
  PROVE  /\ d.version \in Nat \ {0} /\ d.minFrom \in Nat /\ d.minClient \in Nat
         /\ d.files = [f \in DOMAIN d.files |-> d.files[f]]
<1>1. PICK r \in Releases : d = Descriptor(r)
  BY DEF Descriptors
<1>2. d.version = r.version /\ d.minFrom = r.minFrom /\ d.minClient = r.minClient /\ d.files = r.files
  BY <1>1 DEF Descriptor
<1>3. QED
  BY <1>2, DeliveryAssumption

LEMMA SignedMonotone ==
  ASSUME NEW S, NEW T, S \subseteq T
  PROVE  DescriptorsIn(S) \subseteq DescriptorsIn(T)
  BY DEF DescriptorsIn, Of

\* Every release the planner considers is signed, and so is every step of its walk.
LEMMA StepsSigned ==
  ASSUME Inv, NEW d \in DescriptorsIn(ever), NEW at
  PROVE  steps(d, at) \in Seq(DescriptorsIn(ever))
<1> DEFINE D == DescriptorsIn(ever)
           cs == Candidates(d, at)
<1>1. Resolvable \subseteq D
  BY SignedMonotone DEF Inv, Signed, Resolvable, DescriptorsIn, Of
<1>2. cs \subseteq D
  BY <1>1 DEF Candidates
<1>3. <<d>> \in Seq(D) /\ <<>> \in Seq(D)
  OBVIOUS
<1>4. ASSUME NEW w \in Walks(d, at) PROVE w \in Seq(D)
  <2>1. PICK n \in 1..maxWalk : w \in [1..n -> cs]
    BY DEF Walks
  <2> HIDE DEF D, cs
  <2>2. n \in Nat /\ w \in [1..n -> D]
    BY <1>2, <2>1
  <2>3. Seq(D) = UNION {[1..m -> D] : m \in Nat}
    BY SeqDef
  <2>4. QED
    BY <2>2, <2>3
<1>5. QED
  BY <1>3, <1>4 DEF steps

---------------------------------------------------------------------------
(* The client.                                                             *)

\* A step that touches neither what is walked nor the download.
LEMMA FrameStep ==
  ASSUME Inv, UNCHANGED <<walk, dl>>, UNCHANGED <<current, blocked>> \/ pc' \notin {"stage", "fetch"},
         Signed', Numbers', ever \subseteq ever',
         pc' = pc \/ pc' \notin {"offered", "stage", "fetch"},
         UNCHANGED <<offer, staged>> \/ pc' \notin {"offered", "stage", "fetch"}
  PROVE  Inv'
<1>1. DescriptorsIn(ever) \subseteq DescriptorsIn(ever')
  BY SignedMonotone
<1>2. Walked'
  <2>1. walk' \in Seq(DescriptorsIn(ever'))
    BY <1>1 DEF Inv, Walked
  <2>2. QED
    BY <1>1, <2>1 DEF Inv, Walked
<1>3. Staging'
  BY DEF Inv, Staging, applicable, Acceptable
<1>4. QED
  BY <1>2, <1>3 DEF Inv, Held

LEMMA LaterTime ==
  ASSUME NEW a \in Nat, NEW b \in Nat
  PROVE  Max({a, b}) \in Nat /\ a <= Max({a, b}) /\ b <= Max({a, b})
<1>1. \E x \in {a, b} : \A y \in {a, b} : x >= y
  <2>1. CASE a >= b
    BY <2>1
  <2>2. CASE b >= a
    BY <2>2
  <2>3. QED
    BY <2>1, <2>2
<1>2. Max({a, b}) \in {a, b} /\ \A y \in {a, b} : Max({a, b}) >= y
  BY <1>1, Zenon DEF Max
<1>3. QED
  BY <1>2

LEMMA RefreshStep == ASSUME Inv, Refresh PROVE Inv'
<1>1. UNCHANGED <<served, ever, expires, current, prev, clock, walk, blocked, dl>> /\ pc' = "refreshed"
      /\ view' = served /\ known' = Max({known, clock})
  BY DEF Refresh, repoVars, Observe
<1>2. Signed'
  BY <1>1 DEF Inv, Signed
<1>3. Numbers'
  BY <1>1, LaterTime DEF Inv, Numbers
<1>4. QED
  BY <1>1, <1>2, <1>3, FrameStep

LEMMA ResolveStep == ASSUME Inv, Resolve PROVE Inv'
<1>1. UNCHANGED <<served, ever, expires, view, current, prev, known, clock, walk, blocked, staged, dl>>
  BY DEF Resolve, repoVars
<1>2. Signed' /\ Numbers'
  BY <1>1 DEF Inv, Signed, Numbers
<1>3. CASE pc' = "idle"
  BY <1>1, <1>2, <1>3, FrameStep
<1>4. ASSUME NEW d \in Offers, offer' = [to |-> d, from |-> current], pc' = "offered" PROVE Inv'
  <2>1. d \in DescriptorsIn(view)
    BY DEF Offers, LatestRelease, HeadOf, DescriptorsIn
  <2>2. d \in DescriptorsIn(ever') /\ offer'.to = d
    BY <1>1, <1>4, <2>1, SignedMonotone DEF Inv, Signed
  <2>3. Walked' /\ Staging' /\ Held(dl')
    BY <1>1, <1>4, <2>2 DEF Inv, Walked, Staging, Held
  <2>4. QED
    BY <1>2, <2>3 DEF Inv
<1>5. QED
  BY <1>3, <1>4 DEF Resolve

LEMMA PlanStep == ASSUME Inv, Plan PROVE Inv'
<1>1. UNCHANGED <<served, ever, expires, view, current, prev, known, clock, dl>> /\ pc' = "step"
      /\ (walk' = steps(offer.to, current) \/ walk' = <<offer.to>>) /\ pc = "offered"
  BY DEF Plan, repoVars
<1>2. Signed' /\ Numbers'
  BY <1>1 DEF Inv, Signed, Numbers
<1>3. offer.to \in DescriptorsIn(ever)
  BY <1>1 DEF Inv, Walked
<1>4. walk' \in Seq(DescriptorsIn(ever))
  <2> DEFINE D == DescriptorsIn(ever)
  <2>1. steps(offer.to, current) \in Seq(D)
    BY <1>3, StepsSigned
  <2> HIDE DEF D
  <2>2. <<offer.to>> \in Seq(D)
    BY <1>3 DEF D
  <2>3. QED
    BY <1>1, <2>1, <2>2 DEF D
<1>5. Walked' /\ Staging' /\ Held(dl')
  BY <1>1, <1>4 DEF Inv, Walked, Staging, Held
<1>6. QED
  BY <1>2, <1>5 DEF Inv

LEMMA BeginStepStep == ASSUME Inv, BeginStep PROVE Inv'
<1>1. UNCHANGED <<served, ever, expires, view, current, prev, blocked, known, clock, walk, dl>>
      /\ pc' = "stage" /\ staged' = EmptyTree /\ walk # <<>> /\ StepAllowed(Head(walk))
  BY DEF BeginStep, repoVars
<1>2. Signed' /\ Numbers'
  BY <1>1 DEF Inv, Signed, Numbers
<1>3. Walked' /\ Held(dl')
  BY <1>1 DEF Inv, Walked, Held
<1>4. Staging'
  <2>1. DOMAIN EmptyTree = {} /\ EmptyTree = [f \in DOMAIN EmptyTree |-> Head(walk).files[f]]
    BY DEF EmptyTree
  <2>2. applicable(Head(walk), current)' /\ Head(walk').version # blocked'
    BY <1>1 DEF StepAllowed, applicable, Acceptable
  <2>3. staged' = [f \in DOMAIN staged' |-> Head(walk').files[f]] /\ DOMAIN staged' = {}
    BY <1>1, <2>1
  <2>4. QED
    BY <1>1, <2>2, <2>3 DEF Staging
<1>5. QED
  BY <1>2, <1>3, <1>4 DEF Inv

\* Apply returns, with or without a transaction rolled back.
LEMMA IdleStep ==
  ASSUME Inv, UNCHANGED <<served, ever, expires, view, current, known, clock>>,
         walk' = <<>>, pc' = "idle", Held(dl'), prev' \in Nat
  PROVE  Inv'
<1>1. Signed' /\ Numbers'
  BY DEF Inv, Signed, Numbers
<1>2. Walked' /\ Staging'
  BY DEF Walked, Staging
<1>3. QED
  BY <1>1, <1>2 DEF Inv

LEMMA ReturnStep == ASSUME Inv, Return PROVE Inv'
  BY IdleStep DEF Return, repoVars, Inv, Numbers, Held

LEMMA FailStep == ASSUME Inv, Fail PROVE Inv'
<1>1. Held(NoDownload)
  BY DEF Held, NoDownload
<1>2. UNCHANGED <<served, ever, expires, view, current, known, clock>> /\ walk' = <<>> /\ pc' = "idle"
      /\ dl' = NoDownload /\ prev' \in Nat
  BY DEF Fail, repoVars, Inv, Numbers
<1>3. QED
  BY <1>1, <1>2, IdleStep

\* There is a next file while some file is not staged.
LEMMA NextFileIs ==
  ASSUME Inv, pc \in {"stage", "fetch"}, DOMAIN staged # DOMAIN Head(walk).files
  PROVE  NextFile(Head(walk)) \in DOMAIN Head(walk).files \ DOMAIN staged
<1>1. \E f \in DOMAIN Head(walk).files \ DOMAIN staged : TRUE
  BY DEF Inv, Staging
<1>2. QED
  BY <1>1, Zenon DEF NextFile

\* A file is staged with its signed content.
LEMMA StageStep ==
  ASSUME Inv, pc \in {"stage", "fetch"}, NEW f \in DOMAIN Head(walk).files,
         Stage(f, Head(walk).files[f]), UNCHANGED <<walk, current, blocked>>, pc' = "stage"
  PROVE  Staging'
<1> DEFINE d == Head(walk)
<1>1. walk # <<>> /\ applicable(d, current) /\ d.version # blocked /\ DOMAIN staged \subseteq DOMAIN d.files
      /\ staged = [g \in DOMAIN staged |-> d.files[g]]
  BY DEF Inv, Staging
<1> HIDE DEF d
<1>2. staged' = [g \in DOMAIN staged \cup {f} |-> IF g = f THEN d.files[f] ELSE staged[g]]
  BY DEF Stage, d
<1>3. \A g \in DOMAIN staged : staged[g] = d.files[g]
  BY <1>1
<1>4. DOMAIN staged' = DOMAIN staged \cup {f} /\ \A g \in DOMAIN staged' : staged'[g] = d.files[g]
  BY <1>2, <1>3
<1>5. staged' = [g \in DOMAIN staged' |-> d.files[g]]
  BY <1>2, <1>4
<1>6. DOMAIN staged' \subseteq DOMAIN d.files
  BY <1>1, <1>4 DEF d
<1>7. d' = d /\ applicable(d, current)'
  BY <1>1 DEF d, applicable, Acceptable
<1>8. QED
  BY <1>1, <1>5, <1>6, <1>7 DEF Staging, d

LEMMA StageFileStep == ASSUME Inv, StageFile PROVE Inv'
<1> DEFINE d == Head(walk)
           f == NextFile(d)
<1>1. UNCHANGED <<served, ever, expires, view, current, prev, blocked, known, offer, clock, walk>> /\ pc = "stage"
      /\ (Reuse(d, f) \/ Patched(d, f) \/ Materialize(d, f)) /\ DOMAIN staged # DOMAIN d.files
  BY DEF StageFile, repoVars
<1>2. Signed' /\ Numbers'
  BY <1>1 DEF Inv, Signed, Numbers
<1>3. f \in DOMAIN d.files
  BY <1>1, NextFileIs
<1>4. CASE Stage(f, d.files[f]) /\ pc' = pc /\ dl' = dl
  <2>1. Staging'
    BY <1>1, <1>3, <1>4, StageStep
  <2>2. Walked' /\ Held(dl')
    BY <1>1, <1>4 DEF Inv, Walked, Held
  <2>3. QED
    BY <1>2, <2>1, <2>2 DEF Inv
<1>5. CASE (dl' = StartDownload \/ dl' = Failed) /\ pc' = "fetch" /\ UNCHANGED staged
  <2>1. Held(StartDownload) /\ Held(Failed)
    BY DEF Held, StartDownload, Failed, Pure
  <2>2. Walked' /\ Held(dl')
    BY <1>1, <1>5, <2>1 DEF Inv, Walked
  <2>3. Staging'
    BY <1>1, <1>5 DEF Inv, Staging, applicable, Acceptable
  <2>4. QED
    BY <1>2, <2>2, <2>3 DEF Inv
<1>6. CASE Reuse(d, f) \/ Patched(d, f)
  BY <1>4, <1>6 DEF Reuse, Patched
<1>7. CASE Materialize(d, f)
  BY <1>4, <1>5, <1>7 DEF Materialize
<1>8. QED
  BY <1>1, <1>6, <1>7

LEMMA AnswerStep == ASSUME Inv, Answer PROVE Inv'
<1>1. UNCHANGED <<served, ever, expires, view, current, prev, blocked, known, offer, clock, walk, staged, pc>>
      /\ dl.state = "run"
  BY DEF Answer, repoVars
<1>2. Held(dl) /\ Len(dl.body) \in Nat
  BY <1>1 DEF Inv, Held
<1>3. CASE request(Healthy, GoodAnswer(Healthy))
  <2>1. Healthy \in Reps /\ Healthy.len \in Nat
    <3>1. \E r \in Reps : r.id = "good" /\ r.len = Ceiling /\ r.etag # ""
      BY DeliveryAssumption
    <3>2. Healthy \in Reps
      BY <3>1, Zenon DEF Healthy
    <3>3. QED
      BY <3>2, FetchAssumption
  <2>2. PICK rep \in Reps : rep = Healthy
    BY <2>1
  <2>3. GoodAnswer(rep).n \in Nat
    <3> DEFINE whole == [status |-> 200, first |-> 0, n |-> rep.len, announced |-> TRUE, broken |-> FALSE]
               none == [whole EXCEPT !.status = 416, !.n = 0, !.announced = FALSE]
               rest == [whole EXCEPT !.status = 206, !.first = Len(dl.body), !.n = rep.len - Len(dl.body)]
    <3>1. whole.n = rep.len /\ none.n = 0 /\ rest.n = rep.len - Len(dl.body)
      OBVIOUS
    <3>2. \/ GoodAnswer(rep) = whole \/ GoodAnswer(rep) = none
          \/ ~(Len(dl.body) >= rep.len) /\ GoodAnswer(rep) = rest
      BY ZenonT(40) DEF GoodAnswer
    <3> HIDE DEF whole, none, rest
    <3>3. QED
      BY <1>2, <2>1, <2>2, <3>1, <3>2
  <2>4. Held(dl')
    BY <1>1, <1>2, <1>3, <2>2, <2>3, RequestHeld
  <2>5. QED
    BY <1>1, <2>4 DEF Inv, Signed, Numbers, Walked, Staging, applicable, Acceptable
<1>4. ASSUME NEW x \in Responses, request(x[1], x[2]) PROVE Inv'
  <2>1. x[1] \in Reps /\ x[2].n \in 0..Ceiling
    BY DEF Responses
  <2>2. x[2].n \in Nat
    BY <2>1, FetchAssumption
  <2>3. PICK rep \in Reps, answer \in {x[2]} : rep = x[1] /\ answer = x[2]
    BY <2>1
  <2>4. Held(dl')
    BY <1>1, <1>2, <1>4, <2>2, <2>3, RequestHeld
  <2>5. QED
    BY <1>1, <2>4 DEF Inv, Signed, Numbers, Walked, Staging, applicable, Acceptable
<1>5. QED
  BY <1>3, <1>4 DEF Answer

LEMMA FetchedStep == ASSUME Inv, Fetched PROVE Inv'
<1> DEFINE d == Head(walk)
           f == NextFile(d)
<1>1. UNCHANGED <<served, ever, expires, view, current, prev, blocked, known, offer, clock, walk>> /\ pc = "fetch"
      /\ Stage(f, Holds(dl.body, d.files[f])) /\ Verified(d, f) /\ dl' = NoDownload /\ pc' = "stage"
  BY DEF Fetched, repoVars
<1>2. Stage(f, d.files[f])
  BY <1>1, Zenon DEF Verified
<1>3. f \in DOMAIN d.files
  BY <1>1, NextFileIs DEF Inv, Staging
<1>4. Staging'
  BY <1>1, <1>2, <1>3, StageStep
<1>5. Signed' /\ Numbers' /\ Walked' /\ Held(dl')
  BY <1>1 DEF Inv, Signed, Numbers, Walked, Held, NoDownload
<1>6. QED
  BY <1>4, <1>5 DEF Inv

\* The step becomes the live version: what it was allowed by and what was staged.
LEMMA CommitIs ==
  ASSUME Inv, Commit
  PROVE  LET d == Head(walk)
         IN  /\ d \in DescriptorsIn(ever) /\ d.version \in Nat \ {0} /\ applicable(d, current)
             /\ d.version # blocked /\ current' = d.version /\ trees'[d.version] = d.files
<1> DEFINE d == Head(walk)
           back == IF prev # 0 THEN prev ELSE current
           all == DOMAIN trees \cup {d.version}
<1>1. pc = "stage" /\ DOMAIN staged = DOMAIN d.files /\ current' = d.version
      /\ trees' = [v \in Retained(all, d.version, back) |-> IF v = d.version THEN staged ELSE trees[v]]
  BY DEF Commit
<1>2. walk # <<>> /\ applicable(d, current) /\ d.version # blocked
      /\ staged = [f \in DOMAIN staged |-> d.files[f]]
  BY <1>1 DEF Inv, Staging
<1>3. d \in DescriptorsIn(ever)
  BY <1>2 DEF Inv, Walked
<1>4. d \in Descriptors
  BY <1>3 DEF Inv, Signed
<1>5. d.version \in Nat \ {0} /\ d.files = [f \in DOMAIN d.files |-> d.files[f]]
  BY <1>4, DescriptorType
<1>6. staged = d.files
  BY <1>1, <1>2, <1>5
<1>7. d.version \in Retained(all, d.version, back)
  <2> HIDE DEF d, back
  <2>1. d.version \in all /\ d.version >= d.version
    BY <1>5
  <2>2. QED
    BY <2>1 DEF Retained
<1>8. trees'[d.version] = d.files
  BY <1>1, <1>6, <1>7
<1>9. QED
  BY <1>1, <1>2, <1>3, <1>5, <1>8

LEMMA CommitStep == ASSUME Inv, Commit PROVE Inv'
<1>1. UNCHANGED <<served, ever, expires, view, known, clock, dl>> /\ pc' = "step" /\ walk' = Tail(walk)
      /\ pc = "stage" /\ prev' = IF prev # 0 THEN prev ELSE current
  BY DEF Commit, repoVars
<1>2. current' \in Nat
  BY CommitIs
<1>3. Signed' /\ Numbers'
  BY <1>1, <1>2 DEF Inv, Signed, Numbers
<1>4. walk' \in Seq(DescriptorsIn(ever))
  <2>1. walk \in Seq(DescriptorsIn(ever)) /\ walk # <<>>
    BY <1>1 DEF Inv, Walked, Staging
  <2>2. QED
    BY <1>1, <2>1
<1>5. Walked' /\ Staging' /\ Held(dl')
  BY <1>1, <1>4 DEF Inv, Walked, Staging, Held
<1>6. QED
  BY <1>3, <1>5 DEF Inv

---------------------------------------------------------------------------
(* Around the client.                                                      *)

LEMMA RevertStep == ASSUME Inv, Confirm \/ Revert PROVE Inv'
<1>1. UNCHANGED <<served, ever, expires, view, known, clock, walk, dl, pc, offer, staged>>
      /\ pc \notin {"stage", "fetch"} /\ (current' = current \/ current' = prev) /\ prev' = 0
  BY DEF Confirm, Revert, repoVars
<1>2. Signed' /\ Numbers'
  BY <1>1 DEF Inv, Signed, Numbers
<1>3. QED
  BY <1>1, <1>2, FrameStep

LEMMA DecayStep == ASSUME Inv, Decay \/ SetClock \/ Collected PROVE Inv'
<1>1. UNCHANGED <<served, ever, expires, view, known, current, prev, blocked, walk, dl, pc, offer, staged>>
      /\ (clock' = clock \/ clock' \in 0..MaxClock)
  BY DEF Decay, SetClock, Collected, repoVars, clientVars
<1>2. Signed' /\ Numbers'
  BY <1>1 DEF Inv, Signed, Numbers
<1>3. QED
  BY <1>1, <1>2, FrameStep

LEMMA PublishedStep ==
  ASSUME Inv, NEW r \in Releases, NEW drop, Published(r, drop)
  PROVE  Inv'
<1>1. UNCHANGED <<view, known, current, prev, blocked, walk, dl, pc, offer, staged, clock>>
      /\ expires' \in 0..MaxClock /\ ever' = ever \cup served'
      /\ DescriptorsIn(served') = (DescriptorsIn(served) \ drop) \cup {Descriptor(r)}
  BY DEF Published, Release, clientVars
<1>2. DescriptorsIn(ever') = DescriptorsIn(ever) \cup DescriptorsIn(served')
  BY <1>1 DEF DescriptorsIn, Of
<1>3. DescriptorsIn(served) \subseteq DescriptorsIn(ever)
  BY SignedMonotone DEF Inv, Signed
<1>4. Signed'
  BY <1>1, <1>2, <1>3 DEF Inv, Signed, Descriptors
<1>5. Numbers'
  BY <1>1 DEF Inv, Numbers
<1>6. QED
  BY <1>1, <1>4, <1>5, FrameStep

LEMMA InitInv == Init => Inv
<1> SUFFICES ASSUME Init PROVE Inv
  OBVIOUS
<1>1. DescriptorsIn(ever) \subseteq Descriptors
  <2>1. PICK r \in Before :
          served = {<<PointerPath(e.channel), r.version>> : e \in Before}
                     \cup {<<DescriptorPath(e.version), Descriptor(e)>> : e \in Before}
                     \cup UNION {PayloadsOf(e) : e \in Before}
    BY DEF Init
  <2> SUFFICES ASSUME NEW t \in served, t[1][1] = "releases" PROVE t[2] \in Descriptors
    BY DEF Init, DescriptorsIn, Of
  <2>2. ~\E e \in Before : t = <<PointerPath(e.channel), r.version>>
    BY DEF PointerPath
  <2>3. ~\E e \in Before : t \in PayloadsOf(e)
    BY DEF PayloadsOf, PayloadPath
  <2>4. PICK e \in Before : t = <<DescriptorPath(e.version), Descriptor(e)>>
    BY <2>1, <2>2, <2>3
  <2>5. QED
    BY <2>4, DeliveryAssumption DEF Descriptors
<1>2. current \in Nat
  <2>1. PICK r \in Before : current = 0 \/ current = r.version
    BY DEF Init
  <2>2. r.version \in Nat
    BY DeliveryAssumption, Zenon
  <2>3. QED
    BY <2>1, <2>2
<1>3. Signed /\ Numbers
  BY <1>1, <1>2 DEF Init, Signed, Numbers
<1>4. Walked /\ Staging /\ Held(dl)
  BY DEF Init, Walked, Staging, Held, NoDownload
<1>5. QED
  BY <1>3, <1>4 DEF Inv

LEMMA InvStep == Inv /\ [Next]_vars => Inv'
<1> SUFFICES ASSUME Inv, [Next]_vars PROVE Inv'
  OBVIOUS
<1>1. CASE UNCHANGED vars
  <2>1. UNCHANGED <<served, ever, expires, view, known, current, prev, blocked, walk, dl, pc, offer, staged, clock>>
    BY <1>1 DEF vars, repoVars, clientVars
  <2>2. Signed' /\ Numbers'
    BY <2>1 DEF Inv, Signed, Numbers
  <2>3. QED
    BY <2>1, <2>2, FrameStep
<1>2. CASE Client
  BY <1>2, RefreshStep, ResolveStep, PlanStep, BeginStepStep, ReturnStep, StageFileStep, AnswerStep,
     FetchedStep, FailStep, CommitStep, RevertStep DEF Client, NotFetched, InTheWay
<1>3. CASE World
  <2>1. Publishable \subseteq Releases
    BY DEF Publishable
  <2>2. QED
    BY <1>3, <2>1, PublishedStep, RevertStep, FailStep, DecayStep DEF World, Crash
<1>4. QED
  BY <1>1, <1>2, <1>3 DEF Next

\* Inv holds in every state of the client, its repository, disk, link and clock.
THEOREM Invariance == Spec => []Inv
  BY InitInv, InvStep, PTL DEF Spec

\* DownloadFile and checkPartial: a body is never spliced of two representations, for
\* every set of representations, number of attempts and length.
THEOREM BodyNeverSpliced == Spec => []NeverSpliced
<1>1. Inv => NeverSpliced
  BY DEF Inv, Held, Pure, NeverSpliced
<1>2. QED
  BY <1>1, Invariance, PTL

\* floor.Check and Observe: metadata is accepted only if it was valid at every time at
\* which an earlier check succeeded, whatever the clock is set to.
THEOREM ExpiredNeverRevived == Spec => NoExpiredView
<1> DEFINE A == (view' # view \/ known' # known) => known <= expires /\ known <= known'
<1>1. Inv /\ [Next]_vars => [A]_vars
  <2> SUFFICES ASSUME Inv, Next, view' # view \/ known' # known
               PROVE  known <= expires /\ known <= known'
    OBVIOUS
  <2>1. CASE Refresh
    BY <2>1, LaterTime DEF Refresh, Observe, ClockSane, Inv, Numbers
  <2>2. ~(Resolve \/ Plan \/ BeginStep \/ Return \/ StageFile \/ Answer \/ Fetched)
    BY DEF Resolve, Plan, BeginStep, Return, StageFile, Answer, Fetched
  <2>3. ~(NotFetched \/ InTheWay \/ Crash \/ Commit \/ Confirm \/ Revert \/ Decay)
    BY DEF NotFetched, InTheWay, Crash, Fail, Commit, Confirm, Revert, Decay
  <2>4. ~(SetClock \/ Collected \/ \E r \in Publishable : \E drop \in Oldest \cup {{}} : Published(r, drop))
    BY DEF SetClock, Collected, Published, clientVars
  <2>5. QED
    BY <2>1, <2>2, <2>3, <2>4 DEF Next, Client, World
<1>2. QED
  BY <1>1, Invariance, PTL DEF Spec, NoExpiredView

\* Apply: whatever is made current was published for the channel, holds exactly the signed
\* files, jumps no migration floor, goes forward and was not rolled back here.
THEOREM InstallsOnlyAllowed == Spec => InstallsAllowed
<1> DEFINE A == current' # current /\ current' # prev =>
                  /\ current' > current
                  /\ current' # blocked
                  /\ \E d \in DescriptorsIn(ever) :
                       /\ d.version = current' /\ d.channel = Channel
                       /\ trees'[current'] = d.files
                       /\ current # 0 => d.minFrom <= current
<1>1. Inv /\ [Next]_vars => [A]_vars
  <2> SUFFICES ASSUME Inv, Next, current' # current, current' # prev
               PROVE  /\ current' > current
                      /\ current' # blocked
                      /\ \E d \in DescriptorsIn(ever) :
                           /\ d.version = current' /\ d.channel = Channel
                           /\ trees'[current'] = d.files
                           /\ current # 0 => d.minFrom <= current
    OBVIOUS
  <2>1. ~(Refresh \/ Resolve \/ Plan \/ BeginStep \/ Return \/ StageFile \/ Answer \/ Fetched)
    BY DEF Refresh, Resolve, Plan, BeginStep, Return, StageFile, Answer, Fetched
  <2>2. ~(NotFetched \/ InTheWay \/ Crash \/ Confirm \/ Revert \/ Decay)
    BY DEF NotFetched, InTheWay, Crash, Fail, Confirm, Revert, Decay
  <2>3. ~(SetClock \/ Collected \/ \E r \in Publishable : \E drop \in Oldest \cup {{}} : Published(r, drop))
    BY DEF SetClock, Collected, Published, clientVars
  <2>4. Commit
    BY <2>1, <2>2, <2>3 DEF Next, Client, World
  <2>5. PICK d \in DescriptorsIn(ever) :
          /\ d.version \in Nat \ {0} /\ applicable(d, current) /\ d.version # blocked
          /\ current' = d.version /\ trees'[d.version] = d.files
    BY <2>4, CommitIs
  <2>6. d.minFrom \in Nat /\ current \in Nat
    BY <2>5, DescriptorType DEF Inv, Signed, Numbers
  <2>7. d.channel = Channel /\ (current # 0 => d.version > current /\ current >= d.minFrom)
    BY <2>5 DEF applicable, Acceptable
  <2>8. current' > current /\ (current # 0 => d.minFrom <= current)
    BY <2>5, <2>6, <2>7
  <2>9. QED
    BY <2>5, <2>7, <2>8
<1>2. QED
  BY <1>1, Invariance, PTL DEF Spec, InstallsAllowed

---------------------------------------------------------------------------
(* The order of versions (module SemVer).                                  *)
---------------------------------------------------------------------------
(* The first index where two lists differ.                                 *)

\* A nonempty set of indices has a least one: the loops of compareParsed stop there.
LEMMA LeastExists ==
  ASSUME NEW S, S \subseteq Nat, S # {}
  PROVE  Least(S) \in S /\ \A j \in S : Least(S) <= j
<1>1. \E x \in S : \A y \in S : ~(<<y, x>> \in OpToRel(<, Nat))
  BY NatLessThanWellFounded, WFMin
<1>2. PICK x \in S : \A y \in S : ~(<<y, x>> \in OpToRel(<, Nat))
  BY <1>1
<1>3. \A y \in S : ~(y < x)
  <2>1. SUFFICES ASSUME NEW y \in S, y < x PROVE FALSE
    OBVIOUS
  <2>2. <<y, x>> \in Nat \X Nat
    BY <1>2
  <2>3. <<y, x>>[1] = y /\ <<y, x>>[2] = x
    OBVIOUS
  <2>4. QED
    BY <1>2, <2>1, <2>2, <2>3, Zenon DEF OpToRel
<1>4. \A y \in S : x <= y
  BY <1>3, SMT
<1>5. QED
  BY <1>4 DEF Least

\* An index that is in the set and below every other is the one the loop stops at.
LEMMA LeastIs ==
  ASSUME NEW S, S \subseteq Nat, NEW i \in S, \A j \in S : i <= j
  PROVE  Least(S) = i
<1>1. Least(S) \in S /\ \A j \in S : Least(S) <= j
  BY LeastExists
<1>2. Least(S) \in Nat /\ i \in Nat
  BY <1>1
<1>3. QED
  BY <1>1, <1>2, SMT

---------------------------------------------------------------------------
(* One field.                                                              *)

\* One field: three answers, and the opposite one when the fields are exchanged.
LEMMA FieldSign ==
  ASSUME NEW a \in Ident, NEW b \in Ident, MaxUint \in Nat
  PROVE  /\ comparePreField(a, b) \in {-1, 0, 1}
         /\ comparePreField(a, b) = 0 - comparePreField(b, a)
  BY SMT DEF comparePreField, sign, weight, numericIdent, Ident

\* One field: equal either way round.
LEMMA FieldEqual ==
  ASSUME NEW a \in Ident, NEW b \in Ident, MaxUint \in Nat
  PROVE  comparePreField(a, b) = 0 <=> comparePreField(b, a) = 0
  BY SMT DEF comparePreField, sign, weight, numericIdent, Ident

\* One field: not after, twice, is not after, and equal only if it was equal twice.
LEMMA FieldTrans ==
  MaxUint \in Nat =>
    \A a, b, c \in Ident :
      comparePreField(a, b) <= 0 /\ comparePreField(b, c) <= 0 =>
        /\ comparePreField(a, c) <= 0
        /\ comparePreField(a, c) = 0 <=> comparePreField(a, b) = 0 /\ comparePreField(b, c) = 0
  BY SMT DEF comparePreField, sign, weight, numericIdent, Ident

---------------------------------------------------------------------------
(* The pre-release part.                                                   *)

\* The loop over the identifiers stops at the first that differs, or finds none.
LEMMA PreFirst ==
  ASSUME NEW a \in Version, NEW b \in Version, preDiffer(a, b) # {}
  PROVE  \E i \in 1..Len(a.pre) :
           /\ i \in 1..Len(b.pre)
           /\ comparePreField(a.pre[i], b.pre[i]) # 0
           /\ \A j \in 1..(i-1) : comparePreField(a.pre[j], b.pre[j]) = 0
<1>1. DOMAIN a.pre = 1..Len(a.pre) /\ DOMAIN b.pre = 1..Len(b.pre)
      /\ Len(a.pre) \in Nat /\ Len(b.pre) \in Nat
  BY DEF Version
<1>2. preDiffer(a, b) \subseteq Nat
  BY <1>1 DEF preDiffer
<1>3. PICK i \in preDiffer(a, b) : \A j \in preDiffer(a, b) : i <= j
  BY <1>2, LeastExists
<1>4. i \in 1..Len(a.pre) /\ i \in 1..Len(b.pre) /\ comparePreField(a.pre[i], b.pre[i]) # 0
  BY <1>1 DEF preDiffer
<1>5. ASSUME NEW j \in 1..(i-1) PROVE comparePreField(a.pre[j], b.pre[j]) = 0
  <2>1. j \in 1..Len(a.pre) /\ j \in 1..Len(b.pre) /\ ~(i <= j)
    BY <1>1, <1>4, SMT
  <2>2. j \notin preDiffer(a, b)
    BY <1>3, <2>1
  <2>3. QED
    BY <1>1, <2>1, <2>2 DEF preDiffer
<1>6. QED
  BY <1>4, <1>5

\* The answer when the loop stops at a given index.
LEMMA PreAt ==
  ASSUME NEW a \in Version, NEW b \in Version, NEW i \in 1..Len(a.pre), i \in 1..Len(b.pre),
         comparePreField(a.pre[i], b.pre[i]) # 0,
         \A j \in 1..(i-1) : comparePreField(a.pre[j], b.pre[j]) = 0
  PROVE  comparePre(a, b) = comparePreField(a.pre[i], b.pre[i])
<1>1. preDiffer(a, b) \subseteq Nat /\ i \in preDiffer(a, b)
  BY SMT DEF preDiffer, Version
<1>2. \A j \in preDiffer(a, b) : i <= j
  BY SMT DEF preDiffer, Version
<1>3. Least(preDiffer(a, b)) = i
  BY <1>1, <1>2, LeastIs
<1>4. Len(a.pre) # 0 /\ Len(b.pre) # 0
  BY SMT DEF Version
<1>5. QED
  BY <1>1, <1>3, <1>4 DEF comparePre

\* The pre-release parts: three answers, and the opposite one when they are exchanged.
LEMMA PreSign ==
  ASSUME NEW a \in Version, NEW b \in Version, MaxUint \in Nat
  PROVE  /\ comparePre(a, b) \in {-1, 0, 1}
         /\ comparePre(a, b) = 0 - comparePre(b, a)
<1>1. Len(a.pre) \in Nat /\ Len(b.pre) \in Nat
  BY DEF Version
<1>2. \A i \in 1..Len(a.pre) : a.pre[i] \in Ident
  BY DEF Version
<1>3. \A i \in 1..Len(b.pre) : b.pre[i] \in Ident
  BY DEF Version
<1>4. CASE preDiffer(a, b) # {}
  <2>2. PICK i \in 1..Len(a.pre) :
           /\ i \in 1..Len(b.pre)
           /\ comparePreField(a.pre[i], b.pre[i]) # 0
           /\ \A j \in 1..(i-1) : comparePreField(a.pre[j], b.pre[j]) = 0
    BY <1>4, PreFirst
  <2>3. comparePreField(b.pre[i], a.pre[i]) # 0
        /\ \A j \in 1..(i-1) : comparePreField(b.pre[j], a.pre[j]) = 0
    <3>1. comparePreField(b.pre[i], a.pre[i]) # 0
      BY <1>2, <1>3, <2>2, FieldEqual
    <3>2. ASSUME NEW j \in 1..(i-1) PROVE comparePreField(b.pre[j], a.pre[j]) = 0
      <4>1. j \in 1..Len(a.pre) /\ j \in 1..Len(b.pre)
        BY <1>1, <2>2, SMT
      <4>2. QED
        BY <1>2, <1>3, <2>2, <4>1, FieldEqual
    <3>3. QED
      BY <3>1, <3>2
  <2>4. comparePre(a, b) = comparePreField(a.pre[i], b.pre[i])
        /\ comparePre(b, a) = comparePreField(b.pre[i], a.pre[i])
    BY <2>2, <2>3, PreAt
  <2>5. QED
    BY <1>2, <1>3, <2>2, <2>4, FieldSign
<1>5. CASE preDiffer(a, b) = {}
  <2>1. preDiffer(b, a) = {}
    <3>1. SUFFICES ASSUME NEW i \in preDiffer(b, a) PROVE FALSE
      OBVIOUS
    <3>2. i \in 1..Len(a.pre) /\ i \in 1..Len(b.pre)
      BY <3>1 DEF preDiffer, Version
    <3>3. comparePreField(a.pre[i], b.pre[i]) = 0
      BY <1>5, <3>2 DEF preDiffer, Version
    <3>4. comparePreField(b.pre[i], a.pre[i]) = 0
      BY <1>2, <1>3, <3>2, <3>3, FieldEqual
    <3>5. QED
      BY <3>1, <3>4 DEF preDiffer
  <2>2. QED
    BY <1>1, <1>5, <2>1, SMT DEF comparePre, sign
<1>6. QED
  BY <1>4, <1>5
\* Lists of which no shared field differs are ordered by their lengths, unless one is
\* empty: a release outranks its pre-releases.
LEMMA PreSame ==
  ASSUME NEW a \in Version, NEW b \in Version,
         \A j \in 1..Len(a.pre) : j \in 1..Len(b.pre) => comparePreField(a.pre[j], b.pre[j]) = 0
  PROVE  /\ preDiffer(a, b) = {}
         /\ Len(a.pre) # 0 /\ Len(b.pre) # 0 => (comparePre(a, b) <= 0 <=> Len(a.pre) <= Len(b.pre))
<1>1. preDiffer(a, b) = {}
  <2>1. DOMAIN a.pre = 1..Len(a.pre) /\ DOMAIN b.pre = 1..Len(b.pre)
    BY DEF Version
  <2>2. QED
    BY <2>1, Zenon DEF preDiffer
<1>2. Len(a.pre) \in Nat /\ Len(b.pre) \in Nat
  BY DEF Version
<1>3. QED
  BY <1>1, <1>2, SMT DEF comparePre, sign

\* The pre-release parts: not after, twice, is not after.
LEMMA PreTrans ==
  ASSUME NEW a \in Version, NEW b \in Version, NEW c \in Version, MaxUint \in Nat,
         comparePre(a, b) <= 0, comparePre(b, c) <= 0
  PROVE  comparePre(a, c) <= 0
<1> DEFINE F(x, y, i) == comparePreField(x.pre[i], y.pre[i])
           In(x, i) == i \in 1..Len(x.pre)
           Stops(x, y, i) == In(x, i) /\ In(y, i) /\ F(x, y, i) # 0
                             /\ \A j \in 1..(i-1) : F(x, y, j) = 0
<1>1. Len(a.pre) \in Nat /\ Len(b.pre) \in Nat /\ Len(c.pre) \in Nat
  BY DEF Version
<1>2. ASSUME NEW i, In(a, i), In(b, i), In(c, i), F(a, b, i) <= 0, F(b, c, i) <= 0
      PROVE  F(a, c, i) <= 0 /\ (F(a, c, i) = 0 <=> F(a, b, i) = 0 /\ F(b, c, i) = 0)
  <2>1. a.pre[i] \in Ident /\ b.pre[i] \in Ident /\ c.pre[i] \in Ident
    BY <1>2, SMTT(40) DEF Version
  <2>2. /\ comparePreField(a.pre[i], b.pre[i]) <= 0
        /\ comparePreField(b.pre[i], c.pre[i]) <= 0
    BY <1>2
  <2>3. QED
    BY <2>1, <2>2, FieldTrans
<1>3. ASSUME NEW i \in Nat, In(a, i), In(b, i), In(c, i), F(a, b, i) <= 0, F(b, c, i) <= 0,
             F(a, b, i) # 0 \/ F(b, c, i) # 0,
             \A j \in 1..(i-1) : F(a, b, j) = 0 /\ F(b, c, j) = 0
      PROVE  comparePre(a, c) <= 0
  <2>1. F(a, c, i) <= 0 /\ F(a, c, i) # 0
    BY <1>2, <1>3
  <2>2. ASSUME NEW j \in 1..(i-1) PROVE F(a, c, j) = 0
    <3>1. In(a, j) /\ In(b, j) /\ In(c, j)
      BY <1>1, <1>3, SMT
    <3>2. F(a, b, j) = 0 /\ F(b, c, j) = 0
      BY <1>3
    <3>3. F(a, b, j) <= 0 /\ F(b, c, j) <= 0
      BY <3>2, SMT
    <3>4. QED
      BY <1>2, <3>1, <3>2, <3>3
  <2>3. comparePre(a, c) = F(a, c, i)
    BY <1>3, <2>1, <2>2, PreAt
  <2>4. QED
    BY <2>1, <2>3
<1>4. CASE Len(c.pre) = 0
  BY <1>1, <1>4, SMT DEF comparePre, sign
<1>5. CASE Len(c.pre) # 0
  <2>1. Len(b.pre) # 0
    BY <1>1, <1>5, SMT DEF comparePre, sign
  <2>2. Len(a.pre) # 0
    BY <1>1, <2>1, SMT DEF comparePre, sign
  <2>3. ASSUME NEW x \in Version, NEW y \in Version, preDiffer(x, y) # {}
        PROVE  \E i \in Nat : Stops(x, y, i) /\ comparePre(x, y) = F(x, y, i)
    <3>1. PICK i \in 1..Len(x.pre) : Stops(x, y, i)
      BY <2>3, PreFirst
    <3>2. i \in Nat /\ comparePre(x, y) = F(x, y, i)
      BY <3>1, PreAt
    <3>3. QED
      BY <3>1, <3>2
  <2>4. ASSUME NEW x \in Version, NEW y \in Version, preDiffer(x, y) = {},
               Len(x.pre) # 0, Len(y.pre) # 0, comparePre(x, y) <= 0
        PROVE  /\ Len(x.pre) <= Len(y.pre)
               /\ \A j : In(x, j) /\ In(y, j) => F(x, y, j) = 0
    <3>1. \A j : In(x, j) /\ In(y, j) => F(x, y, j) = 0
      <4>1. DOMAIN x.pre = 1..Len(x.pre) /\ DOMAIN y.pre = 1..Len(y.pre)
        BY DEF Version
      <4>2. QED
        BY <2>4, <4>1, Zenon DEF preDiffer
    <3>2. QED
      BY <2>4, <3>1, PreSame
  <2>5. CASE preDiffer(a, b) # {} /\ preDiffer(b, c) # {}
    <3>1. PICK i \in Nat : Stops(a, b, i) /\ comparePre(a, b) = F(a, b, i)
      BY <2>3, <2>5
    <3>2. PICK k \in Nat : Stops(b, c, k) /\ comparePre(b, c) = F(b, c, k)
      BY <2>3, <2>5
    <3>3. CASE i < k
      <4>1. In(c, i) /\ i \in 1..(k-1)
        BY <1>1, <3>1, <3>2, <3>3, SMT
      <4>2. F(b, c, i) = 0 /\ F(b, c, i) <= 0
        BY <3>2, <4>1, SMT
      <4>3. \A j \in 1..(i-1) : j \in 1..(k-1)
        BY <3>3, SMT
      <4>4. QED
        BY <1>3, <3>1, <3>2, <4>1, <4>2, <4>3
    <3>4. CASE k < i
      <4>1. In(a, k) /\ k \in 1..(i-1)
        BY <1>1, <3>1, <3>2, <3>4, SMT
      <4>2. F(a, b, k) = 0 /\ F(a, b, k) <= 0
        BY <3>1, <4>1, SMT
      <4>3. \A j \in 1..(k-1) : j \in 1..(i-1)
        BY <3>4, SMT
      <4>4. QED
        BY <1>3, <3>1, <3>2, <4>1, <4>2, <4>3
    <3>5. CASE i = k
      BY <1>3, <3>1, <3>2, <3>5
    <3>6. QED
      BY <3>3, <3>4, <3>5, SMT
  <2>6. CASE preDiffer(a, b) # {} /\ preDiffer(b, c) = {}
    <3>1. PICK i \in Nat : Stops(a, b, i) /\ comparePre(a, b) = F(a, b, i)
      BY <2>3, <2>6
    <3>2. Len(b.pre) <= Len(c.pre) /\ \A j : In(b, j) /\ In(c, j) => F(b, c, j) = 0
      BY <1>5, <2>1, <2>4, <2>6
    <3>3. In(c, i) /\ \A j \in 1..(i-1) : In(b, j) /\ In(c, j)
      BY <1>1, <3>1, <3>2, SMT
    <3>4. F(b, c, i) = 0 /\ F(b, c, i) <= 0
      BY <3>1, <3>2, <3>3, SMT
    <3>5. QED
      BY <1>3, <3>1, <3>2, <3>3, <3>4
  <2>7. CASE preDiffer(a, b) = {} /\ preDiffer(b, c) # {}
    <3>1. PICK k \in Nat : Stops(b, c, k) /\ comparePre(b, c) = F(b, c, k)
      BY <2>3, <2>7
    <3>2. Len(a.pre) <= Len(b.pre) /\ \A j : In(a, j) /\ In(b, j) => F(a, b, j) = 0
      BY <2>1, <2>2, <2>4, <2>7
    <3>3. CASE k <= Len(a.pre)
      <4>1. In(a, k) /\ \A j \in 1..(k-1) : In(a, j) /\ In(b, j)
        BY <1>1, <3>1, <3>3, SMT
      <4>2. F(a, b, k) = 0 /\ F(a, b, k) <= 0
        BY <3>1, <3>2, <4>1, SMT
      <4>3. QED
        BY <1>3, <3>1, <3>2, <4>1, <4>2
    <3>4. CASE ~(k <= Len(a.pre))
      <4>1. Len(a.pre) <= Len(c.pre)
            /\ \A j \in 1..Len(a.pre) : In(b, j) /\ In(c, j) /\ j \in 1..(k-1)
        BY <1>1, <3>1, <3>2, <3>4, SMT
      <4>2. ASSUME NEW j \in 1..Len(a.pre) PROVE F(a, c, j) = 0
        <5>1. F(a, b, j) = 0 /\ F(b, c, j) = 0
          BY <3>1, <3>2, <4>1
        <5>2. F(a, b, j) <= 0 /\ F(b, c, j) <= 0
          BY <5>1, SMT
        <5>3. QED
          BY <1>2, <4>1, <5>1, <5>2
      <4>3. QED
        BY <1>5, <2>2, <4>1, <4>2, PreSame
    <3>5. QED
      BY <3>3, <3>4
  <2>8. CASE preDiffer(a, b) = {} /\ preDiffer(b, c) = {}
    <3>1. Len(a.pre) <= Len(b.pre) /\ \A j : In(a, j) /\ In(b, j) => F(a, b, j) = 0
      BY <2>1, <2>2, <2>4, <2>8
    <3>2. Len(b.pre) <= Len(c.pre) /\ \A j : In(b, j) /\ In(c, j) => F(b, c, j) = 0
      BY <1>5, <2>1, <2>4, <2>8
    <3>3. Len(a.pre) <= Len(c.pre) /\ \A j \in 1..Len(a.pre) : In(b, j) /\ In(c, j)
      BY <1>1, <3>1, <3>2, SMT
    <3>4. ASSUME NEW j \in 1..Len(a.pre) PROVE F(a, c, j) = 0
      <4>1. F(a, b, j) = 0 /\ F(b, c, j) = 0
        BY <3>1, <3>2, <3>3
      <4>2. F(a, b, j) <= 0 /\ F(b, c, j) <= 0
        BY <4>1, SMT
      <4>3. QED
        BY <1>2, <3>3, <4>1, <4>2
    <3>5. QED
      BY <1>5, <2>2, <3>3, <3>4, PreSame
  <2>9. QED
    BY <2>5, <2>6, <2>7, <2>8
<1>6. QED
  BY <1>4, <1>5
---------------------------------------------------------------------------
(* The numbers, and the whole.                                             *)

\* The loop over the numbers stops at the first that differs.
LEMMA NumsFirst ==
  ASSUME NEW a \in Version, NEW b \in Version, numsDiffer(a, b) # {}
  PROVE  \E i \in 1..3 :
           /\ a.nums[i] # b.nums[i] /\ \A j \in 1..(i-1) : a.nums[j] = b.nums[j]
           /\ compareParsed(a, b) = sign(a.nums[i], b.nums[i])
<1>1. numsDiffer(a, b) \subseteq Nat
  BY SMT DEF numsDiffer
<1>2. PICK i : i = Least(numsDiffer(a, b))
  OBVIOUS
<1>3. i \in numsDiffer(a, b) /\ \A j \in numsDiffer(a, b) : i <= j
  BY <1>1, <1>2, LeastExists
<1>4. i \in 1..3 /\ a.nums[i] # b.nums[i]
  BY <1>3 DEF numsDiffer
<1>5. \A j \in 1..(i-1) : a.nums[j] = b.nums[j]
  BY <1>3, <1>4, SMT DEF numsDiffer
<1>6. compareParsed(a, b) = sign(a.nums[i], b.nums[i])
  BY <1>2 DEF compareParsed
<1>7. QED
  BY <1>4, <1>5, <1>6

\* The answer when the loop over the numbers stops at a given index.
LEMMA NumsAt ==
  ASSUME NEW a \in Version, NEW b \in Version, NEW i \in 1..3, a.nums[i] # b.nums[i],
         \A j \in 1..(i-1) : a.nums[j] = b.nums[j]
  PROVE  compareParsed(a, b) = sign(a.nums[i], b.nums[i])
<1>1. numsDiffer(a, b) \subseteq Nat /\ i \in numsDiffer(a, b)
  BY SMT DEF numsDiffer
<1>2. \A j \in numsDiffer(a, b) : i <= j
  BY SMT DEF numsDiffer
<1>3. Least(numsDiffer(a, b)) = i
  BY <1>1, <1>2, LeastIs
<1>4. QED
  BY <1>1, <1>3 DEF compareParsed

\* A parsed version is a version.
LEMMA ParsedType ==
  ASSUME NEW v \in Version, MaxUint \in Nat
  PROVE  parseVersion(v) \in Version
  BY SMT DEF parseVersion, Version

\* Parsed versions: three answers, and the opposite one when they are exchanged.
LEMMA ParsedSign ==
  ASSUME NEW a \in Version, NEW b \in Version, MaxUint \in Nat
  PROVE  /\ compareParsed(a, b) \in {-1, 0, 1}
         /\ compareParsed(a, b) = 0 - compareParsed(b, a)
<1>1. CASE numsDiffer(a, b) # {}
  <2>1. PICK i \in 1..3 :
           /\ a.nums[i] # b.nums[i] /\ \A j \in 1..(i-1) : a.nums[j] = b.nums[j]
           /\ compareParsed(a, b) = sign(a.nums[i], b.nums[i])
    BY <1>1, NumsFirst
  <2>2. compareParsed(b, a) = sign(b.nums[i], a.nums[i])
    BY <2>1, NumsAt
  <2>3. a.nums[i] \in Nat /\ b.nums[i] \in Nat
    BY DEF Version
  <2>4. QED
    BY <2>1, <2>2, <2>3, SMT DEF sign
<1>2. CASE numsDiffer(a, b) = {}
  <2>1. numsDiffer(b, a) = {}
    BY <1>2 DEF numsDiffer
  <2>2. QED
    BY <1>2, <2>1, PreSign DEF compareParsed
<1>3. QED
  BY <1>1, <1>2

\* Parsed versions: not after, twice, is not after.
LEMMA ParsedTrans ==
  ASSUME NEW a \in Version, NEW b \in Version, NEW c \in Version, MaxUint \in Nat,
         compareParsed(a, b) <= 0, compareParsed(b, c) <= 0
  PROVE  compareParsed(a, c) <= 0
<1>1. \A i \in 1..3 : a.nums[i] \in Nat /\ b.nums[i] \in Nat /\ c.nums[i] \in Nat
  BY DEF Version
<1>2. ASSUME NEW i \in 1..3, a.nums[i] < c.nums[i], \A j \in 1..(i-1) : a.nums[j] = c.nums[j]
      PROVE  compareParsed(a, c) <= 0
  <2>1. compareParsed(a, c) = sign(a.nums[i], c.nums[i])
    BY <1>1, <1>2, NumsAt
  <2>2. QED
    BY <1>2, <2>1, SMT DEF sign
<1>3. ASSUME NEW x \in Version, NEW y \in Version, numsDiffer(x, y) # {}, compareParsed(x, y) <= 0
      PROVE  \E i \in 1..3 : x.nums[i] < y.nums[i] /\ \A j \in 1..(i-1) : x.nums[j] = y.nums[j]
  <2>1. PICK i \in 1..3 :
           /\ x.nums[i] # y.nums[i] /\ \A j \in 1..(i-1) : x.nums[j] = y.nums[j]
           /\ compareParsed(x, y) = sign(x.nums[i], y.nums[i])
    BY <1>3, NumsFirst
  <2>2. x.nums[i] \in Nat /\ y.nums[i] \in Nat
    BY DEF Version
  <2>3. x.nums[i] < y.nums[i]
    BY <1>3, <2>1, <2>2, SMT DEF sign
  <2>4. QED
    BY <2>1, <2>3
<1>4. CASE numsDiffer(a, b) = {} /\ numsDiffer(b, c) = {}
  <2>1. numsDiffer(a, c) = {}
    BY <1>4 DEF numsDiffer
  <2>2. comparePre(a, b) <= 0 /\ comparePre(b, c) <= 0
    BY <1>4 DEF compareParsed
  <2>3. QED
    BY <2>1, <2>2, PreTrans DEF compareParsed
<1>5. CASE numsDiffer(a, b) # {} /\ numsDiffer(b, c) = {}
  <2>1. PICK i \in 1..3 : a.nums[i] < b.nums[i] /\ \A j \in 1..(i-1) : a.nums[j] = b.nums[j]
    BY <1>3, <1>5
  <2>2. \A j \in 1..3 : b.nums[j] = c.nums[j]
    BY <1>5 DEF numsDiffer
  <2>3. \A j \in 1..(i-1) : j \in 1..3
    BY SMT
  <2>4. QED
    BY <1>2, <2>1, <2>2, <2>3
<1>6. CASE numsDiffer(a, b) = {} /\ numsDiffer(b, c) # {}
  <2>1. PICK i \in 1..3 : b.nums[i] < c.nums[i] /\ \A j \in 1..(i-1) : b.nums[j] = c.nums[j]
    BY <1>3, <1>6
  <2>2. \A j \in 1..3 : a.nums[j] = b.nums[j]
    BY <1>6 DEF numsDiffer
  <2>3. \A j \in 1..(i-1) : j \in 1..3
    BY SMT
  <2>4. QED
    BY <1>2, <2>1, <2>2, <2>3
<1>7. CASE numsDiffer(a, b) # {} /\ numsDiffer(b, c) # {}
  <2>1. PICK i \in 1..3 : a.nums[i] < b.nums[i] /\ \A j \in 1..(i-1) : a.nums[j] = b.nums[j]
    BY <1>3, <1>7
  <2>2. PICK k \in 1..3 : b.nums[k] < c.nums[k] /\ \A j \in 1..(k-1) : b.nums[j] = c.nums[j]
    BY <1>3, <1>7
  <2>3. CASE i <= k
    <3>1. b.nums[i] <= c.nums[i]
      BY <1>1, <2>2, <2>3, SMT
    <3>2. a.nums[i] < c.nums[i]
      BY <1>1, <2>1, <3>1, SMT
    <3>3. \A j \in 1..(i-1) : j \in 1..(k-1)
      BY <2>3, SMT
    <3>4. QED
      BY <1>2, <2>1, <2>2, <3>2, <3>3
  <2>4. CASE k < i
    <3>1. a.nums[k] = b.nums[k]
      BY <2>1, <2>4, SMT
    <3>2. \A j \in 1..(k-1) : j \in 1..(i-1)
      BY <2>4, SMT
    <3>3. QED
      BY <1>2, <2>1, <2>2, <3>1, <3>2
  <2>5. QED
    BY <2>3, <2>4, SMT
<1>8. QED
  BY <1>4, <1>5, <1>6, <1>7

\* Compare answers for any two versions, however large their numbers, and gives the
\* opposite answer for them exchanged: whether something is an update or a downgrade
\* does not depend on which side asks.
THEOREM CompareTotal ==
  ASSUME MaxUint \in Nat, NEW a \in Version, NEW b \in Version
  PROVE  /\ Compare(a, b) \in {-1, 0, 1}
         /\ Compare(a, b) = 0 - Compare(b, a)
  BY ParsedType, ParsedSign DEF Compare

\* Compare is transitive: a walk of updates never ends below where it began, and the
\* newest of several candidates is one that none of them is newer than.
THEOREM CompareTransitive ==
  ASSUME MaxUint \in Nat, NEW a \in Version, NEW b \in Version, NEW c \in Version,
         Compare(a, b) <= 0, Compare(b, c) <= 0
  PROVE  Compare(a, c) <= 0
<1>1. parseVersion(a) \in Version /\ parseVersion(b) \in Version /\ parseVersion(c) \in Version
  BY ParsedType
<1>2. QED
  BY <1>1, ParsedTrans DEF Compare

---------------------------------------------------------------------------
(* The plan is a shortest walk.                                            *)

\* A bounded nonempty set of numbers has a greatest one.
LEMMA MaxIs ==
  ASSUME NEW S, S \subseteq Nat, S # {}, NEW n \in Nat, \A x \in S : x <= n
  PROVE  Max(S) \in S /\ \A x \in S : x <= Max(S)
<1> DEFINE gaps == {n - x : x \in S}
<1>1. gaps \subseteq Nat /\ gaps # {}
  <2>1. \A x \in S : n - x \in Nat
    OBVIOUS
  <2>2. gaps \subseteq Nat
    BY <2>1, Zenon
  <2>3. gaps # {}
    BY Zenon
  <2> QED BY <2>2, <2>3, Zenon
<1>2. PICK g \in gaps : \A h \in gaps : g <= h
  <2> HIDE DEF gaps
  <2> QED BY <1>1, LeastExists
<1>3. PICK m \in S : g = n - m
  BY <1>2
<1>4. \A x \in S : m >= x
  BY <1>2, <1>3
<1>5. \E x \in S : \A y \in S : x >= y
  BY <1>3, <1>4
<1>6. Max(S) \in S /\ \A y \in S : Max(S) >= y
  BY <1>5 DEF Max
<1> QED BY <1>6

\* The candidates of a walk to d: d is above all others, and all are above at.
Setting(cs, d, at) ==
  /\ at \in Nat \ {0} /\ d \in cs
  /\ \A c \in cs : /\ c.version \in Nat /\ c.minFrom \in Nat /\ c.version > at
                   /\ c = d \/ c.version < d.version

Below(w, i, at) == IF i = 1 THEN at ELSE w[i-1].version

\* The first n rounds of the loop of steps.
Greedy(cs, w, n, at) ==
  /\ n \in Nat \ {0} /\ w \in [1..n -> cs]
  /\ \A i \in 1..n : /\ Reachable(cs, Below(w, i, at)) # {}
                     /\ w[i] = furthestReachable(cs, Below(w, i, at))

\* furthestReachable: a candidate above the version whose floor it meets, and none is further.
LEMMA FurthestIs ==
  ASSUME NEW cs, NEW d, NEW at, Setting(cs, d, at), NEW v \in Nat, v >= at,
         Reachable(cs, v) # {}, NEW f, f = furthestReachable(cs, v)
  PROVE  /\ f \in cs /\ v < f.version /\ f.version <= d.version
         /\ f.minFrom <= v /\ f.channel = Channel /\ f.minClient <= ClientVersion
         /\ \A e \in Reachable(cs, v) : e.version <= f.version
<1> DEFINE R == Reachable(cs, v)
           versions == {e.version : e \in R}
<1>1. R \subseteq cs /\ at \in Nat /\ at # 0 /\ d.version \in Nat
  BY DEF Reachable, Setting
<1>2. \A e \in R : e.version \in Nat /\ e.version <= d.version
  BY <1>1 DEF Setting
<1>3. versions \subseteq Nat /\ versions # {} /\ \A x \in versions : x <= d.version
  BY <1>2
<1>4. Max(versions) \in versions /\ \A x \in versions : x <= Max(versions)
  <2> HIDE DEF versions
  <2> QED BY <1>1, <1>3, MaxIs
<1>5. \E c \in R : \A e \in R : e.version <= c.version
  BY <1>4
<1>6. f \in R /\ \A e \in R : e.version <= f.version
  BY <1>5 DEF furthestReachable
<1>7. v # 0
  BY <1>1
<1>8. f.minFrom <= v /\ f.channel = Channel /\ f.minClient <= ClientVersion /\ f.version > v
  <2>1. f \in cs /\ f.minFrom \in Nat /\ f.version \in Nat
    BY <1>1, <1>6 DEF Setting
  <2>2. f.version > v /\ applicable(f, v)
    BY <1>6 DEF Reachable
  <2> QED BY <1>7, <2>1, <2>2 DEF applicable, Acceptable
<1>9. f \in cs /\ f.version \in Nat /\ f.version <= d.version
  BY <1>1, <1>2, <1>6
<1> QED BY <1>6, <1>8, <1>9

\* steps: as long as d is not reached, some release of any way to it lies in the next step.
LEMMA StepToward ==
  ASSUME NEW cs, NEW d, NEW at, Setting(cs, d, at), NEW S \in SUBSET cs, LeadsTo(S, d, at),
         NEW v \in Nat, v >= at, v < d.version
  PROVE  /\ Reachable(cs, v) # {}
         /\ \E s \in S : v < s.version /\ s.version <= furthestReachable(cs, v).version
<1> DEFINE ahead == {s.version : s \in {x \in S : x.version > v}}
<1>1. \A c \in S : c \in cs /\ c.version \in Nat /\ c.minFrom \in Nat /\ c.version > at
  BY DEF Setting
<1>2. d \in S /\ at \in Nat /\ at # 0 /\ v # 0
  BY DEF LeadsTo, Setting
<1>3. ahead \subseteq Nat /\ ahead # {}
  BY <1>1, <1>2
<1>4. PICK m \in ahead : \A x \in ahead : m <= x
  <2> HIDE DEF ahead
  <2> QED BY <1>3, LeastExists
<1>5. PICK s \in S : s.version = m /\ s.version > v
  BY <1>4
<1>6. \A b \in S : b.version < s.version => b.version <= v
  <2>1. SUFFICES ASSUME NEW b \in S, b.version < s.version, b.version > v PROVE FALSE
    BY <1>1
  <2>2. b.version \in ahead
    BY <2>1
  <2>3. m <= b.version
    BY <1>4, <2>2
  <2> QED BY <1>1, <1>5, <2>1, <2>3
<1> DEFINE below == {at} \cup {b.version : b \in {x \in S : x.version < s.version}}
<1>7. Acceptable(s, at) /\ s.minFrom <= Max(below)
  BY <1>2 DEF LeadsTo
<1>8. below \subseteq Nat /\ below # {} /\ \A x \in below : x <= v
  BY <1>1, <1>2, <1>6
<1>9. Max(below) \in Nat /\ Max(below) <= v
  <2> HIDE DEF below
  <2> QED BY <1>8, MaxIs
<1>10. s.minFrom <= v
  <2> HIDE DEF below
  <2> QED BY <1>1, <1>7, <1>9
<1>11. s \in Reachable(cs, v)
  BY <1>1, <1>2, <1>5, <1>7, <1>10 DEF Reachable, applicable, Acceptable
<1>12. s.version <= furthestReachable(cs, v).version
  BY <1>11, FurthestIs
<1> QED BY <1>5, <1>11, <1>12

\* Each round goes up, and not beyond d.
LEMMA GreedyClimbs ==
  ASSUME NEW cs, NEW d, NEW at, Setting(cs, d, at), NEW n, NEW w, Greedy(cs, w, n, at)
  PROVE  /\ \A i \in 1..n : /\ w[i] \in cs /\ Below(w, i, at) \in Nat /\ Below(w, i, at) >= at
                            /\ Below(w, i, at) < w[i].version /\ w[i].version <= d.version
                            /\ w[i].minFrom <= Below(w, i, at)
                            /\ w[i].channel = Channel /\ w[i].minClient <= ClientVersion
         /\ \A i, j \in 1..n : i < j => w[i].version <= Below(w, j, at)
<1>1. n \in Nat \ {0} /\ w \in [1..n -> cs] /\ at \in Nat /\ d.version \in Nat
  BY DEF Greedy, Setting
<1>2. \A i \in 1..n : w[i] \in cs /\ w[i].version \in Nat /\ w[i].version > at
  BY <1>1 DEF Setting
<1>3. ASSUME NEW i \in 1..n
      PROVE  /\ Below(w, i, at) \in Nat /\ Below(w, i, at) >= at
             /\ Below(w, i, at) < w[i].version /\ w[i].version <= d.version
             /\ w[i].minFrom <= Below(w, i, at)
             /\ w[i].channel = Channel /\ w[i].minClient <= ClientVersion
  <2>1. Below(w, i, at) \in Nat /\ Below(w, i, at) >= at
    <3>1. CASE i = 1
      BY <1>1, <3>1 DEF Below
    <3>2. CASE i # 1
      <4>1. i - 1 \in 1..n
        BY <1>1, <3>2
      <4> QED BY <1>1, <1>2, <3>2, <4>1 DEF Below
    <3> QED BY <3>1, <3>2
  <2>2. Reachable(cs, Below(w, i, at)) # {} /\ w[i] = furthestReachable(cs, Below(w, i, at))
    BY DEF Greedy
  <2> QED BY <2>1, <2>2, FurthestIs
<1>4. \A i, j \in 1..n : i < j => w[i].version <= Below(w, j, at)
  <2>1. SUFFICES ASSUME NEW i \in 1..n, NEW j0 \in 1..n, i < j0, ~(w[i].version <= Below(w, j0, at))
                 PROVE  FALSE
    OBVIOUS
  <2> DEFINE bad == {j \in 1..n : i < j /\ ~(w[i].version <= Below(w, j, at))}
  <2>2. bad \subseteq Nat /\ bad # {}
    BY <1>1, <2>1
  <2>3. PICK j \in bad : \A k \in bad : j <= k
    <3> HIDE DEF bad
    <3> QED BY <2>2, LeastExists
  <2>4. j \in 1..n /\ i < j /\ ~(w[i].version <= Below(w, j, at)) /\ i \in Nat /\ j \in Nat /\ j # 1
    BY <2>3
  <2>5. Below(w, j, at) = w[j-1].version /\ j-1 \in 1..n
    BY <1>1, <2>4 DEF Below
  <2>6. CASE j - 1 = i
    BY <1>2, <2>4, <2>5, <2>6
  <2>7. CASE j - 1 # i
    <3>1. j-1 \notin bad
      BY <2>3, <2>4
    <3>2. w[i].version <= Below(w, j-1, at)
      BY <2>4, <2>5, <2>7, <3>1
    <3>3. Below(w, j-1, at) < w[j-1].version /\ Below(w, j-1, at) \in Nat
      BY <1>3, <2>5
    <3> QED BY <1>2, <2>4, <2>5, <3>2, <3>3
  <2> QED BY <2>6, <2>7
<1> QED BY <1>2, <1>3, <1>4

\* No way to d has fewer releases than the loop has rounds.
LEMMA GreedyBound ==
  ASSUME NEW cs, NEW d, NEW at, Setting(cs, d, at), NEW n, NEW w, Greedy(cs, w, n, at),
         NEW S \in SUBSET cs, LeadsTo(S, d, at), IsFiniteSet(S)
  PROVE  n <= Cardinality(S)
<1>1. n \in Nat \ {0} /\ d.version \in Nat
  BY DEF Greedy, Setting
<1>2. \A i \in 1..n : /\ Below(w, i, at) \in Nat /\ Below(w, i, at) >= at /\ w[i] \in cs
                      /\ Below(w, i, at) < w[i].version /\ w[i].version <= d.version
  BY GreedyClimbs
<1>3. \A c \in cs : c.version \in Nat
  BY DEF Setting
<1>4. ASSUME NEW i \in 1..n
      PROVE  \E s \in S : Below(w, i, at) < s.version /\ s.version <= w[i].version
  <2>1. Below(w, i, at) < d.version
    BY <1>1, <1>2, <1>3
  <2>2. w[i] = furthestReachable(cs, Below(w, i, at))
    BY DEF Greedy
  <2> QED BY <1>2, <2>1, <2>2, StepToward
<1> DEFINE h == [i \in 1..n |-> CHOOSE s \in S : Below(w, i, at) < s.version /\ s.version <= w[i].version]
<1>5. \A i \in 1..n : h[i] \in S /\ Below(w, i, at) < h[i].version /\ h[i].version <= w[i].version
  BY <1>4
<1>6. h \in [1..n -> S]
  BY <1>5
<1>7. ASSUME NEW i \in 1..n, NEW j \in 1..n, i < j PROVE h[i] # h[j]
  <2>1. w[i].version <= Below(w, j, at)
    BY <1>7, GreedyClimbs
  <2>2. h[i].version <= w[i].version /\ Below(w, j, at) < h[j].version /\ h[i] \in S /\ h[j] \in S
    BY <1>5
  <2>3. w[i].version \in Nat /\ Below(w, j, at) \in Nat /\ h[i].version \in Nat /\ h[j].version \in Nat
    BY <1>2, <1>3, <2>2
  <2> HIDE DEF h
  <2> QED BY <2>1, <2>2, <2>3
<1> HIDE DEF h
<1>8. \A i, j \in 1..n : h[i] = h[j] => i = j
  <2>1. SUFFICES ASSUME NEW i \in 1..n, NEW j \in 1..n, h[i] = h[j], i # j PROVE FALSE
    OBVIOUS
  <2>2. i < j \/ j < i
    BY <1>1, <2>1
  <2> QED BY <1>7, <2>1, <2>2
<1>9. h \in Injection(1..n, S)
  BY <1>6, <1>8 DEF Injection, IsInjective
<1>10. Cardinality(1..n) <= Cardinality(S)
  BY <1>9, FS_Injection
<1>11. Cardinality(1..n) = n
  BY <1>1, FS_Interval
<1> QED BY <1>10, <1>11

\* A round more, as long as d is not reached.
LEMMA GreedyExtends ==
  ASSUME NEW cs, NEW d, NEW at, Setting(cs, d, at), NEW n, NEW w, Greedy(cs, w, n, at),
         NEW S \in SUBSET cs, LeadsTo(S, d, at), w[n] # d
  PROVE  \E u : Greedy(cs, u, n + 1, at)
<1>1. n \in Nat \ {0} /\ w \in [1..n -> cs] /\ n \in 1..n /\ at \in Nat
  BY DEF Greedy, Setting
<1>2. w[n] \in cs /\ w[n].version \in Nat /\ w[n].version >= at /\ w[n].version < d.version
  BY <1>1 DEF Setting
<1>3. Reachable(cs, w[n].version) # {}
  BY <1>2, StepToward
<1> DEFINE f == furthestReachable(cs, w[n].version)
           u == [i \in 1..(n+1) |-> IF i <= n THEN w[i] ELSE f]
<1>4. f \in cs
  BY <1>2, <1>3, FurthestIs
<1>5. u \in [1..(n+1) -> cs]
  BY <1>1, <1>4
<1>6. ASSUME NEW i \in 1..(n+1)
      PROVE  Reachable(cs, Below(u, i, at)) # {} /\ u[i] = furthestReachable(cs, Below(u, i, at))
  <2>1. CASE i <= n
    <3>1. i \in 1..n /\ u[i] = w[i]
      BY <1>1, <2>1
    <3>2. Below(u, i, at) = Below(w, i, at)
      <4>1. CASE i = 1
        BY <4>1 DEF Below
      <4>2. CASE i # 1
        <5>1. i-1 \in 1..(n+1) /\ i-1 <= n
          BY <1>1, <3>1, <4>2
        <5>2. u[i-1] = w[i-1]
          BY <5>1
        <5> QED BY <4>2, <5>2 DEF Below
      <4> QED BY <4>1, <4>2
    <3> HIDE DEF u
    <3> QED BY <3>1, <3>2 DEF Greedy
  <2>2. CASE i = n + 1
    <3>1. u[i] = f /\ u[i-1] = w[n] /\ i # 1
      BY <1>1, <2>2
    <3>2. Below(u, i, at) = w[n].version
      BY <3>1 DEF Below
    <3> QED BY <1>3, <3>1, <3>2
  <2>3. i <= n \/ i = n + 1
    BY <1>1
  <2> HIDE DEF u
  <2> QED BY <2>1, <2>2, <2>3
<1>7. Greedy(cs, u, n + 1, at)
  <2> HIDE DEF u
  <2>1. n + 1 \in Nat \ {0}
    BY <1>1
  <2> QED BY <1>5, <1>6, <2>1 DEF Greedy
<1> QED BY <1>7

\* steps: where there is a way to d the loop arrives at d.
LEMMA GreedyArrives ==
  ASSUME NEW cs, NEW d, NEW at, Setting(cs, d, at),
         NEW S \in SUBSET cs, LeadsTo(S, d, at), IsFiniteSet(S)
  PROVE  \E n, w : Greedy(cs, w, n, at) /\ w[n] = d /\ n <= Cardinality(S)
<1> DEFINE K == {k \in Nat \ {0} : \E w : Greedy(cs, w, k, at)}
<1>1. at \in Nat /\ at < d.version /\ Cardinality(S) \in Nat
  BY FS_CardinalityType DEF Setting
<1>2. K \subseteq Nat /\ \A k \in K : k <= Cardinality(S)
  BY GreedyBound
<1>3. 1 \in K
  <2>1. Reachable(cs, at) # {}
    BY <1>1, StepToward
  <2> DEFINE f == furthestReachable(cs, at)
             w == [i \in 1..1 |-> f]
  <2>2. f \in cs
    BY <1>1, <2>1, FurthestIs
  <2>3. w \in [1..1 -> cs] /\ \A i \in 1..1 : i = 1 /\ w[i] = f /\ Below(w, i, at) = at
    BY <2>2 DEF Below
  <2>4. Greedy(cs, w, 1, at)
    BY <2>1, <2>3 DEF Greedy
  <2> QED BY <2>4
<1>4. Max(K) \in K /\ \A k \in K : k <= Max(K)
  <2> HIDE DEF K
  <2> QED BY <1>1, <1>2, <1>3, MaxIs
<1> DEFINE n == Max(K)
<1>5. PICK w : Greedy(cs, w, n, at)
  BY <1>4
<1>6. w[n] = d
  <2>1. SUFFICES ASSUME w[n] # d PROVE FALSE
    OBVIOUS
  <2>2. PICK u : Greedy(cs, u, n + 1, at)
    BY <1>5, <2>1, GreedyExtends
  <2>3. n + 1 \in K
    BY <2>2 DEF Greedy
  <2>4. n \in Nat
    BY <1>2, <1>4
  <2> HIDE DEF K
  <2>5. n + 1 <= n
    BY <1>4, <2>3
  <2> HIDE DEF n
  <2> QED BY <2>4, <2>5
<1>7. n <= Cardinality(S)
  BY <1>2, <1>4
<1> QED BY <1>5, <1>6, <1>7

\* What the loop went through is itself a way to d.
LEMMA GreedyIsWay ==
  ASSUME NEW cs, NEW d, NEW at, Setting(cs, d, at), NEW n, NEW w, Greedy(cs, w, n, at), w[n] = d
  PROVE  \E S \in SUBSET cs : LeadsTo(S, d, at) /\ IsFiniteSet(S) /\ Cardinality(S) <= n
<1> DEFINE S == {w[i] : i \in 1..n}
<1>1. n \in Nat \ {0} /\ w \in [1..n -> cs] /\ n \in 1..n /\ at \in Nat /\ at # 0 /\ d.version \in Nat
  BY DEF Greedy, Setting
<1>2. S \in SUBSET cs /\ d \in S
  BY <1>1
<1>3. \A c \in S : c.version \in Nat /\ c.minFrom \in Nat /\ c.version > at /\ c.version <= d.version
  BY <1>1, <1>2 DEF Setting
<1>4. w \in Surjection(1..n, S)
  BY <1>1 DEF Surjection
<1>5. IsFiniteSet(1..n) /\ Cardinality(1..n) = n
  BY <1>1, FS_Interval
<1>6. IsFiniteSet(S) /\ Cardinality(S) <= n
  <2> HIDE DEF S
  <2> QED BY <1>4, <1>5, FS_Surjection
<1>7. ASSUME NEW i \in 1..n
      PROVE  LET below == {at} \cup {b.version : b \in {x \in S : x.version < w[i].version}}
             IN  Acceptable(w[i], at) /\ w[i].minFrom <= Max(below)
  <2> DEFINE below == {at} \cup {b.version : b \in {x \in S : x.version < w[i].version}}
  <2>1. /\ w[i] \in S /\ Below(w, i, at) \in Nat /\ Below(w, i, at) < w[i].version
        /\ w[i].minFrom <= Below(w, i, at) /\ w[i].channel = Channel /\ w[i].minClient <= ClientVersion
    BY GreedyClimbs
  <2>2. Acceptable(w[i], at)
    BY <1>3, <2>1 DEF Acceptable
  <2>3. Below(w, i, at) \in below
    <3>1. CASE i = 1
      BY <3>1 DEF Below
    <3>2. CASE i # 1
      <4>1. i-1 \in 1..n
        BY <1>1, <3>2
      <4>2. w[i-1] \in S /\ w[i-1].version < w[i].version /\ Below(w, i, at) = w[i-1].version
        BY <2>1, <3>2, <4>1 DEF Below
      <4> HIDE DEF S
      <4> QED BY <4>2
    <3> QED BY <3>1, <3>2
  <2>4. below \subseteq Nat /\ below # {} /\ \A x \in below : x <= d.version
    <3>1. at <= d.version
      BY <1>1, <1>2, <1>3
    <3> HIDE DEF S
    <3> QED BY <1>1, <1>3, <3>1
  <2>5. Max(below) \in Nat /\ Below(w, i, at) <= Max(below)
    <3> HIDE DEF below
    <3> QED BY <1>1, <2>3, <2>4, MaxIs
  <2>6. w[i].minFrom \in Nat
    BY <1>3, <2>1
  <2>7. w[i].minFrom <= Max(below)
    <3> HIDE DEF below
    <3> QED BY <2>1, <2>5, <2>6
  <2> QED BY <2>2, <2>7
<1>8. LeadsTo(S, d, at)
  <2>1. \A c \in S : \E i \in 1..n : c = w[i]
    OBVIOUS
  <2> HIDE DEF S
  <2> QED BY <1>2, <1>7, <2>1 DEF LeadsTo
<1> HIDE DEF S
<1> QED BY <1>2, <1>6, <1>8

\* A candidate set as Candidates builds it, of a release that is offered over its floor.
LEMMA WalksAre ==
  ASSUME NEW d, NEW at, Setting(Candidates(d, at), d, at)
  PROVE  /\ \A w \in Walks(d, at) : \E n \in 1..maxWalk :
              Greedy(Candidates(d, at), w, n, at) /\ w[n] = d /\ Len(w) = n /\ w # <<>>
         /\ \A n \in 1..maxWalk : \A w : Greedy(Candidates(d, at), w, n, at) /\ w[n] = d => w \in Walks(d, at)
<1> DEFINE cs == Candidates(d, at)
           below(w, i) == IF i = 1 THEN at ELSE w[i-1].version
<1>1. \A w, i : below(w, i) = Below(w, i, at)
  BY DEF Below
<1>2. maxWalk \in Nat
  BY DeliveryAssumption
<1> HIDE DEF below
<1>3. Walks(d, at) = {w \in UNION {[1..n -> cs] : n \in 1..maxWalk} :
                        /\ w[Len(w)] = d
                        /\ \A i \in DOMAIN w : /\ Reachable(cs, below(w, i)) # {}
                                              /\ w[i] = furthestReachable(cs, below(w, i))}
  BY DEF Walks, below
<1> HIDE DEF cs
<1>4. ASSUME NEW n \in 1..maxWalk, NEW w \in [1..n -> cs]
      PROVE  n \in Nat \ {0} /\ DOMAIN w = 1..n /\ Len(w) = n /\ w # <<>>
  <2>1. n \in Nat \ {0} /\ DOMAIN w = 1..n
    BY <1>2
  <2>2. w \in Seq(cs)
    BY <2>1, SeqDef
  <2>3. Len(w) = n
    BY <2>1, <2>2, LenProperties
  <2>4. w # <<>>
    BY <2>1, <2>3
  <2> QED BY <2>1, <2>3, <2>4
<1>5. ASSUME NEW w \in Walks(d, at)
      PROVE  \E n \in 1..maxWalk : Greedy(cs, w, n, at) /\ w[n] = d /\ Len(w) = n /\ w # <<>>
  <2>1. PICK n \in 1..maxWalk : w \in [1..n -> cs]
    BY <1>3
  <2>2. n \in Nat \ {0} /\ DOMAIN w = 1..n /\ Len(w) = n /\ w # <<>>
    BY <1>4, <2>1
  <2>3. w[n] = d /\ \A i \in 1..n : /\ Reachable(cs, below(w, i)) # {}
                                   /\ w[i] = furthestReachable(cs, below(w, i))
    BY <1>3, <2>2
  <2>4. Greedy(cs, w, n, at)
    BY <1>1, <2>1, <2>2, <2>3 DEF Greedy
  <2> QED BY <2>2, <2>3, <2>4
<1>6. ASSUME NEW n \in 1..maxWalk, NEW w, Greedy(cs, w, n, at), w[n] = d
      PROVE  w \in Walks(d, at)
  <2>1. w \in [1..n -> cs] /\ \A i \in 1..n : /\ Reachable(cs, below(w, i)) # {}
                                             /\ w[i] = furthestReachable(cs, below(w, i))
    BY <1>1, <1>6 DEF Greedy
  <2>2. DOMAIN w = 1..n /\ Len(w) = n
    BY <1>4, <2>1
  <2>3. w \in UNION {[1..m -> cs] : m \in 1..maxWalk}
    BY <2>1
  <2> QED BY <1>3, <1>6, <2>1, <2>2, <2>3
<1> QED BY <1>5, <1>6 DEF cs

\* steps, release by release: there is a plan exactly when there is a way, and no way is shorter.
LEMMA PlanIs ==
  ASSUME NEW d, NEW at \in Nat, NEW cs, cs = Candidates(d, at), IsFiniteSet(cs),
         \A c \in cs : c.version \in Nat /\ c.minFrom \in Nat,
         NEW plan, plan = steps(d, at),
         NEW ways, ways = {S \in SUBSET cs : LeadsTo(S, d, at) /\ Cardinality(S) <= maxWalk}
  PROVE  IF ways = {} THEN plan = <<>>
         ELSE plan # <<>> /\ \A S \in ways : Len(plan) <= Cardinality(S)
<1>1. d \in cs /\ d.version \in Nat /\ d.minFrom \in Nat /\ maxWalk \in Nat \ {0}
  BY DeliveryAssumption DEF Candidates
<1>2. \A S \in SUBSET cs : IsFiniteSet(S) /\ Cardinality(S) \in Nat
  BY FS_Subset, FS_CardinalityType
<1>3. CASE ~Acceptable(d, at)
  <2>1. plan = <<>>
    BY <1>3 DEF steps, applicable
  <2>2. ways = {}
    BY <1>3 DEF LeadsTo
  <2> QED BY <2>1, <2>2
<1>4. CASE applicable(d, at)
  <2>1. plan = <<d>> /\ plan # <<>> /\ Len(plan) = 1
    BY <1>4 DEF steps
  <2>2. {d} \in ways
    <3>1. Cardinality({d}) = 1
      BY FS_Singleton
    <3>2. {at} \cup {b.version : b \in {x \in {d} : x.version < d.version}} = {at}
      BY <1>1
    <3>3. Max({at}) = at
      BY MaxIs
    <3>4. LeadsTo({d}, d, at)
      BY <1>4, <3>2, <3>3 DEF LeadsTo, applicable
    <3> QED BY <1>1, <3>1, <3>4
  <2>3. ASSUME NEW S \in ways PROVE 1 <= Cardinality(S)
    <3>1. S \in SUBSET cs /\ d \in S
      BY DEF LeadsTo
    <3>2. Cardinality(S) # 0
      BY <1>2, <3>1, FS_EmptySet
    <3> QED BY <1>2, <3>1, <3>2
  <2> QED BY <2>1, <2>2, <2>3
<1>5. CASE Acceptable(d, at) /\ ~applicable(d, at)
  <2>1. at # 0 /\ d.version > at
    BY <1>5 DEF Acceptable, applicable
  <2>2. Setting(cs, d, at)
    BY <1>1, <2>1 DEF Setting, Candidates
  <2>3. /\ \A w \in Walks(d, at) : \E n \in 1..maxWalk :
             Greedy(cs, w, n, at) /\ w[n] = d /\ Len(w) = n /\ w # <<>>
        /\ \A n \in 1..maxWalk : \A w : Greedy(cs, w, n, at) /\ w[n] = d => w \in Walks(d, at)
    BY <2>2, WalksAre
  <2>4. plan = IF Walks(d, at) = {} THEN <<>> ELSE CHOOSE w \in Walks(d, at) : TRUE
    BY <1>5 DEF steps
  <2>5. CASE Walks(d, at) = {}
    <3>1. SUFFICES ASSUME NEW S \in ways PROVE FALSE
      BY <2>4, <2>5
    <3>2. S \in SUBSET cs /\ LeadsTo(S, d, at) /\ Cardinality(S) <= maxWalk
      OBVIOUS
    <3>3. \E n, w : Greedy(cs, w, n, at) /\ w[n] = d /\ n <= Cardinality(S)
      BY <1>2, <2>2, <3>2, GreedyArrives
    <3>4. PICK n, w : Greedy(cs, w, n, at) /\ w[n] = d /\ n <= Cardinality(S)
      BY <3>3
    <3>5. n \in 1..maxWalk
      <4>1. n \in Nat \ {0}
        BY <3>4 DEF Greedy
      <4> QED BY <1>1, <1>2, <3>2, <3>4, <4>1
    <3> QED BY <2>3, <2>5, <3>4, <3>5
  <2>6. CASE Walks(d, at) # {}
    <3>1. plan \in Walks(d, at)
      BY <2>4, <2>6
    <3>2. PICK n \in 1..maxWalk : Greedy(cs, plan, n, at) /\ plan[n] = d /\ Len(plan) = n /\ plan # <<>>
      BY <2>3, <3>1
    <3>3. ways # {}
      <4>1. PICK S \in SUBSET cs : LeadsTo(S, d, at) /\ IsFiniteSet(S) /\ Cardinality(S) <= n
        BY <2>2, <3>2, GreedyIsWay
      <4>2. Cardinality(S) <= maxWalk
        BY <1>1, <1>2, <4>1
      <4> QED BY <4>1, <4>2
    <3>4. ASSUME NEW S \in ways PROVE Len(plan) <= Cardinality(S)
      BY <1>2, <2>2, <3>2, GreedyBound
    <3> QED BY <3>2, <3>3, <3>4
  <2> QED BY <2>5, <2>6
<1> QED BY <1>3, <1>4, <1>5

\* Only finitely many releases are ever signed: the ones published before, and one more with
\* each publish.
Finite == IsFiniteSet(DescriptorsIn(ever))

LEMMA InitFinite == Init => Finite
<1> SUFFICES ASSUME Init PROVE Finite
  OBVIOUS
<1> DEFINE D == {Descriptor(e) : e \in Before}
           g == [e \in Before |-> Descriptor(e)]
<1>1. g \in Surjection(Before, D)
  BY DEF Surjection
<1>2. IsFiniteSet(D)
  BY <1>1, FS_Surjection, DeliveryAssumption
<1>3. DescriptorsIn(ever) \subseteq D
  <2>1. PICK r \in Before :
          served = {<<PointerPath(e.channel), r.version>> : e \in Before}
                     \cup {<<DescriptorPath(e.version), Descriptor(e)>> : e \in Before}
                     \cup UNION {PayloadsOf(e) : e \in Before}
    BY DEF Init
  <2> SUFFICES ASSUME NEW t \in served, t[1][1] = "releases" PROVE t[2] \in D
    BY DEF Init, DescriptorsIn, Of
  <2>2. ~\E e \in Before : t = <<PointerPath(e.channel), r.version>>
    BY DEF PointerPath
  <2>3. ~\E e \in Before : t \in PayloadsOf(e)
    BY DEF PayloadsOf, PayloadPath
  <2>4. PICK e \in Before : t = <<DescriptorPath(e.version), Descriptor(e)>>
    BY <2>1, <2>2, <2>3
  <2>5. QED
    BY <2>4
<1>4. QED
  BY <1>2, <1>3, FS_Subset DEF Finite

LEMMA FiniteStep == Inv /\ Finite /\ [Next]_vars => Finite'
<1> SUFFICES ASSUME Inv, Finite, [Next]_vars PROVE Finite'
  OBVIOUS
<1>1. ASSUME ever' = ever PROVE Finite'
  BY <1>1 DEF Finite
<1>2. ASSUME UNCHANGED vars PROVE ever' = ever
  BY <1>2 DEF vars, repoVars
<1>3. ASSUME Refresh \/ Resolve \/ Plan \/ BeginStep \/ Return \/ StageFile \/ Answer \/ Fetched
      PROVE  ever' = ever
  BY <1>3 DEF Refresh, Resolve, Plan, BeginStep, Return, StageFile, Answer, Fetched, repoVars
<1>4. ASSUME NotFetched \/ InTheWay \/ Crash \/ Commit \/ Confirm \/ Revert \/ Decay \/ SetClock \/ Collected
      PROVE  ever' = ever
  BY <1>4 DEF NotFetched, InTheWay, Crash, Fail, Commit, Confirm, Revert, Decay, SetClock, Collected, repoVars
<1>5. ASSUME NEW r, NEW drop, Published(r, drop) PROVE Finite'
  <2> DEFINE D == DescriptorsIn(ever)
  <2>1. /\ ever' = ever \cup served'
        /\ DescriptorsIn(served') = (DescriptorsIn(served) \ drop) \cup {Descriptor(r)}
    BY <1>5 DEF Published, Release
  <2>2. DescriptorsIn(ever') = D \cup DescriptorsIn(served')
    BY <2>1 DEF DescriptorsIn, Of
  <2>3. DescriptorsIn(served) \subseteq D
    BY SignedMonotone DEF Inv, Signed
  <2>4. DescriptorsIn(ever') = D \cup {Descriptor(r)}
    BY <2>1, <2>2, <2>3
  <2>5. IsFiniteSet(D \cup {Descriptor(r)})
    BY FS_AddElement DEF Finite
  <2> QED BY <2>4, <2>5 DEF Finite
<1> QED BY <1>1, <1>2, <1>3, <1>4, <1>5 DEF Next, Client, World

\* steps: what CheckForUpdate plans against the head of the channel is there exactly when some
\* way of no more than maxWalk releases is, and is as short as the shortest of them, for every
\* set of releases, floors and channels ("The walk it produces is the shortest one the
\* repository supports", apply.go).
THEOREM PlansAlwaysShortest == Spec => []PlansShortest
<1>1. Inv /\ Finite => PlansShortest
  <2> SUFFICES ASSUME Inv, Finite, NEW d \in LatestRelease,
                      NEW plan, plan = steps(d, current),
                      NEW ways, ways = {S \in SUBSET Candidates(d, current) :
                                          LeadsTo(S, d, current) /\ Cardinality(S) <= maxWalk}
               PROVE  IF ways = {} THEN plan = <<>>
                      ELSE plan # <<>> /\ \A S \in ways : Len(plan) <= Cardinality(S)
    BY DEF PlansShortest
  <2> DEFINE D == DescriptorsIn(ever)
             cs == Candidates(d, current)
  <2>1. current \in Nat
    BY DEF Inv, Numbers
  <2>2. Resolvable \subseteq D
    BY SignedMonotone DEF Inv, Signed, Resolvable, DescriptorsIn, Of
  <2>3. d \in D
    BY SignedMonotone DEF Inv, Signed, LatestRelease, HeadOf, DescriptorsIn, Of
  <2>4. cs \subseteq D
    BY <2>2, <2>3 DEF Candidates
  <2>5. IsFiniteSet(cs)
    BY <2>4, FS_Subset DEF Finite
  <2>6. ASSUME NEW c \in cs PROVE c.version \in Nat /\ c.minFrom \in Nat
    BY <2>4, DescriptorType DEF Inv, Signed
  <2> HIDE DEF cs
  <2> QED BY <2>1, <2>5, <2>6, PlanIs DEF cs
<1>2. QED
  BY <1>1, Invariance, InitInv, InvStep, InitFinite, FiniteStep, PTL DEF Spec

=============================================================================
