---------------------------- MODULE PublishProofs ----------------------------
(***************************************************************************)
(* The safety properties of Publish, for any number of releases, channels, *)
(* lines and publishes, whatever is kept and however each publish ends.    *)
(*                                                                         *)
(* The proof has two halves.  The first is about sets of targets alone:    *)
(* merging a release into what is served and retiring what outgrew its     *)
(* line leads from one whole set to the next (ReleaseIsGood).  The second  *)
(* is about files: what the operations that are left will have written     *)
(* when the timestamp is switched, and that none of them touches what is   *)
(* served before or after (Operations, Backed).                            *)
(***************************************************************************)
EXTENDS Publish, FiniteSetTheorems, WellFoundedInduction, TLAPS

Descriptors == {Descriptor(r) : r \in Releases}

\* The descriptors among the targets.
Descs(S) == {t[2] : t \in Of("releases", S)}

\* The payload targets of a descriptor.
Payloads(d) ==
  {<<PayloadPath(Line[d.version], d.files[f]), d.files[f]>> : f \in DOMAIN d.files}

\* What stands at each kind of path.
Shaped(t) ==
  /\ t = <<t[1], t[2]>>
  /\ t[1][1] \in {"channels", "releases", "policies", "payloads", "patches"}
  /\ IsKind("channels", t) => t[1] = PointerPath(t[1][2])
  /\ IsKind("releases", t) => t[2] \in Descriptors /\ t[1] = DescriptorPath(t[2].version)
  /\ IsKind("policies", t) => t[1] = PolicyPath(t[1][2])
  /\ IsKind("payloads", t) => t[1] = PayloadPath(t[1][2], t[2])

\* The descriptors of a line in S that are newer than a version.
NewerIn(S, line, v) ==
  {t \in Of("releases", S) : Line[t[2].version] = line /\ t[2].version > v}

\* Every pointer has its release, and the payloads are those the descriptors name.
HeadsIn(S) ==
  \A p \in Of("channels", S) :
    \E d \in Descs(S) : d.version = p[2] /\ d.channel = p[1][2]

PayloadsExact(S) == Of("payloads", S) = UNION {Payloads(d) : d \in Descs(S)}

PoliciesOwned(S) == \A t \in Of("policies", S) : \E d \in Descs(S) : d.version = t[1][2]

\* What retention dropped is behind a full window of its line.
Outgrown(S, E) ==
  \A d \in Descs(E) \ Descs(S) :
    Keep # 0 /\ Cardinality(NewerIn(S, Line[d.version], d.version)) >= Keep

\* A set of served targets, among all that ever were.
Good(S, E) ==
  /\ S \subseteq E /\ \A t \in E : Shaped(t)
  /\ IsFiniteSet(Of("releases", S))
  /\ HeadsIn(S) /\ PayloadsExact(S) /\ PoliciesOwned(S) /\ Outgrown(S, E)

\* The step of Repository from S to T, where E was served before.
Moves(S, E, T) ==
  \E r \in Releases : \E drop \in SUBSET Descs(S) :
    LET heads == {p \in Of("channels", S) : p[1] # PointerPath(r.channel)}
                   \cup {<<PointerPath(r.channel), r.version>>}
        descs == (Descs(S) \ drop) \cup {Descriptor(r)}
    IN  /\ \A d \in drop : d.version \notin {p[2] : p \in heads}
        /\ \A d \in Descs(E) : d.version = r.version => d = Descriptor(r)
        /\ Of("channels", T) = heads
        /\ Descs(T) = descs
        /\ Of("payloads", T) = UNION {Payloads(d) : d \in descs}
        /\ \A t \in Of("policies", T) : t[1][2] \in {d.version : d \in descs}
        /\ \A t \in Of("patches", T) :
             \/ t \in S
             \/ <<t[1][3], t[1][4]>> \in Smaller /\ t[1][4] \in {r.files[f] : f \in DOMAIN r.files}

\* A timestamp's documents: versions count from 1, and a role signs for its own paths only.
Documents(ts) ==
  /\ ts.version \in Nat
  /\ ts.version # 0 =>
       /\ ServedSnapshot(ts).version \in Nat \ {0}
       /\ "targets" \in ServedRoles(ts) /\ ServedRoles(ts) \subseteq Delegated \cup {"targets"}
       /\ \A role \in ServedRoles(ts) : ServedRole(ts, role).version \in Nat \ {0}
       /\ \A role \in ServedRoles(ts) \cap Delegated :
            \A t \in ServedRole(ts, role).body : RoleOf(t[1]) = role

\* ts pins the document under this name.
Pins(ts, name, doc) ==
  /\ ts.version # 0
  /\ \/ name = "snapshot" /\ doc = ServedSnapshot(ts)
     \/ name \in ServedRoles(ts) /\ doc = ServedRole(ts, name)

MetaOps == {"role", "targets", "snapshot"}

\* The timestamp that is served once the job is done.
Switching == \E o \in job : o[1] = "timestamp"
Last == IF Switching THEN (CHOOSE o \in job : o[1] = "timestamp")[3] ELSE timestamp

\* Everything ts pins is on disk or still to be written.
Backed(ts) ==
  /\ ts.version # 0 =>
       /\ \/ FileIs("snapshot", ServedSnapshot(ts))
          \/ \E o \in job : o[1] \in MetaOps /\ o[2] = "snapshot" /\ o[3] = ServedSnapshot(ts)
       /\ \A role \in ServedRoles(ts) :
            \/ FileIs(role, ServedRole(ts, role))
            \/ \E o \in job : o[1] \in MetaOps /\ o[2] = role /\ o[3] = ServedRole(ts, role)
  /\ \A t \in ServedTargets(ts) : t \in targets \/ <<"target", t[1], t[2]>> \in job

Whole(ts) ==
  /\ ts.version # 0 =>
       /\ FileIs("snapshot", ServedSnapshot(ts))
       /\ \A role \in ServedRoles(ts) : FileIs(role, ServedRole(ts, role))
  /\ ServedTargets(ts) \subseteq targets

\* What the operations that are left may do.
Operations ==
  \A o \in job :
    /\ o[1] \in DOMAIN WriteOrder
    /\ o[1] = "timestamp" => \A q \in job : q[1] = "timestamp" => q = o
    /\ o[1] \in MetaOps =>
         /\ Switching /\ Pins(Last, o[2], o[3])
         /\ timestamp.version # 0 =>
              /\ o[2] = "snapshot" => o[3].version # ServedSnapshot(timestamp).version
              /\ o[2] \in ServedRoles(timestamp) =>
                   o[3].version # ServedRole(timestamp, o[2]).version
    /\ o[1] = "remove" => <<o[2], o[3]>> \notin ServedTargets(Last)

PubInv ==
  /\ Documents(timestamp) /\ Documents(Last)
  /\ Whole(timestamp) /\ Backed(Last)
  /\ Operations
  /\ Good(ServedTargets(timestamp), issued)
  /\ Switching => /\ Good(ServedTargets(Last), issued \cup ServedTargets(Last))
                  /\ Moves(ServedTargets(timestamp), issued, ServedTargets(Last))

---------------------------------------------------------------------------
(* Retention keeps a full window.                                          *)

\* A nonempty set of numbers has a least one.
LEMMA LeastOf ==
  ASSUME NEW S, S \subseteq Nat, S # {}
  PROVE  \E x \in S : \A y \in S : x <= y
<1>1. PICK x \in S : \A y \in S : ~(<<y, x>> \in OpToRel(<, Nat))
  BY NatLessThanWellFounded, WFMin
<1>2. \A y \in S : ~(y < x)
  <2>1. SUFFICES ASSUME NEW y \in S, y < x PROVE FALSE
    OBVIOUS
  <2>2. <<y, x>> \in Nat \X Nat /\ <<y, x>>[1] = y /\ <<y, x>>[2] = x
    BY <1>1
  <2>3. QED
    BY <1>1, <2>1, <2>2, Zenon DEF OpToRel
<1>3. QED
  BY <1>2, SMT

\* window: what has a full window of newer descriptors over it still has one when those
\* outside the window are gone.
LEMMA WindowStays ==
  ASSUME NEW D, IsFiniteSet(D), \A t \in D : t[2].version \in Nat, NEW v \in Nat,
         NEW W, W = {t \in D : Cardinality({u \in D : u[2].version > t[2].version}) >= Keep},
         Cardinality({u \in D : u[2].version > v}) >= Keep
  PROVE  Cardinality({u \in D \ W : u[2].version > v}) >= Keep
<1> DEFINE newer(t) == {u \in D : u[2].version > t[2].version}
           above == {u \in D : u[2].version > v}
<1>1. Keep \in Nat
  BY PublishAssumption
<1>2. \A t \in D : IsFiniteSet(newer(t)) /\ Cardinality(newer(t)) \in Nat
  BY FS_Subset, FS_CardinalityType
<1>3. IsFiniteSet(above \ W) /\ Cardinality(above \ W) \in Nat
  BY FS_Subset, FS_CardinalityType
<1>4. above \ W = {u \in D \ W : u[2].version > v}
  OBVIOUS
<1>5. CASE above \cap W = {}
  <2>1. above \ W = above
    BY <1>5
  <2> QED BY <1>4, <2>1
<1>6. CASE above \cap W # {}
  <2>1. PICK w0 \in W : w0 \in above
    BY <1>6
  <2> DEFINE sizes == {Cardinality(newer(t)) : t \in W}
  <2>2. sizes \subseteq Nat /\ sizes # {}
    BY <1>2, <2>1
  <2>3. PICK c \in sizes : \A y \in sizes : c <= y
    BY <2>2, LeastOf
  <2>4. PICK w \in W : c = Cardinality(newer(w))
    BY <2>3
  <2>5. w \in D /\ w0 \in D
    BY <2>1
  <2>6. newer(w) \cap W = {}
    <3>1. SUFFICES ASSUME NEW x \in newer(w), x \in W PROVE FALSE
      OBVIOUS
    <3>2. x \in D /\ x[2].version > w[2].version
      BY <3>1
    <3>3. newer(x) \subseteq newer(w)
      <4> SUFFICES ASSUME NEW u \in D, u[2].version > x[2].version PROVE u[2].version > w[2].version
        OBVIOUS
      <4> QED BY <2>5, <3>2
    <3>4. x \notin newer(x)
      BY <3>2
    <3>5. Cardinality(newer(x)) <= Cardinality(newer(w)) /\ Cardinality(newer(x)) # Cardinality(newer(w))
      BY <1>2, <2>5, <3>1, <3>3, <3>4, FS_Subset
    <3>6. c <= Cardinality(newer(x))
      BY <2>3, <3>1
    <3>7. Cardinality(newer(x)) \in Nat /\ Cardinality(newer(w)) \in Nat
      BY <1>2, <2>5, <3>2
    <3> HIDE DEF newer
    <3> QED BY <2>4, <3>5, <3>6, <3>7
  <2>7. ~(w0[2].version > w[2].version)
    BY <2>1, <2>5, <2>6
  <2>8. newer(w) \subseteq above \ W
    <3> SUFFICES ASSUME NEW u \in D, u[2].version > w[2].version PROVE u \in above
      BY <2>6
    <3>1. w0[2].version > v
      BY <2>1
    <3> QED BY <2>5, <2>7, <3>1
  <2>9. Cardinality(newer(w)) <= Cardinality(above \ W)
    BY <1>3, <2>8, FS_Subset
  <2>10. Cardinality(newer(w)) >= Keep
    BY <2>4, <2>5
  <2>11. Cardinality(newer(w)) \in Nat
    BY <1>2, <2>5
  <2>12. Cardinality(above \ W) >= Keep
    <3> HIDE DEF newer, above
    <3> QED BY <1>1, <1>3, <2>9, <2>10, <2>11
  <2> QED BY <1>4, <2>12
<1> QED BY <1>5, <1>6

---------------------------------------------------------------------------
(* One publish, as sets of targets.                                        *)

\* A patch to one of the release's files.
PatchFor(r, b) ==
  \E g : \E f \in DOMAIN r.files :
    /\ b = <<PatchPath(Line[r.version], g, r.files[f]), "patch">>
    /\ <<g, r.files[f]>> \in Smaller

\* B is built for r over S, A is S with B merged in, D is what retention takes
\* from it, and T is served next.
Publishes(S, E, r, B, A, D, T) ==
  /\ Good(S, E) /\ r \in Releases
  /\ buildRelease(r) \subseteq B
  /\ \A b \in B : b \in buildRelease(r) \/ PatchFor(r, b)
  /\ \A b \in B, t \in S : t[1] = b[1] /\ ~IsKind("channels", b) => t = b
  /\ A = {t \in S : t[1] \notin Paths(B)} \cup B
  /\ D = IF Keep = 0 THEN {} ELSE retire(A, {t \in A : RoleOf(t[1]) = Line[r.version]})
  /\ RetireAllowed(A, D, B)
  /\ T = A \ D

\* buildRelease and buildPatches: one target at each kind of path, of the release's roles.
LEMMA BuiltTargets ==
  ASSUME NEW S, NEW E, NEW r, NEW B, NEW A, NEW D, NEW T, Publishes(S, E, r, B, A, D, T)
  PROVE  /\ \A b \in B : Shaped(b)
         /\ Of("channels", B) = {<<PointerPath(r.channel), r.version>>}
         /\ Of("releases", B) = {<<DescriptorPath(r.version), Descriptor(r)>>}
         /\ Of("payloads", B) = Payloads(Descriptor(r))
         /\ \A t \in Of("policies", B) : t[1][2] = r.version
         /\ \A t \in Of("patches", B) :
              /\ <<t[1][3], t[1][4]>> \in Smaller
              /\ t[1][4] \in {r.files[f] : f \in DOMAIN r.files}
<1> DEFINE l == Line[r.version]
<1>1. r \in Releases /\ Descriptor(r) \in Descriptors /\ Descriptor(r).version = r.version
      /\ Descriptor(r).files = r.files
  BY DEF Publishes, Descriptors, Descriptor
<1>2. ASSUME NEW b \in B
      PROVE  \/ \E f \in DOMAIN r.files : b = <<PayloadPath(l, r.files[f]), r.files[f]>>
             \/ b = <<DescriptorPath(r.version), Descriptor(r)>>
             \/ b = <<PolicyPath(r.version), "policy">>
             \/ b = <<PointerPath(r.channel), r.version>>
             \/ PatchFor(r, b)
  BY <1>2 DEF Publishes, buildRelease
<1>3. /\ \A f \in DOMAIN r.files : <<PayloadPath(l, r.files[f]), r.files[f]>> \in B
      /\ <<DescriptorPath(r.version), Descriptor(r)>> \in B
      /\ <<PointerPath(r.channel), r.version>> \in B
  BY DEF Publishes, buildRelease
<1>4. ASSUME NEW b \in B
      PROVE  /\ Shaped(b)
             /\ IsKind("channels", b) <=> b = <<PointerPath(r.channel), r.version>>
             /\ IsKind("releases", b) <=> b = <<DescriptorPath(r.version), Descriptor(r)>>
             /\ IsKind("payloads", b) <=> \E f \in DOMAIN r.files : b = <<PayloadPath(l, r.files[f]), r.files[f]>>
             /\ IsKind("policies", b) => b[1][2] = r.version
             /\ IsKind("patches", b) => PatchFor(r, b)
  <2>1. CASE \E f \in DOMAIN r.files : b = <<PayloadPath(l, r.files[f]), r.files[f]>>
    BY <2>1 DEF Shaped, IsKind, PayloadPath, PointerPath, DescriptorPath, PolicyPath
  <2>2. CASE b = <<DescriptorPath(r.version), Descriptor(r)>>
    BY <1>1, <2>2 DEF Shaped, IsKind, PayloadPath, PointerPath, DescriptorPath, PolicyPath
  <2>3. CASE b = <<PolicyPath(r.version), "policy">>
    BY <2>3 DEF Shaped, IsKind, PayloadPath, PointerPath, DescriptorPath, PolicyPath
  <2>4. CASE b = <<PointerPath(r.channel), r.version>>
    BY <2>4 DEF Shaped, IsKind, PayloadPath, PointerPath, DescriptorPath, PolicyPath
  <2>5. CASE PatchFor(r, b)
    BY <2>5 DEF PatchFor, Shaped, IsKind, PayloadPath, PointerPath, DescriptorPath, PolicyPath, PatchPath
  <2> QED BY <1>2, <2>1, <2>2, <2>3, <2>4, <2>5
<1>5. Of("payloads", B) = Payloads(Descriptor(r))
  BY <1>1, <1>3, <1>4 DEF Of, Payloads
<1>6. \A t \in Of("patches", B) :
        /\ <<t[1][3], t[1][4]>> \in Smaller
        /\ t[1][4] \in {r.files[f] : f \in DOMAIN r.files}
  <2> SUFFICES ASSUME NEW t \in Of("patches", B)
               PROVE  /\ <<t[1][3], t[1][4]>> \in Smaller
                      /\ t[1][4] \in {r.files[f] : f \in DOMAIN r.files}
    OBVIOUS
  <2>1. PatchFor(r, t)
    BY <1>4 DEF Of
  <2>2. PICK g : \E f \in DOMAIN r.files : /\ t = <<PatchPath(l, g, r.files[f]), "patch">>
                                           /\ <<g, r.files[f]>> \in Smaller
    BY <2>1 DEF PatchFor
  <2>3. PICK f \in DOMAIN r.files : /\ t = <<PatchPath(l, g, r.files[f]), "patch">>
                                    /\ <<g, r.files[f]>> \in Smaller
    BY <2>2
  <2>4. t[1][3] = g /\ t[1][4] = r.files[f]
    BY <2>3 DEF PatchPath
  <2> QED BY <2>4, <2>3
<1>7. /\ Of("channels", B) = {<<PointerPath(r.channel), r.version>>}
      /\ Of("releases", B) = {<<DescriptorPath(r.version), Descriptor(r)>>}
      /\ \A t \in Of("policies", B) : t[1][2] = r.version
  BY <1>3, <1>4 DEF Of
<1> QED BY <1>4, <1>5, <1>6, <1>7

\* Merged over all roles: only the channel's pointer is replaced.
LEMMA MergedTargets ==
  ASSUME NEW S, NEW E, NEW r, NEW B, NEW A, NEW D, NEW T, Publishes(S, E, r, B, A, D, T)
  PROVE  /\ \A t \in A : Shaped(t)
         /\ Of("channels", A) = {p \in Of("channels", S) : p[1] # PointerPath(r.channel)}
                                  \cup {<<PointerPath(r.channel), r.version>>}
         /\ \A k \in {"releases", "policies", "payloads", "patches"} : Of(k, A) = Of(k, S) \cup Of(k, B)
<1>1. S \subseteq E /\ \A t \in S : Shaped(t)
  BY DEF Publishes, Good
<1>2. A = {t \in S : t[1] \notin Paths(B)} \cup B
  BY DEF Publishes
<1>3. \A t \in A : Shaped(t)
  BY <1>1, <1>2, BuiltTargets
<1>4. ASSUME NEW t \in S, t[1] \in Paths(B), ~IsKind("channels", t) PROVE t \in B
  <2>1. PICK b \in B : t[1] = b[1]
    BY <1>4 DEF Paths
  <2>2. t = b
    BY <1>4, <2>1 DEF Publishes, IsKind
  <2> QED BY <2>2
<1>5. ASSUME NEW t \in S, IsKind("channels", t)
      PROVE  t[1] \in Paths(B) <=> t[1] = PointerPath(r.channel)
  <2>1. Of("channels", B) = {<<PointerPath(r.channel), r.version>>}
    BY BuiltTargets
  <2>2. <<PointerPath(r.channel), r.version>> \in B
    BY <2>1 DEF Of
  <2>3. ASSUME NEW b \in B, t[1] = b[1] PROVE b = <<PointerPath(r.channel), r.version>>
    BY <1>5, <2>1, <2>3 DEF Of, IsKind
  <2> QED BY <2>2, <2>3 DEF Paths
<1>6. Of("channels", A) = {p \in Of("channels", S) : p[1] # PointerPath(r.channel)}
                            \cup {<<PointerPath(r.channel), r.version>>}
  BY <1>2, <1>5, BuiltTargets DEF Of
<1>7. ASSUME NEW k \in {"releases", "policies", "payloads", "patches"}
      PROVE  Of(k, A) = Of(k, S) \cup Of(k, B)
  BY <1>2, <1>4, <1>7 DEF Of, IsKind
<1> QED BY <1>3, <1>6, <1>7

\* retire: descriptors, policies, payloads and patches of the line, and nothing that is new.
LEMMA RetiredTargets ==
  ASSUME NEW S, NEW E, NEW r, NEW B, NEW A, NEW D, NEW T, Publishes(S, E, r, B, A, D, T)
  PROVE  /\ D \subseteq A /\ D \cap B = {} /\ Of("channels", D) = {}
         /\ \A t \in D : RoleOf(t[1]) = Line[r.version]
         /\ \A p \in Of("channels", A) : \A t \in Of("releases", D) : t[2].version # p[2]
         /\ \A t \in Of("releases", A) \ D : \A q \in Payloads(t[2]) : q[1] \notin Paths(D)
<1> DEFINE l == Line[r.version]
           L == {t \in A : RoleOf(t[1]) = l}
<1>1. RetireAllowed(A, D, B) /\ (D = {} \/ D = retire(A, L))
  BY DEF Publishes
<1>2. L \subseteq A /\ \A t \in L : RoleOf(t[1]) = l
  OBVIOUS
<1>3. D \subseteq L /\ Of("channels", D) = {}
  <2>1. CASE D = {}
    BY <2>1 DEF Of
  <2>2. CASE D = retire(A, L)
    <3> HIDE DEF L
    <3>1. window(L) \subseteq Of("releases", L)
      BY DEF window
    <3>2. D \subseteq Of("releases", L) \cup Of("policies", L) \cup Of("payloads", L) \cup Of("patches", L)
      BY <2>2, <3>1 DEF retire
    <3> QED BY <3>2 DEF Of, IsKind
  <2> QED BY <1>1, <2>1, <2>2
<1>4. D \cap B = {}
  BY <1>1 DEF RetireAllowed, Paths
<1>5. ASSUME NEW p \in Of("channels", A), NEW t \in Of("releases", D), t[2].version = p[2] PROVE FALSE
  <2>1. DescriptorPath(p[2]) \notin Paths(Of("releases", D))
    BY <1>1 DEF RetireAllowed, checkHeads
  <2>2. t \in A /\ IsKind("releases", t)
    BY <1>2, <1>3 DEF Of
  <2>3. t[1] = DescriptorPath(t[2].version)
    BY <2>2, MergedTargets DEF Shaped
  <2> QED BY <1>5, <2>1, <2>3 DEF Paths
<1>6. ASSUME NEW t \in Of("releases", A) \ D, NEW q \in Payloads(t[2]) PROVE q[1] \notin Paths(D)
  <2>1. t \in Of("releases", A) \ Of("releases", D)
    BY DEF Of
  <2>2. q[1] \in PayloadsOf(t[2])
    BY DEF Payloads, PayloadsOf
  <2>3. q[1] \in RefTargets(A, Of("releases", D))
    BY <2>1, <2>2 DEF RefTargets
  <2> QED BY <1>1, <2>3 DEF RetireAllowed
<1> QED BY <1>2, <1>3, <1>4, <1>5, <1>6

\* The descriptors of a publish: what was served without what is retired, and the new one.
LEMMA NextDescriptors ==
  ASSUME NEW S, NEW E, NEW r, NEW B, NEW A, NEW D, NEW T, Publishes(S, E, r, B, A, D, T)
  PROVE  /\ Of("releases", T) = (Of("releases", S) \ Of("releases", D))
                                     \cup {<<DescriptorPath(r.version), Descriptor(r)>>}
         /\ Descs(T) = (Descs(S) \ Descs(D)) \cup {Descriptor(r)}
         /\ Descs(D) \subseteq Descs(S)
         /\ Descriptor(r) \notin Descs(D)
<1> DEFINE new == <<DescriptorPath(r.version), Descriptor(r)>>
<1>1. /\ Of("releases", A) = Of("releases", S) \cup {new}
      /\ new \in B /\ new \notin D /\ D \subseteq A /\ T = A \ D
  <2>1. T = A \ D
    BY DEF Publishes
  <2> QED BY <2>1, BuiltTargets, MergedTargets, RetiredTargets DEF Of
<1>2. Of("releases", T) = (Of("releases", S) \ Of("releases", D)) \cup {new}
  BY <1>1 DEF Of
<1>3. \A t \in A : IsKind("releases", t) => t = <<DescriptorPath(t[2].version), t[2]>>
  BY MergedTargets DEF Shaped
<1>4. \A t \in Of("releases", A) : t = <<DescriptorPath(t[2].version), t[2]>>
  BY <1>3 DEF Of
<1>5. Of("releases", D) \subseteq Of("releases", S) /\ new \notin Of("releases", D)
  BY <1>1 DEF Of
<1>6. new[2] = Descriptor(r) /\ new = <<DescriptorPath(new[2].version), new[2]>>
  BY DEF Descriptor
<1>7. Descs(T) = (Descs(S) \ Descs(D)) \cup {Descriptor(r)}
  <2> HIDE DEF new
  <2>1. ASSUME NEW d \in Descs(T), d # Descriptor(r) PROVE d \in Descs(S) \ Descs(D)
    <3>1. PICK t \in Of("releases", T) : d = t[2]
      BY <2>1 DEF Descs
    <3>2. t \in Of("releases", S) /\ t \notin Of("releases", D)
      BY <1>2, <1>6, <2>1, <3>1
    <3>3. ASSUME NEW u \in Of("releases", D), d = u[2] PROVE FALSE
      <4>1. t \in Of("releases", A) /\ u \in Of("releases", A)
        BY <1>1, <1>5, <3>2, <3>3
      <4>2. t = u
        BY <1>4, <3>1, <3>3, <4>1
      <4> QED BY <3>2, <3>3, <4>2
    <3> QED BY <3>1, <3>2, <3>3 DEF Descs
  <2>2. ASSUME NEW d \in Descs(S) \ Descs(D) PROVE d \in Descs(T)
    <3>1. PICK t \in Of("releases", S) : d = t[2]
      BY <2>2 DEF Descs
    <3>2. t \notin Of("releases", D)
      BY <2>2, <3>1 DEF Descs
    <3> QED BY <1>2, <3>1, <3>2 DEF Descs
  <2>3. Descriptor(r) \in Descs(T)
    BY <1>2, <1>6 DEF Descs
  <2> QED BY <2>1, <2>2, <2>3
<1>8. Descs(D) \subseteq Descs(S)
  BY <1>5 DEF Descs
<1>9. Descriptor(r) \notin Descs(D)
  <2>1. SUFFICES ASSUME NEW u \in Of("releases", D), u[2] = Descriptor(r) PROVE FALSE
    BY DEF Descs
  <2>2. u = new
    BY <1>1, <1>4, <1>5, <2>1, <1>6
  <2> QED BY <1>5, <2>1, <2>2
<1> QED BY <1>2, <1>7, <1>8, <1>9

\* The payloads of what remains are exactly those its descriptors name.
LEMMA NextPayloads ==
  ASSUME NEW S, NEW E, NEW r, NEW B, NEW A, NEW D, NEW T, Publishes(S, E, r, B, A, D, T)
  PROVE  PayloadsExact(T)
<1> DEFINE l == Line[r.version]
           new == <<DescriptorPath(r.version), Descriptor(r)>>
<1>1. /\ Of("payloads", A) = Of("payloads", S) \cup Payloads(Descriptor(r))
      /\ Of("releases", A) = Of("releases", S) \cup {new}
      /\ new \notin D /\ T = A \ D
  <2>1. T = A \ D
    BY DEF Publishes
  <2> QED BY <2>1, BuiltTargets, MergedTargets, RetiredTargets DEF Of
<1>2. PayloadsExact(S)
  BY DEF Publishes, Good
<1>3. ASSUME NEW q \in Of("payloads", T)
      PROVE  \E d \in Descs(T) : q \in Payloads(d)
  <2>1. q \in Of("payloads", A) /\ q \notin D /\ q \in A
    BY <1>1 DEF Of
  <2>2. PICK t \in Of("releases", A) : q \in Payloads(t[2])
    <3>1. CASE q \in Payloads(Descriptor(r))
      BY <1>1, <3>1
    <3>2. CASE q \in Of("payloads", S)
      BY <1>1, <1>2, <3>2 DEF PayloadsExact, Descs
    <3> QED BY <1>1, <2>1, <3>1, <3>2
  <2>3. CASE t \notin D
    <3>1. t \in Of("releases", T)
      BY <1>1, <2>2, <2>3 DEF Of
    <3> QED BY <2>2, <3>1 DEF Descs
  <2>4. CASE t \in D
    <3> DEFINE L == {x \in A : RoleOf(x[1]) = l}
    <3>1. D = retire(A, L)
      BY <2>4 DEF Publishes
    <3>2. t \in Of("releases", A) /\ t = <<DescriptorPath(t[2].version), t[2]>>
      BY <2>2, MergedTargets DEF Of, Shaped
    <3>3. RoleOf(t[1]) = l /\ IsKind("releases", t)
      BY <2>4, <3>2, RetiredTargets DEF Of
    <3>4. Line[t[2].version] = l
      BY <3>2, <3>3 DEF RoleOf, DescriptorPath
    <3>5. RoleOf(q[1]) = l
      <4>1. PICK f \in DOMAIN t[2].files : q = <<PayloadPath(l, t[2].files[f]), t[2].files[f]>>
        BY <2>2, <3>4 DEF Payloads
      <4> QED BY <4>1 DEF RoleOf, PayloadPath
    <3>6. q \in Of("payloads", L)
      BY <2>1, <3>5 DEF Of
    <3>7. q[1] \in RefTargets(A, window(L))
      BY <2>1, <3>1, <3>6 DEF retire
    <3>8. PICK u \in Of("releases", A) \ window(L) : q[1] \in PayloadsOf(u[2])
      BY <3>7 DEF RefTargets
    <3>9. PICK f \in DOMAIN u[2].files : q[1] = PayloadPath(Line[u[2].version], u[2].files[f])
      BY <3>8 DEF PayloadsOf
    <3>10. q = <<PayloadPath(q[1][2], q[2]), q[2]>>
      BY <2>1, MergedTargets DEF Of, Shaped
    <3>11. q \in Payloads(u[2])
      BY <3>9, <3>10 DEF Payloads, PayloadPath
    <3>12. u \notin D
      <4>1. SUFFICES ASSUME u \in D PROVE FALSE
        OBVIOUS
      <4>2. IsKind("releases", u)
        BY <3>8 DEF Of
      <4>3. window(L) \subseteq Of("releases", L) /\ u \in window(L)
        BY <3>1, <4>1, <4>2 DEF retire, Of, IsKind, window
      <4> QED BY <3>8, <4>3
    <3>13. u \in Of("releases", T)
      BY <1>1, <3>8, <3>12 DEF Of
    <3> QED BY <3>11, <3>13 DEF Descs
  <2> QED BY <2>3, <2>4
<1>4. ASSUME NEW d \in Descs(T), NEW q \in Payloads(d)
      PROVE  q \in Of("payloads", T)
  <2>1. PICK t \in Of("releases", T) : d = t[2]
    BY DEF Descs
  <2>2. t \in Of("releases", A) \ D
    BY <1>1, <2>1 DEF Of
  <2>3. q[1] \notin Paths(D)
    BY <2>1, <2>2, RetiredTargets
  <2>4. q \notin D
    BY <2>3 DEF Paths
  <2>5. q \in Of("payloads", A)
    <3>1. CASE t = new
      BY <1>1, <2>1, <3>1
    <3>2. CASE t \in Of("releases", S)
      BY <1>1, <1>2, <2>1, <3>2 DEF PayloadsExact, Descs
    <3> QED BY <1>1, <2>2, <3>1, <3>2
  <2> QED BY <1>1, <2>4, <2>5 DEF Of
<1> QED BY <1>3, <1>4, Zenon DEF PayloadsExact

\* Pointers still have their release, and policies theirs.
LEMMA NextHeads ==
  ASSUME NEW S, NEW E, NEW r, NEW B, NEW A, NEW D, NEW T, Publishes(S, E, r, B, A, D, T)
  PROVE  HeadsIn(T) /\ PoliciesOwned(T)
<1> DEFINE l == Line[r.version]
           new == <<DescriptorPath(r.version), Descriptor(r)>>
<1>1. Descriptor(r).version = r.version /\ Descriptor(r).channel = r.channel /\ T = A \ D
  BY DEF Descriptor, Publishes
<1>2. /\ Descs(T) = (Descs(S) \ Descs(D)) \cup {Descriptor(r)}
      /\ Of("releases", A) = Of("releases", S) \cup {new}
      /\ HeadsIn(S) /\ PoliciesOwned(S)
  <2>1. Descs(T) = (Descs(S) \ Descs(D)) \cup {Descriptor(r)}
    BY NextDescriptors
  <2>2. Of("releases", A) = Of("releases", S) \cup Of("releases", B)
    BY MergedTargets
  <2>3. Of("releases", B) = {new}
    BY BuiltTargets
  <2>4. HeadsIn(S) /\ PoliciesOwned(S)
    BY DEF Publishes, Good
  <2> QED BY <2>1, <2>2, <2>3, <2>4
<1>3. ASSUME NEW p \in Of("channels", T)
      PROVE  \E d \in Descs(T) : d.version = p[2] /\ d.channel = p[1][2]
  <2>1. p \in Of("channels", A)
    BY <1>1 DEF Of
  <2>2. CASE p = <<PointerPath(r.channel), r.version>>
    BY <1>1, <1>2, <2>2 DEF PointerPath
  <2>3. CASE p \in Of("channels", S)
    <3>1. PICK d \in Descs(S) : d.version = p[2] /\ d.channel = p[1][2]
      BY <1>2, <2>3 DEF HeadsIn
    <3>2. d \notin Descs(D)
      BY <2>1, <3>1, RetiredTargets DEF Descs
    <3> QED BY <1>2, <3>1, <3>2
  <2>4. Of("channels", A) = {x \in Of("channels", S) : x[1] # PointerPath(r.channel)}
                              \cup {<<PointerPath(r.channel), r.version>>}
    BY MergedTargets
  <2> QED BY <2>1, <2>2, <2>3, <2>4
<1>4. ASSUME NEW t \in Of("policies", T)
      PROVE  \E d \in Descs(T) : d.version = t[1][2]
  <2>1. t \in Of("policies", A) /\ t \notin D /\ t \in A
    BY <1>1 DEF Of
  <2>2. t[1] = PolicyPath(t[1][2])
    BY <2>1, MergedTargets DEF Of, Shaped
  <2>3. PICK d \in Descs(S) \cup {Descriptor(r)} : d.version = t[1][2]
    <3>1. CASE t \in Of("policies", S)
      BY <1>2, <3>1 DEF PoliciesOwned
    <3>2. CASE t \in Of("policies", B)
      BY <1>1, <3>2, BuiltTargets
    <3> QED BY <2>1, <3>1, <3>2, MergedTargets
  <2>4. CASE d \notin Descs(D)
    BY <1>2, <2>3, <2>4
  <2>5. CASE d \in Descs(D)
    <3> DEFINE L == {x \in A : RoleOf(x[1]) = l}
    <3>1. PICK u \in Of("releases", D) : d = u[2]
      BY <2>5 DEF Descs
    <3>2. D = retire(A, L)
      BY <3>1 DEF Publishes, Of
    <3>3. u \in Of("releases", A) /\ u[1] = DescriptorPath(d.version) /\ RoleOf(u[1]) = l /\ u \in D
      BY <3>1, RetiredTargets, MergedTargets DEF Of, Shaped
    <3>4. Line[d.version] = l
      BY <3>3 DEF RoleOf, DescriptorPath
    <3>5. RoleOf(t[1]) = l
      BY <2>2, <2>3, <3>4 DEF RoleOf, PolicyPath
    <3>6. t \in Of("policies", L)
      BY <2>1, <3>5 DEF Of
    <3>7. DescriptorPath(t[1][2]) \notin Paths(window(L))
      BY <2>1, <3>2, <3>6 DEF retire
    <3>8. u \in window(L)
      BY <3>1, <3>2, <3>3 DEF retire, Of, IsKind
    <3> QED BY <2>3, <3>3, <3>7, <3>8 DEF Paths
  <2> QED BY <2>4, <2>5
<1> QED BY <1>3, <1>4 DEF HeadsIn, PoliciesOwned

\* The descriptor at a path of a shaped target, and the role that signs for it.
LEMMA DescriptorTarget ==
  ASSUME NEW t, Shaped(t), IsKind("releases", t)
  PROVE  /\ t = <<DescriptorPath(t[2].version), t[2]>>
         /\ t[2] \in Descriptors /\ t[2].version \in Nat
         /\ RoleOf(t[1]) = Line[t[2].version]
<1>1. t = <<DescriptorPath(t[2].version), t[2]>> /\ t[2] \in Descriptors
  BY DEF Shaped
<1>2. PICK r \in Releases : t[2] = Descriptor(r)
  BY <1>1 DEF Descriptors
<1>3. t[2].version \in Nat
  BY <1>2, PublishAssumption DEF Descriptor
<1>4. RoleOf(DescriptorPath(t[2].version)) = Line[t[2].version]
  BY DEF RoleOf, DescriptorPath
<1>5. t[1] = DescriptorPath(t[2].version)
  BY DEF Shaped
<1> QED BY <1>1, <1>3, <1>4, <1>5

\* retire: what left a line is behind a full window of what stays, now as before.
LEMMA NextOutgrown ==
  ASSUME NEW S, NEW E, NEW r, NEW B, NEW A, NEW D, NEW T, Publishes(S, E, r, B, A, D, T)
  PROVE  IsFiniteSet(Of("releases", T)) /\ Outgrown(T, E \cup T)
<1> DEFINE l == Line[r.version]
           L == {t \in A : RoleOf(t[1]) = l}
           new == <<DescriptorPath(r.version), Descriptor(r)>>
           DL == Of("releases", L)
<1>1. IsFiniteSet(Of("releases", S)) /\ Outgrown(S, E) /\ S \subseteq E /\ \A t \in E : Shaped(t)
  BY DEF Publishes, Good
<1>2. T = A \ D /\ D = IF Keep = 0 THEN {} ELSE retire(A, L)
  BY DEF Publishes
<1>3. Of("releases", A) = Of("releases", S) \cup {new}
  <2>1. Of("releases", A) = Of("releases", S) \cup Of("releases", B)
    BY MergedTargets
  <2>2. Of("releases", B) = {new}
    BY BuiltTargets
  <2> QED BY <2>1, <2>2
<1>4. \A t \in A : Shaped(t)
  BY MergedTargets
<1>5. IsFiniteSet(Of("releases", A))
  <2> HIDE DEF new
  <2> QED BY <1>1, <1>3, FS_AddElement
<1>6. Of("releases", T) \subseteq Of("releases", A) /\ DL \subseteq Of("releases", A)
  BY <1>2 DEF Of
<1>7. IsFiniteSet(Of("releases", T)) /\ IsFiniteSet(DL)
  BY <1>5, <1>6, FS_Subset
<1>8. Descs(T) = (Descs(S) \ Descs(D)) \cup {Descriptor(r)}
  BY NextDescriptors
<1>9. ASSUME NEW d \in Descs(E \cup T), d \notin Descs(T)
      PROVE  Keep # 0 /\ Cardinality(NewerIn(T, Line[d.version], d.version)) >= Keep
  <2>1. d \in Descs(E)
    BY <1>9 DEF Descs, Of
  <2>2. PICK t \in E : d = t[2] /\ IsKind("releases", t)
    BY <2>1 DEF Descs, Of
  <2>3. d.version \in Nat
    BY <1>1, <2>2, DescriptorTarget
  <2>4. Keep # 0 /\ Keep \in Nat
    <3>1. CASE d \in Descs(S)
      <4>1. d \in Descs(D)
        BY <1>8, <1>9, <3>1
      <4>2. D # {}
        BY <4>1 DEF Descs, Of
      <4> QED BY <1>2, <4>2, PublishAssumption
    <3>2. CASE d \notin Descs(S)
      BY <1>1, <2>1, <3>2, PublishAssumption DEF Outgrown
    <3> QED BY <3>1, <3>2
  <2>5. IsFiniteSet(NewerIn(T, Line[d.version], d.version))
    <3>1. NewerIn(T, Line[d.version], d.version) \subseteq Of("releases", T)
      BY DEF NewerIn
    <3> QED BY <1>7, <3>1, FS_Subset
  <2>6. CASE Line[d.version] # l
    <3>1. d \notin Descs(D)
      <4>1. SUFFICES ASSUME NEW u \in Of("releases", D), d = u[2] PROVE FALSE
        BY DEF Descs
      <4>2. D \subseteq A /\ RoleOf(u[1]) = l
        BY RetiredTargets DEF Of
      <4>3. RoleOf(u[1]) = Line[d.version]
        BY <1>4, <4>1, <4>2, DescriptorTarget DEF Of
      <4> QED BY <2>6, <4>2, <4>3
    <3>2. d \notin Descs(S)
      BY <1>8, <1>9, <3>1
    <3>3. Cardinality(NewerIn(S, Line[d.version], d.version)) >= Keep
      BY <1>1, <2>1, <3>2 DEF Outgrown
    <3>4. NewerIn(S, Line[d.version], d.version) \subseteq NewerIn(T, Line[d.version], d.version)
      <4>1. SUFFICES ASSUME NEW u \in Of("releases", S), Line[u[2].version] = Line[d.version]
                     PROVE  u \in Of("releases", T)
        BY DEF NewerIn
      <4>2. u \in Of("releases", A)
        BY <1>3
      <4>3. RoleOf(u[1]) = Line[u[2].version]
        BY <1>4, <4>2, DescriptorTarget DEF Of
      <4>4. u \notin D
        BY <2>6, <4>1, <4>3, RetiredTargets
      <4> QED BY <1>2, <4>2, <4>4 DEF Of
    <3>5. Cardinality(NewerIn(S, Line[d.version], d.version)) <= Cardinality(NewerIn(T, Line[d.version], d.version))
      BY <2>5, <3>4, FS_Subset
    <3>6. Cardinality(NewerIn(T, Line[d.version], d.version)) \in Nat
          /\ Cardinality(NewerIn(S, Line[d.version], d.version)) \in Nat
      BY <2>5, <3>4, FS_Subset, FS_CardinalityType
    <3> QED BY <2>4, <3>3, <3>5, <3>6
  <2>7. CASE Line[d.version] = l
    <3> DEFINE W == window(L)
               above == {u \in DL : u[2].version > d.version}
    <3>1. IsFiniteSet(above)
      BY <1>7, FS_Subset
    <3>2. Cardinality(above) >= Keep
      <4>1. CASE d \in Descs(D)
        <5>1. PICK u \in Of("releases", D) : d = u[2]
          BY <4>1 DEF Descs
        <5>2. u \in W
          BY <1>2, <2>4, <5>1 DEF retire, Of, IsKind
        <5> QED BY <5>1, <5>2 DEF window
      <4>2. CASE d \notin Descs(D)
        <5>1. d \notin Descs(S)
          BY <1>8, <1>9, <4>2
        <5>2. Cardinality(NewerIn(S, l, d.version)) >= Keep
          BY <1>1, <2>1, <2>7, <5>1 DEF Outgrown
        <5>3. NewerIn(S, l, d.version) \subseteq above
          <6>1. SUFFICES ASSUME NEW u \in Of("releases", S), Line[u[2].version] = l PROVE u \in DL
            BY DEF NewerIn
          <6>2. u \in Of("releases", A)
            BY <1>3
          <6>3. RoleOf(u[1]) = Line[u[2].version]
            BY <1>4, <6>2, DescriptorTarget DEF Of
          <6> QED BY <6>1, <6>2, <6>3 DEF Of
        <5>4. Cardinality(NewerIn(S, l, d.version)) <= Cardinality(above)
          BY <3>1, <5>3, FS_Subset
        <5>5. Cardinality(NewerIn(S, l, d.version)) \in Nat /\ Cardinality(above) \in Nat
          BY <3>1, <5>3, FS_Subset, FS_CardinalityType
        <5> HIDE DEF above
        <5> QED BY <2>4, <5>2, <5>4, <5>5
      <4> QED BY <4>1, <4>2
    <3>3. W = {x \in DL : Cardinality({u \in DL : u[2].version > x[2].version}) >= Keep}
      BY DEF window
    <3>4. \A x \in DL : x[2].version \in Nat
      BY <1>4, <1>6, DescriptorTarget DEF Of
    <3>5. Cardinality({u \in DL \ W : u[2].version > d.version}) >= Keep
      <4> HIDE DEF DL, W
      <4> QED BY <1>7, <2>3, <3>2, <3>3, <3>4, WindowStays
    <3>6. {u \in DL \ W : u[2].version > d.version} = NewerIn(T, l, d.version)
      <4>1. ASSUME NEW u \in DL \ W PROVE u \in Of("releases", T) /\ Line[u[2].version] = l
        <5>1. u \in A /\ IsKind("releases", u) /\ RoleOf(u[1]) = l
          BY DEF Of
        <5>2. Line[u[2].version] = l
          BY <1>4, <5>1, DescriptorTarget
        <5>3. u \notin D
          BY <1>2, <2>4, <5>1 DEF retire, Of, IsKind
        <5> QED BY <1>2, <5>1, <5>2, <5>3 DEF Of
      <4>2. ASSUME NEW u \in Of("releases", T), Line[u[2].version] = l PROVE u \in DL \ W
        <5>1. u \in A /\ u \notin D /\ IsKind("releases", u)
          BY <1>2 DEF Of
        <5>2. u \in DL
          BY <1>4, <4>2, <5>1, DescriptorTarget DEF Of
        <5>3. u \notin W
          BY <1>2, <2>4, <5>1 DEF retire
        <5> QED BY <5>2, <5>3
      <4> HIDE DEF DL, W
      <4> QED BY <4>1, <4>2 DEF NewerIn
    <3> QED BY <2>4, <2>7, <3>5, <3>6
  <2> QED BY <2>6, <2>7
<1> QED BY <1>7, <1>9 DEF Outgrown

\* A version that was ever served still has the descriptor it had: one that is served
\* cannot change, and one that retention dropped would fall outside the window again.
LEMMA OneDescriptor ==
  ASSUME NEW S, NEW E, NEW r, NEW B, NEW A, NEW D, NEW T, Publishes(S, E, r, B, A, D, T),
         NEW d \in Descs(E), d.version = r.version
  PROVE  d = Descriptor(r)
<1> DEFINE l == Line[r.version]
           L == {t \in A : RoleOf(t[1]) = l}
           new == <<DescriptorPath(r.version), Descriptor(r)>>
<1>1. Outgrown(S, E) /\ S \subseteq E /\ \A t \in E : Shaped(t)
  BY DEF Publishes, Good
<1>2. D = IF Keep = 0 THEN {} ELSE retire(A, L)
  BY DEF Publishes
<1>3. new \in B
  BY DEF Publishes, buildRelease
<1>4. new[1] = DescriptorPath(r.version) /\ new[2] = Descriptor(r) /\ IsKind("releases", new)
      /\ Descriptor(r).version = r.version
  BY DEF IsKind, DescriptorPath, Descriptor
<1>5. CASE d \in Descs(S)
  <2>1. PICK t \in S : d = t[2] /\ IsKind("releases", t)
    BY <1>5 DEF Descs, Of
  <2>2. t[1] = new[1]
    BY <1>1, <1>4, <2>1 DEF Shaped
  <2>3. ~IsKind("channels", new)
    BY <1>4 DEF IsKind
  <2>4. t = new
    <3> HIDE DEF new
    <3> QED BY <1>3, <2>1, <2>2, <2>3 DEF Publishes
  <2> QED BY <1>4, <2>1, <2>4
<1>6. CASE d \notin Descs(S)
  <2> DEFINE above == {u \in Of("releases", L) : u[2].version > r.version}
  <2>1. Keep # 0 /\ Keep \in Nat /\ Cardinality(NewerIn(S, l, r.version)) >= Keep
    BY <1>1, <1>6, PublishAssumption DEF Outgrown
  <2>2. Of("releases", A) = Of("releases", S) \cup {new}
    <3>1. Of("releases", A) = Of("releases", S) \cup Of("releases", B)
      BY MergedTargets
    <3>2. Of("releases", B) = {new}
      BY BuiltTargets
    <3> QED BY <3>1, <3>2
  <2>3. \A t \in A : Shaped(t)
    BY MergedTargets
  <2>4. \A u \in Of("releases", A) : RoleOf(u[1]) = Line[u[2].version]
    BY <2>3, DescriptorTarget DEF Of
  <2>5. new \in Of("releases", A)
    BY <2>2
  <2>6. new \in Of("releases", L)
    <3> HIDE DEF new
    <3> QED BY <1>4, <2>4, <2>5 DEF Of
  <2>7. NewerIn(S, l, r.version) \subseteq above
    <3>1. SUFFICES ASSUME NEW u \in Of("releases", S), Line[u[2].version] = l
                   PROVE  u \in Of("releases", L)
      BY DEF NewerIn
    <3>2. u \in Of("releases", A)
      BY <2>2
    <3>3. RoleOf(u[1]) = l
      BY <2>4, <3>1, <3>2
    <3> QED BY <3>2, <3>3 DEF Of
  <2>8. IsFiniteSet(above)
    <3>1. IsFiniteSet(Of("releases", S))
      BY DEF Publishes, Good
    <3>2. IsFiniteSet(Of("releases", A))
      <4> HIDE DEF new
      <4> QED BY <2>2, <3>1, FS_AddElement
    <3>3. above \subseteq Of("releases", A)
      BY DEF Of
    <3> QED BY <3>2, <3>3, FS_Subset
  <2>9. Cardinality(NewerIn(S, l, r.version)) <= Cardinality(above)
    BY <2>7, <2>8, FS_Subset
  <2>10. Cardinality(NewerIn(S, l, r.version)) \in Nat /\ Cardinality(above) \in Nat
    BY <2>7, <2>8, FS_Subset, FS_CardinalityType
  <2>11. Cardinality(above) >= Keep
    <3> HIDE DEF above
    <3> QED BY <2>1, <2>9, <2>10
  <2>12. new \in window(L)
    BY <1>4, <2>6, <2>11 DEF window
  <2>13. new \in D
    BY <1>2, <2>1, <2>12 DEF retire
  <2> QED BY <1>3, <2>13, RetiredTargets
<1> QED BY <1>5, <1>6

\* Publish, as sets: it leads from one whole set of targets to the next, by the step the
\* repository promises its clients.
LEMMA ReleaseIsGood ==
  ASSUME NEW S, NEW E, NEW r, NEW B, NEW A, NEW D, NEW T, Publishes(S, E, r, B, A, D, T)
  PROVE  Good(T, E \cup T) /\ Moves(S, E, T)
<1>1. T = A \ D /\ r \in Releases /\ \A t \in E : Shaped(t)
  BY DEF Publishes, Good
<1>2. \A t \in A : Shaped(t)
  BY MergedTargets
<1>3. \A t \in E \cup T : Shaped(t)
  BY <1>1, <1>2
<1>4. Good(T, E \cup T)
  BY <1>3, NextOutgrown, NextHeads, NextPayloads DEF Good
<1>5. Of("channels", D) = {} /\ \A p \in Of("channels", A) : \A t \in Of("releases", D) : t[2].version # p[2]
  BY RetiredTargets
<1> DEFINE heads == {p \in Of("channels", S) : p[1] # PointerPath(r.channel)}
                      \cup {<<PointerPath(r.channel), r.version>>}
           drop == Descs(D)
           descs == (Descs(S) \ drop) \cup {Descriptor(r)}
<1>6. Of("channels", A) = heads
  BY MergedTargets
<1>7. Of("channels", T) = heads
  BY <1>1, <1>5, <1>6 DEF Of
<1>8. Descs(T) = descs /\ drop \in SUBSET Descs(S)
  BY NextDescriptors
<1>9. \A d \in drop : d.version \notin {p[2] : p \in heads}
  <2> HIDE DEF heads
  <2> QED BY <1>5, <1>6 DEF Descs
<1>10. Of("payloads", T) = UNION {Payloads(d) : d \in descs}
  BY <1>8, NextPayloads DEF PayloadsExact
<1>11. \A t \in Of("policies", T) : t[1][2] \in {d.version : d \in descs}
  BY <1>8, NextHeads DEF PoliciesOwned
<1>12. ASSUME NEW t \in Of("patches", T)
       PROVE  \/ t \in S
              \/ <<t[1][3], t[1][4]>> \in Smaller /\ t[1][4] \in {r.files[f] : f \in DOMAIN r.files}
  <2>1. t \in Of("patches", A)
    BY <1>1 DEF Of
  <2>2. t \in Of("patches", S) \/ t \in Of("patches", B)
    BY <2>1, MergedTargets
  <2>3. CASE t \in Of("patches", B)
    BY <2>3, BuiltTargets
  <2> QED BY <2>2, <2>3 DEF Of
<1>13. \A d \in Descs(E) : d.version = r.version => d = Descriptor(r)
  BY OneDescriptor
<1>14. Moves(S, E, T)
  <2> HIDE DEF heads, descs, drop
  <2>1. /\ \A d \in drop : d.version \notin {p[2] : p \in heads}
        /\ \A d \in Descs(E) : d.version = r.version => d = Descriptor(r)
        /\ Of("channels", T) = heads
        /\ Descs(T) = descs
        /\ Of("payloads", T) = UNION {Payloads(d) : d \in descs}
        /\ \A t \in Of("policies", T) : t[1][2] \in {d.version : d \in descs}
        /\ \A t \in Of("patches", T) :
             \/ t \in S
             \/ <<t[1][3], t[1][4]>> \in Smaller /\ t[1][4] \in {r.files[f] : f \in DOMAIN r.files}
    BY <1>7, <1>8, <1>9, <1>10, <1>11, <1>12, <1>13
  <2>2. drop \in SUBSET Descs(S)
    BY <1>8
  <2> QED BY <1>1, <2>1, <2>2 DEF Moves, heads, descs
<1> QED BY <1>4, <1>14

---------------------------------------------------------------------------
(* One publish, as documents.                                              *)

\* The parts of a publish, by name.
Blobs(r) == buildRelease(r) \cup buildPatches(r)
Touched(r) == {r.channel, Line[r.version]}
AllTargets(r) ==
  UNION {IF role \in Touched(r) THEN Merged(role, Blobs(r)) ELSE LoadedTargets(role) :
           role \in Delegated}
Dropped(r) == IF Keep = 0 THEN {} ELSE retire(AllTargets(r), Merged(Line[r.version], Blobs(r)))
Bodies(r) == [role \in Touched(r) |-> Merged(role, Blobs(r)) \ Dropped(r)]
RolesFor(r, t, key) == NextRoles(resolveKeys(Touched(r), key), Bodies(r), t)
OldSnap == IF timestamp.version = 0 THEN NoDoc ELSE ServedSnapshot(timestamp)
SnapFor(r, t, key) == finalize(OldSnap, RolesFor(r, t, key), t, "root")
StampFor(r, t, key) == finalize(timestamp, SnapFor(r, t, key), t, "root")

\* Publish, in these terms.
LEMMA PublishIs ==
  ASSUME NEW r, NEW t, NEW key, Publish(r, t, key)
  PROVE  /\ job = {} /\ validate(r) /\ Loadable(timestamp)
         /\ MergeAllowed(Blobs(r)) /\ RetireAllowed(AllTargets(r), Dropped(r), Blobs(r))
         /\ job' = WriteTargets(Blobs(r)) \cup WriteRoles(RolesFor(r, t, key))
                     \cup WriteSnapshot(SnapFor(r, t, key))
                     \cup WriteTimestamp(StampFor(r, t, key)) \cup removeRetired(Dropped(r))
         /\ UNCHANGED <<targets, meta, timestamp, issued>>
<1> DEFINE merged == [role \in Touched(r) |-> Merged(role, Blobs(r))]
           all == UNION {IF role \in Touched(r) THEN merged[role] ELSE LoadedTargets(role) :
                           role \in Delegated}
           dropped == IF Keep = 0 THEN {} ELSE retire(all, merged[Line[r.version]])
           body == [role \in Touched(r) |-> merged[role] \ dropped]
<1>1. all = AllTargets(r)
  BY DEF AllTargets
<1>2. merged[Line[r.version]] = Merged(Line[r.version], Blobs(r))
  BY DEF Touched
<1>3. dropped = Dropped(r)
  <2> HIDE DEF all, merged
  <2> QED BY <1>1, <1>2 DEF Dropped
<1>4. body = Bodies(r)
  <2>1. \A role \in Touched(r) : merged[role] = Merged(role, Blobs(r))
    OBVIOUS
  <2> HIDE DEF merged, dropped
  <2> QED BY <1>3, <2>1 DEF Bodies
<1>5. /\ job = {} /\ validate(r) /\ Loadable(timestamp)
      /\ MergeAllowed(Blobs(r)) /\ RetireAllowed(all, dropped, Blobs(r))
      /\ LET next == NextRoles(resolveKeys(Touched(r), key), body, t)
             snap == finalize(OldSnap, next, t, "root")
             ts == finalize(timestamp, snap, t, "root")
         IN  job' = WriteTargets(Blobs(r)) \cup WriteRoles(next) \cup WriteSnapshot(snap)
                      \cup WriteTimestamp(ts) \cup removeRetired(dropped)
      /\ UNCHANGED <<targets, meta, timestamp, issued>>
  BY Zenon DEF Publish, Blobs, Touched, OldSnap
<1> HIDE DEF all, dropped, body, merged
<1> QED BY <1>1, <1>3, <1>4, <1>5 DEF RolesFor, SnapFor, StampFor

\* finalize: the document has the body asked for; it is the old one or the next version.
LEMMA FinalizeIs ==
  ASSUME NEW old, NEW body, NEW exp, NEW key, old.version \in Nat,
         NEW doc, doc = finalize(old, body, exp, key)
  PROVE  /\ doc.body = body /\ doc.version \in Nat \ {0}
         /\ doc = old \/ (doc.version # old.version /\ doc.key = key)
BY DEF finalize

\* What is loaded of a role, and what is served.
LEMMA LoadedIs ==
  ASSUME Documents(timestamp)
  PROVE  /\ \A role : Loaded(role).version \in Nat
         /\ \A role : Loaded(role).version # 0 <=> role \in ServedRoles(timestamp)
         /\ \A role \in Delegated :
              LoadedTargets(role) = {t \in ServedTargets(timestamp) : RoleOf(t[1]) = role}
         /\ \A t \in ServedTargets(timestamp) : RoleOf(t[1]) \in Delegated
<1>1. \A role : Loaded(role).version \in Nat /\ (Loaded(role).version # 0 <=> role \in ServedRoles(timestamp))
  BY DEF Documents, Loaded, NoDoc, ServedRoles
<1>2. ASSUME NEW role \in ServedRoles(timestamp) \cap Delegated, NEW t \in ServedRole(timestamp, role).body
      PROVE  RoleOf(t[1]) = role
  BY DEF Documents, ServedRoles
<1>3. ASSUME NEW role \in Delegated
      PROVE  LoadedTargets(role) = {t \in ServedTargets(timestamp) : RoleOf(t[1]) = role}
  <2>1. CASE role \in ServedRoles(timestamp)
    <3>1. LoadedTargets(role) = ServedRole(timestamp, role).body
      BY <1>1, <2>1 DEF LoadedTargets, Loaded
    <3>2. \A t \in ServedRole(timestamp, role).body : t \in ServedTargets(timestamp)
      BY <2>1 DEF ServedTargets
    <3>3. \A t \in ServedTargets(timestamp) : RoleOf(t[1]) = role => t \in ServedRole(timestamp, role).body
      BY <1>2 DEF ServedTargets
    <3> QED BY <1>2, <2>1, <3>1, <3>2, <3>3
  <2>2. CASE role \notin ServedRoles(timestamp)
    <3>1. LoadedTargets(role) = {}
      BY <1>1, <2>2 DEF LoadedTargets
    <3>2. \A t \in ServedTargets(timestamp) : RoleOf(t[1]) # role
      BY <1>2, <2>2 DEF ServedTargets
    <3> QED BY <3>1, <3>2
  <2> QED BY <2>1, <2>2
<1>4. \A t \in ServedTargets(timestamp) : RoleOf(t[1]) \in Delegated
  BY <1>2 DEF ServedTargets
<1> QED BY <1>1, <1>3, <1>4

\* What is built belongs to the two roles a publish touches.
LEMMA BlobsAre ==
  ASSUME NEW r \in Releases
  PROVE  /\ buildRelease(r) \subseteq Blobs(r) /\ Touched(r) \subseteq Delegated
         /\ \A b \in Blobs(r) : b \in buildRelease(r) \/ PatchFor(r, b)
         /\ \A b \in Blobs(r) : b = <<b[1], b[2]>> /\ RoleOf(b[1]) \in Touched(r)
<1> DEFINE l == Line[r.version]
<1>1. buildRelease(r) \subseteq Blobs(r) /\ Touched(r) \subseteq Delegated
  BY PublishAssumption DEF Blobs, Touched, Delegated
<1>2. ASSUME NEW b \in buildPatches(r) PROVE PatchFor(r, b)
  <2>1. PICK d : \E f \in DOMAIN r.files :
                   /\ b = <<PatchPath(l, d.files[f], r.files[f]), "patch">>
                   /\ <<d.files[f], r.files[f]>> \in Smaller
    BY <1>2 DEF buildPatches
  <2> QED BY <2>1 DEF PatchFor
<1>3. ASSUME NEW b \in buildRelease(r) PROVE b = <<b[1], b[2]>> /\ RoleOf(b[1]) \in Touched(r)
  <2>1. CASE \E f \in DOMAIN r.files : b = <<PayloadPath(l, r.files[f]), r.files[f]>>
    BY <2>1 DEF RoleOf, PayloadPath, Touched
  <2>2. CASE b = <<DescriptorPath(r.version), Descriptor(r)>>
    BY <2>2 DEF RoleOf, DescriptorPath, Touched
  <2>3. CASE b = <<PolicyPath(r.version), "policy">>
    BY <2>3 DEF RoleOf, PolicyPath, Touched
  <2>4. CASE b = <<PointerPath(r.channel), r.version>>
    BY <2>4 DEF RoleOf, PointerPath, Touched
  <2> QED BY <2>1, <2>2, <2>3, <2>4 DEF buildRelease
<1>4. ASSUME NEW b, PatchFor(r, b) PROVE b = <<b[1], b[2]>> /\ RoleOf(b[1]) \in Touched(r)
  BY <1>4 DEF PatchFor, RoleOf, PatchPath, Touched
<1>5. \A b \in Blobs(r) : b \in buildRelease(r) \/ PatchFor(r, b)
  BY <1>2 DEF Blobs
<1> QED BY <1>1, <1>3, <1>4, <1>5

\* Merged: what a publish makes of every role is one merge over all that is served.
LEMMA MergedIs ==
  ASSUME Documents(timestamp), NEW r \in Releases, NEW A,
         A = {t \in ServedTargets(timestamp) : t[1] \notin Paths(Blobs(r))} \cup Blobs(r)
  PROVE  /\ \A role \in Touched(r) : Merged(role, Blobs(r)) = {x \in A : RoleOf(x[1]) = role}
         /\ \A role \in Delegated \ Touched(r) : LoadedTargets(role) = {x \in A : RoleOf(x[1]) = role}
         /\ AllTargets(r) = A
<1> DEFINE S == ServedTargets(timestamp)
           B == Blobs(r)
<1>1. Touched(r) \subseteq Delegated /\ \A b \in B : RoleOf(b[1]) \in Touched(r)
  BY BlobsAre
<1>2. /\ \A role \in Delegated : LoadedTargets(role) = {t \in S : RoleOf(t[1]) = role}
      /\ \A t \in S : RoleOf(t[1]) \in Delegated
  BY LoadedIs
<1>3. ASSUME NEW role \in Touched(r) PROVE Merged(role, B) = {x \in A : RoleOf(x[1]) = role}
  <2> DEFINE new == {b \in B : RoleOf(b[1]) = role}
  <2>1. Merged(role, B) = {t \in LoadedTargets(role) : t[1] \notin Paths(new)} \cup new
    BY DEF Merged
  <2>2. \A x \in S : RoleOf(x[1]) = role => (x[1] \in Paths(new) <=> x[1] \in Paths(B))
    <3>1. SUFFICES ASSUME NEW x \in S, RoleOf(x[1]) = role, NEW b \in B, x[1] = b[1]
                   PROVE  b \in new
      BY DEF Paths
    <3> QED BY <3>1
  <2>3. LoadedTargets(role) = {t \in S : RoleOf(t[1]) = role}
    BY <1>1, <1>2
  <2>4. A = {t \in S : t[1] \notin Paths(B)} \cup B
    OBVIOUS
  <2> HIDE DEF S, B
  <2> QED BY <2>1, <2>2, <2>3, <2>4
<1>4. ASSUME NEW role \in Delegated \ Touched(r)
      PROVE  LoadedTargets(role) = {x \in A : RoleOf(x[1]) = role}
  <2>1. \A x \in S : RoleOf(x[1]) = role => x[1] \notin Paths(B)
    BY <1>1 DEF Paths
  <2>2. A = {t \in S : t[1] \notin Paths(B)} \cup B
    OBVIOUS
  <2> HIDE DEF S, B
  <2> QED BY <1>1, <1>2, <2>1, <2>2
<1>5. \A x \in A : RoleOf(x[1]) \in Delegated
  BY <1>1, <1>2
<1>6. AllTargets(r) = A
  <2>1. \A role \in Delegated : (IF role \in Touched(r) THEN Merged(role, B) ELSE LoadedTargets(role))
                                  = {x \in A : RoleOf(x[1]) = role}
    BY <1>3, <1>4
  <2> DEFINE part(role) == IF role \in Touched(r) THEN Merged(role, B) ELSE LoadedTargets(role)
  <2>2. AllTargets(r) = UNION {part(role) : role \in Delegated}
    BY DEF AllTargets
  <2>3. \A role \in Delegated : part(role) = {x \in A : RoleOf(x[1]) = role}
    BY <2>1
  <2> HIDE DEF part
  <2>4. ASSUME NEW x \in AllTargets(r) PROVE x \in A
    BY <2>2, <2>3
  <2>5. ASSUME NEW x \in A PROVE x \in AllTargets(r)
    BY <1>5, <2>2, <2>3
  <2> QED BY <2>4, <2>5
<1> QED BY <1>3, <1>4, <1>6

\* buildRelease to retire: what a publish does to the served targets is a merge and a
\* retirement over all of them.
LEMMA PublishedTargets ==
  ASSUME Documents(timestamp), Good(ServedTargets(timestamp), issued),
         NEW r \in Releases, NEW t, NEW key, Publish(r, t, key)
  PROVE  Publishes(ServedTargets(timestamp), issued, r, Blobs(r), AllTargets(r), Dropped(r),
                   AllTargets(r) \ Dropped(r))
<1> DEFINE S == ServedTargets(timestamp)
           B == Blobs(r)
           A == {x \in S : x[1] \notin Paths(B)} \cup B
           D == Dropped(r)
           l == Line[r.version]
<1>1. AllTargets(r) = A /\ \A role \in Touched(r) : Merged(role, B) = {x \in A : RoleOf(x[1]) = role}
  BY MergedIs
<1>2. MergeAllowed(B) /\ RetireAllowed(AllTargets(r), D, B)
  BY PublishIs
<1>3. /\ buildRelease(r) \subseteq B
      /\ \A b \in B : b \in buildRelease(r) \/ PatchFor(r, b)
      /\ \A b \in B : b = <<b[1], b[2]>> /\ RoleOf(b[1]) \in Touched(r)
      /\ Touched(r) \subseteq Delegated
  BY BlobsAre
<1>4. \A role \in Delegated : LoadedTargets(role) = {x \in S : RoleOf(x[1]) = role}
  BY LoadedIs
<1>5. ASSUME NEW b \in B, NEW x \in S, x[1] = b[1], ~IsKind("channels", b)
      PROVE  x = b
  <2>1. x \in LoadedTargets(RoleOf(b[1]))
    BY <1>3, <1>4, <1>5
  <2>2. x[2] = b[2]
    BY <1>2, <1>5, <2>1 DEF MergeAllowed
  <2>3. x = <<x[1], x[2]>>
    BY DEF Good, Shaped
  <2>4. b = <<b[1], b[2]>>
    BY <1>3
  <2> QED BY <1>5, <2>2, <2>3, <2>4
<1>6. D = IF Keep = 0 THEN {} ELSE retire(A, {x \in A : RoleOf(x[1]) = l})
  <2>1. Merged(l, B) = {x \in A : RoleOf(x[1]) = l}
    BY <1>1 DEF Touched
  <2> HIDE DEF A
  <2> QED BY <1>1, <2>1 DEF Dropped
<1>7. RetireAllowed(A, D, B)
  BY <1>1, <1>2
<1> HIDE DEF S, B, A, D
<1>8. A = {x \in S : x[1] \notin Paths(B)} \cup B
  BY DEF A
<1>9. Good(S, issued)
  BY DEF S
<1>10. \A b \in B, x \in S : x[1] = b[1] /\ ~IsKind("channels", b) => x = b
  BY <1>5
<1>11. Publishes(S, issued, r, B, A, D, A \ D)
  BY <1>3, <1>6, <1>7, <1>8, <1>9, <1>10 DEF Publishes
<1>12. AllTargets(r) = A
  BY <1>1
<1> QED BY <1>11, <1>12 DEF S, B, D

\* NextRoles: the documents the next snapshot pins, role by role.
LEMMA NextRolesAre ==
  ASSUME Documents(timestamp), NEW r \in Releases, NEW t, NEW key
  PROVE  LET next == RolesFor(r, t, key) IN
         /\ DOMAIN next = Touched(r) \cup (ServedRoles(timestamp) \cap Delegated) \cup {"targets"}
         /\ ServedRoles(timestamp) \subseteq DOMAIN next
         /\ \A role \in DOMAIN next :
              /\ next[role].version \in Nat \ {0}
              /\ next[role] = Loaded(role) \/ next[role].version # Loaded(role).version
         /\ \A role \in Touched(r) : next[role].body = Bodies(r)[role]
         /\ \A role \in (ServedRoles(timestamp) \cap Delegated) \ Touched(r) : next[role] = Loaded(role)
         /\ next["targets"].body = buildDelegations(resolveKeys(Touched(r), key))
         /\ \A role \in Touched(r) : next[role] = Loaded(role) \/ next[role].key = key
<1> DEFINE next == RolesFor(r, t, key)
           keyring == resolveKeys(Touched(r), key)
<1>1. DOMAIN keyring = Touched(r) /\ \A role \in Touched(r) : keyring[role] = key
  BY DEF resolveKeys
<1>2. Touched(r) \subseteq Delegated /\ "targets" \notin Delegated
  BY BlobsAre, NamesApart DEF Delegated
<1>3. DOMAIN next = Touched(r) \cup (ServedRoles(timestamp) \cap Delegated) \cup {"targets"}
  BY <1>1 DEF RolesFor, NextRoles
<1>4. ServedRoles(timestamp) \subseteq DOMAIN next
  BY <1>3 DEF Documents, ServedRoles
<1>5. ASSUME NEW role \in Touched(r)
      PROVE  next[role] = finalize(Loaded(role), Bodies(r)[role], t, key)
  <2> HIDE DEF keyring
  <2>1. role \in DOMAIN keyring /\ keyring[role] = key /\ role # "targets"
    BY <1>1, <1>2
  <2> QED BY <2>1 DEF RolesFor, NextRoles, keyring
<1>6. next["targets"] = finalize(Loaded("targets"), buildDelegations(keyring), t, "root")
  BY <1>1, <1>2 DEF RolesFor, NextRoles
<1>7. ASSUME NEW role \in (ServedRoles(timestamp) \cap Delegated) \ Touched(r)
      PROVE  next[role] = Loaded(role)
  BY <1>1, <1>2, <1>7 DEF RolesFor, NextRoles
<1>8. \A role : Loaded(role).version \in Nat /\ (Loaded(role).version # 0 <=> role \in ServedRoles(timestamp))
  BY LoadedIs
<1> HIDE DEF next
<1>9. ASSUME NEW role \in Touched(r)
      PROVE  /\ next[role].body = Bodies(r)[role] /\ next[role].version \in Nat \ {0}
             /\ next[role] = Loaded(role) \/ (next[role].version # Loaded(role).version /\ next[role].key = key)
  BY <1>5, <1>8, FinalizeIs
<1>10. /\ next["targets"].body = buildDelegations(keyring) /\ next["targets"].version \in Nat \ {0}
       /\ next["targets"] = Loaded("targets") \/ next["targets"].version # Loaded("targets").version
  BY <1>6, <1>8, FinalizeIs
<1>11. ASSUME NEW role \in DOMAIN next
       PROVE  /\ next[role].version \in Nat \ {0}
              /\ next[role] = Loaded(role) \/ next[role].version # Loaded(role).version
  <2>1. CASE role \in Touched(r)
    BY <1>9, <2>1
  <2>2. CASE role \in (ServedRoles(timestamp) \cap Delegated) \ Touched(r)
    BY <1>7, <1>8, <2>2
  <2>3. CASE role = "targets"
    BY <1>10, <2>3
  <2> QED BY <1>3, <2>1, <2>2, <2>3
<1>12. \A role \in Touched(r) : next[role] = Loaded(role) \/ next[role].key = key
  BY <1>9
<1>13. \A role \in Touched(r) : next[role].body = Bodies(r)[role]
  BY <1>9
<1> QED BY <1>3, <1>4, <1>7, <1>10, <1>11, <1>12, <1>13 DEF next

\* The timestamp a publish arrives at, and the documents it pins.
LEMMA StampIs ==
  ASSUME Documents(timestamp), NEW r \in Releases, NEW t, NEW key
  PROVE  LET ts == StampFor(r, t, key)
             snap == SnapFor(r, t, key)
             next == RolesFor(r, t, key)
         IN  /\ ts.version \in Nat \ {0} /\ ServedSnapshot(ts) = snap
             /\ ServedRoles(ts) = DOMAIN next /\ \A role : ServedRole(ts, role) = next[role]
             /\ snap.version \in Nat \ {0}
             /\ snap = OldSnap \/ snap.version # OldSnap.version
<1>1. OldSnap.version \in Nat /\ timestamp.version \in Nat
  BY DEF OldSnap, Documents, NoDoc
<1>2. /\ SnapFor(r, t, key).body = RolesFor(r, t, key)
      /\ SnapFor(r, t, key).version \in Nat \ {0}
      /\ SnapFor(r, t, key) = OldSnap \/ SnapFor(r, t, key).version # OldSnap.version
  BY <1>1, FinalizeIs DEF SnapFor
<1>3. StampFor(r, t, key).body = SnapFor(r, t, key) /\ StampFor(r, t, key).version \in Nat \ {0}
  BY <1>1, FinalizeIs DEF StampFor
<1> QED BY <1>2, <1>3 DEF ServedSnapshot, ServedRoles, ServedRole

\* The targets it leads to: all of the merged ones that are not dropped.
LEMMA StampTargets ==
  ASSUME Documents(timestamp), Good(ServedTargets(timestamp), issued),
         NEW r \in Releases, NEW t, NEW key, Publish(r, t, key)
  PROVE  /\ ServedTargets(StampFor(r, t, key)) = AllTargets(r) \ Dropped(r)
         /\ Documents(StampFor(r, t, key))
<1> DEFINE ts == StampFor(r, t, key)
           next == RolesFor(r, t, key)
           S == ServedTargets(timestamp)
           A == AllTargets(r)
           D == Dropped(r)
<1>1. /\ ts.version \in Nat \ {0} /\ ServedSnapshot(ts).version \in Nat \ {0}
      /\ ServedRoles(ts) = DOMAIN next /\ \A role : ServedRole(ts, role) = next[role]
  BY StampIs
<1>2. /\ DOMAIN next = Touched(r) \cup (ServedRoles(timestamp) \cap Delegated) \cup {"targets"}
      /\ \A role \in DOMAIN next : next[role].version \in Nat \ {0}
      /\ \A role \in Touched(r) : next[role].body = Bodies(r)[role]
      /\ \A role \in (ServedRoles(timestamp) \cap Delegated) \ Touched(r) : next[role] = Loaded(role)
  BY NextRolesAre
<1>3. Touched(r) \subseteq Delegated /\ "targets" \notin Delegated
  BY BlobsAre, NamesApart DEF Delegated
<1>4. /\ \A role \in Touched(r) : Merged(role, Blobs(r)) = {x \in A : RoleOf(x[1]) = role}
      /\ \A role \in Delegated \ Touched(r) : LoadedTargets(role) = {x \in A : RoleOf(x[1]) = role}
  <2> DEFINE AA == {x \in S : x[1] \notin Paths(Blobs(r))} \cup Blobs(r)
  <2>1. A = AA
    BY MergedIs
  <2> HIDE DEF A
  <2> QED BY <2>1, MergedIs
<1>5. \A x \in D : RoleOf(x[1]) = Line[r.version]
  <2>1. Publishes(S, issued, r, Blobs(r), A, D, A \ D)
    BY PublishedTargets
  <2> DEFINE T == A \ D
  <2> HIDE DEF T
  <2> QED BY <2>1, RetiredTargets DEF T
<1>6. \A role : Loaded(role).version # 0 <=> role \in ServedRoles(timestamp)
  BY LoadedIs
<1>7. ASSUME NEW role \in Touched(r) PROVE next[role].body = {x \in A \ D : RoleOf(x[1]) = role}
  <2>1. next[role].body = Merged(role, Blobs(r)) \ D
    BY <1>2 DEF Bodies
  <2> HIDE DEF next, A, D
  <2> QED BY <1>4, <2>1
<1>8. ASSUME NEW role \in (ServedRoles(timestamp) \cap Delegated) \ Touched(r)
      PROVE  next[role].body = {x \in A \ D : RoleOf(x[1]) = role}
  <2>1. next[role].body = LoadedTargets(role)
    BY <1>2, <1>6 DEF LoadedTargets
  <2>2. role # Line[r.version]
    BY DEF Touched
  <2> HIDE DEF next, A, D
  <2> QED BY <1>4, <1>5, <2>1, <2>2
<1>9. ASSUME NEW x \in A \ D PROVE RoleOf(x[1]) \in DOMAIN next \cap Delegated
  <2>1. PICK role \in Delegated : x \in (IF role \in Touched(r) THEN Merged(role, Blobs(r)) ELSE LoadedTargets(role))
    BY DEF AllTargets
  <2>2. RoleOf(x[1]) = role
    <3> HIDE DEF A
    <3> QED BY <1>4, <2>1
  <2>3. CASE role \in Touched(r)
    BY <1>2, <2>2, <2>3
  <2>4. CASE role \notin Touched(r)
    <3>1. LoadedTargets(role) # {}
      BY <2>1, <2>4
    <3>2. role \in ServedRoles(timestamp)
      BY <1>6, <3>1 DEF LoadedTargets
    <3> QED BY <1>2, <2>2, <3>2
  <2> QED BY <2>3, <2>4
<1> HIDE DEF ts, next, A, D, S
<1>10. DOMAIN next \cap Delegated = Touched(r) \cup ((ServedRoles(timestamp) \cap Delegated) \ Touched(r))
  BY <1>2, <1>3
<1>11. \A role \in DOMAIN next \cap Delegated : next[role].body = {x \in A \ D : RoleOf(x[1]) = role}
  BY <1>7, <1>8, <1>10
<1>12. ServedTargets(ts) = UNION {next[role].body : role \in DOMAIN next \cap Delegated}
  BY <1>1 DEF ServedTargets
<1>13. ServedTargets(ts) = A \ D
  <2>1. ASSUME NEW x \in ServedTargets(ts) PROVE x \in A \ D
    BY <1>11, <1>12
  <2>2. ASSUME NEW x \in A \ D PROVE x \in ServedTargets(ts)
    BY <1>9, <1>11, <1>12
  <2> QED BY <2>1, <2>2
<1>14. "targets" \in DOMAIN next /\ DOMAIN next \subseteq Delegated \cup {"targets"}
  BY <1>2, <1>3
<1>15. Documents(ts)
  <2>1. \A role \in DOMAIN next \cap Delegated : \A x \in next[role].body : RoleOf(x[1]) = role
    BY <1>11
  <2> QED BY <1>1, <1>2, <1>14, <2>1 DEF Documents
<1> QED BY <1>13, <1>15 DEF ts, A, D

---------------------------------------------------------------------------
(* One publish, as files.                                                  *)

\* Publish: what it leaves to be done, by what it arrives at.
LEMMA JobIs ==
  ASSUME Documents(timestamp), Good(ServedTargets(timestamp), issued),
         NEW r \in Releases, NEW t, NEW key, Publish(r, t, key)
  PROVE  LET ts == StampFor(r, t, key)
             snap == SnapFor(r, t, key)
             next == RolesFor(r, t, key)
         IN  /\ \A o \in job' :
                  \/ \E b \in Blobs(r) : o = <<"target", b[1], b[2]>>
                  \/ /\ o[1] \in {"role", "targets"} /\ o[2] \in DOMAIN next /\ o[3] = next[o[2]]
                     /\ next[o[2]] # Loaded(o[2])
                  \/ /\ o[1] = "snapshot" /\ o[2] = "snapshot" /\ o[3] = snap
                     /\ ~(timestamp.version # 0 /\ snap = ServedSnapshot(timestamp))
                  \/ o = <<"timestamp", "timestamp", ts>> /\ ts # timestamp
                  \/ \E x \in Dropped(r) : o = <<"remove", x[1], x[2]>>
             /\ \A b \in Blobs(r) : <<"target", b[1], b[2]>> \in job'
             /\ \A role \in DOMAIN next : next[role] # Loaded(role) =>
                  \E o \in job' : o[1] \in MetaOps /\ o[2] = role /\ o[3] = next[role]
             /\ ~(timestamp.version # 0 /\ snap = ServedSnapshot(timestamp)) =>
                  \E o \in job' : o[1] \in MetaOps /\ o[2] = "snapshot" /\ o[3] = snap
             /\ ts # timestamp => <<"timestamp", "timestamp", ts>> \in job'
<1> DEFINE ts == StampFor(r, t, key)
           snap == SnapFor(r, t, key)
           next == RolesFor(r, t, key)
<1>1. job' = WriteTargets(Blobs(r)) \cup WriteRoles(next) \cup WriteSnapshot(snap)
               \cup WriteTimestamp(ts) \cup removeRetired(Dropped(r))
  BY PublishIs
<1> HIDE DEF ts, snap, next
<1>2. ASSUME NEW o \in WriteRoles(next)
      PROVE  /\ o[1] \in {"role", "targets"} /\ o[2] \in DOMAIN next /\ o[3] = next[o[2]]
             /\ next[o[2]] # Loaded(o[2])
  BY DEF WriteRoles
<1>3. ASSUME NEW o \in WriteSnapshot(snap)
      PROVE  /\ o[1] = "snapshot" /\ o[2] = "snapshot" /\ o[3] = snap
             /\ ~(timestamp.version # 0 /\ snap = ServedSnapshot(timestamp))
  BY DEF WriteSnapshot
<1>4. ASSUME NEW o \in WriteTimestamp(ts) PROVE o = <<"timestamp", "timestamp", ts>> /\ ts # timestamp
  BY DEF WriteTimestamp
<1>5. ASSUME NEW o \in job'
      PROVE  \/ \E b \in Blobs(r) : o = <<"target", b[1], b[2]>>
             \/ /\ o[1] \in {"role", "targets"} /\ o[2] \in DOMAIN next /\ o[3] = next[o[2]]
                /\ next[o[2]] # Loaded(o[2])
             \/ /\ o[1] = "snapshot" /\ o[2] = "snapshot" /\ o[3] = snap
                /\ ~(timestamp.version # 0 /\ snap = ServedSnapshot(timestamp))
             \/ o = <<"timestamp", "timestamp", ts>> /\ ts # timestamp
             \/ \E x \in Dropped(r) : o = <<"remove", x[1], x[2]>>
  <2>1. CASE o \in WriteTargets(Blobs(r))
    BY <2>1 DEF WriteTargets
  <2>2. CASE o \in removeRetired(Dropped(r))
    BY <2>2 DEF removeRetired
  <2> QED BY <1>1, <1>2, <1>3, <1>4, <2>1, <2>2
<1>6. \A b \in Blobs(r) : <<"target", b[1], b[2]>> \in job'
  BY <1>1 DEF WriteTargets
<1>7. ASSUME NEW role \in DOMAIN next, next[role] # Loaded(role)
      PROVE  \E o \in job' : o[1] \in MetaOps /\ o[2] = role /\ o[3] = next[role]
  <2> DEFINE o == <<IF role = "targets" THEN "targets" ELSE "role", role, next[role]>>
  <2>1. o \in WriteRoles(next)
    BY <1>7 DEF WriteRoles
  <2>2. o \in job'
    BY <1>1, <2>1
  <2>3. o[1] \in MetaOps /\ o[2] = role /\ o[3] = next[role]
    BY DEF MetaOps
  <2> HIDE DEF o
  <2> QED BY <2>2, <2>3
<1>8. ASSUME ~(timestamp.version # 0 /\ snap = ServedSnapshot(timestamp))
      PROVE  \E o \in job' : o[1] \in MetaOps /\ o[2] = "snapshot" /\ o[3] = snap
  <2> DEFINE o == <<"snapshot", "snapshot", snap>>
  <2>1. o \in job'
    BY <1>1, <1>8 DEF WriteSnapshot
  <2>2. o[1] \in MetaOps /\ o[2] = "snapshot" /\ o[3] = snap
    BY DEF MetaOps
  <2> HIDE DEF o
  <2> QED BY <2>1, <2>2
<1>9. ts # timestamp => <<"timestamp", "timestamp", ts>> \in job'
  BY <1>1 DEF WriteTimestamp
<1> QED BY <1>5, <1>6, <1>7, <1>8, <1>9 DEF ts, snap, next

\* Publish: nothing is written yet, and what is left leads to the next whole set.
LEMMA PublishKeeps ==
  ASSUME PubInv, NEW r \in Releases, NEW t, NEW key, Publish(r, t, key)
  PROVE  PubInv' /\ Last' = StampFor(r, t, key)
<1> DEFINE ts == StampFor(r, t, key)
           snap == SnapFor(r, t, key)
           next == RolesFor(r, t, key)
           S == ServedTargets(timestamp)
           B == Blobs(r)
           A == AllTargets(r)
           D == Dropped(r)
           T == A \ D
<1>1. Documents(timestamp) /\ Whole(timestamp) /\ Good(S, issued)
  BY DEF PubInv
<1>2. targets' = targets /\ meta' = meta /\ timestamp' = timestamp /\ issued' = issued
  BY PublishIs
<1>3. Publishes(S, issued, r, B, A, D, T)
  BY <1>1, PublishedTargets
<1>4. ServedTargets(ts) = T /\ Documents(ts)
  BY <1>1, StampTargets
<1>5. /\ ts.version \in Nat \ {0} /\ ServedSnapshot(ts) = snap
      /\ ServedRoles(ts) = DOMAIN next /\ \A role : ServedRole(ts, role) = next[role]
      /\ snap = OldSnap \/ snap.version # OldSnap.version
  BY <1>1, StampIs
<1>6. /\ DOMAIN next \subseteq Delegated \cup {"targets"}
      /\ \A role \in DOMAIN next : /\ next[role].version \in Nat \ {0}
                                   /\ next[role] = Loaded(role) \/ next[role].version # Loaded(role).version
  <2>1. Touched(r) \subseteq Delegated
    BY BlobsAre
  <2>2. Documents(timestamp)
    BY <1>1
  <2>3. /\ DOMAIN next = Touched(r) \cup (ServedRoles(timestamp) \cap Delegated) \cup {"targets"}
        /\ \A role \in DOMAIN next :
             /\ next[role].version \in Nat \ {0}
             /\ next[role] = Loaded(role) \/ next[role].version # Loaded(role).version
    BY <2>2, NextRolesAre
  <2> HIDE DEF next
  <2> QED BY <2>1, <2>3
<1>7. "snapshot" \notin DOMAIN next
  BY <1>6, NamesApart DEF Delegated
<1>8. /\ \A o \in job' :
          \/ \E b \in B : o = <<"target", b[1], b[2]>>
          \/ /\ o[1] \in {"role", "targets"} /\ o[2] \in DOMAIN next /\ o[3] = next[o[2]]
             /\ next[o[2]] # Loaded(o[2])
          \/ /\ o[1] = "snapshot" /\ o[2] = "snapshot" /\ o[3] = snap
             /\ ~(timestamp.version # 0 /\ snap = ServedSnapshot(timestamp))
          \/ o = <<"timestamp", "timestamp", ts>> /\ ts # timestamp
          \/ \E x \in D : o = <<"remove", x[1], x[2]>>
      /\ \A b \in B : <<"target", b[1], b[2]>> \in job'
      /\ \A role \in DOMAIN next : next[role] # Loaded(role) =>
           \E o \in job' : o[1] \in MetaOps /\ o[2] = role /\ o[3] = next[role]
      /\ ~(timestamp.version # 0 /\ snap = ServedSnapshot(timestamp)) =>
           \E o \in job' : o[1] \in MetaOps /\ o[2] = "snapshot" /\ o[3] = snap
      /\ ts # timestamp => <<"timestamp", "timestamp", ts>> \in job'
  BY <1>1, JobIs
<1>9. \A role : Loaded(role).version # 0 <=> role \in ServedRoles(timestamp)
  BY <1>1, LoadedIs
<1>10. \A role \in ServedRoles(timestamp) : Loaded(role) = ServedRole(timestamp, role)
  BY DEF Loaded
<1>11. Good(T, issued \cup T) /\ Moves(S, issued, T)
  <2> HIDE DEF T
  <2> QED BY <1>3, ReleaseIsGood
<1>12. \A x \in A : x = <<x[1], x[2]>>
  <2> HIDE DEF T
  <2>1. \A x \in A : Shaped(x)
    BY <1>3, MergedTargets
  <2> QED BY <2>1 DEF Shaped
<1>13. D \subseteq A /\ A \subseteq S \cup B
  <2> HIDE DEF T, A, D, B, S
  <2>1. D \subseteq A
    BY <1>3, RetiredTargets
  <2> QED BY <1>3, <2>1 DEF Publishes
<1> HIDE DEF ts, snap, next, S, B, A, D, T
<1>14. (Switching' <=> ts # timestamp) /\ Last' = ts
  <2>1. \A o \in job' : o[1] = "timestamp" => o = <<"timestamp", "timestamp", ts>> /\ ts # timestamp
    BY <1>8
  <2>2. Switching' <=> ts # timestamp
    BY <1>8, <2>1 DEF Switching
  <2>3. CASE Switching'
    <3>1. \E o \in job' : o[1] = "timestamp"
      BY <2>3 DEF Switching
    <3> DEFINE chosen == CHOOSE o \in job' : o[1] = "timestamp"
    <3>2. chosen \in job' /\ chosen[1] = "timestamp"
      BY <3>1
    <3>3. Last' = chosen[3]
      BY <2>3 DEF Last
    <3> HIDE DEF chosen
    <3>4. chosen = <<"timestamp", "timestamp", ts>>
      BY <2>1, <3>2
    <3> QED BY <2>2, <3>3, <3>4
  <2>4. CASE ~Switching'
    BY <1>2, <2>2, <2>4 DEF Last
  <2> QED BY <2>2, <2>3, <2>4
<1>15. Backed(Last)'
  <2>1. <<"snapshot", snap>> \in meta' \/ \E o \in job' : o[1] \in MetaOps /\ o[2] = "snapshot" /\ o[3] = snap
    <3>1. CASE timestamp.version # 0 /\ snap = ServedSnapshot(timestamp)
      BY <1>1, <1>2, <3>1 DEF Whole, FileIs
    <3> QED BY <1>8, <3>1
  <2>2. ASSUME NEW role \in DOMAIN next
        PROVE  <<role, next[role]>> \in meta' \/ \E o \in job' : o[1] \in MetaOps /\ o[2] = role /\ o[3] = next[role]
    <3>1. CASE next[role] = Loaded(role)
      <4>1. role \in ServedRoles(timestamp)
        BY <1>6, <1>9, <3>1
      <4>2. timestamp.version # 0
        BY <4>1 DEF ServedRoles
      <4>3. FileIs(role, next[role])
        BY <1>1, <1>10, <3>1, <4>1, <4>2 DEF Whole
      <4>4. <<role, next[role]>> \in meta'
        BY <1>2, <4>3 DEF FileIs
      <4> QED BY <4>4
    <3> QED BY <1>8, <3>1
  <2>3. ASSUME NEW x \in T PROVE x \in targets' \/ <<"target", x[1], x[2]>> \in job'
    <3>1. x \in S \/ x \in B
      BY <1>13 DEF T
    <3>2. S \subseteq targets
      BY <1>1 DEF Whole, S
    <3> QED BY <1>2, <1>8, <3>1, <3>2
  <2>4. \A role \in ServedRoles(ts) :
          \/ <<role, ServedRole(ts, role)>> \in meta'
          \/ \E o \in job' : o[1] \in MetaOps /\ o[2] = role /\ o[3] = ServedRole(ts, role)
    BY <1>5, <2>2
  <2>5. \/ <<"snapshot", ServedSnapshot(ts)>> \in meta'
        \/ \E o \in job' : o[1] \in MetaOps /\ o[2] = "snapshot" /\ o[3] = ServedSnapshot(ts)
    BY <1>5, <2>1
  <2>6. \A x \in ServedTargets(ts) : x \in targets' \/ <<"target", x[1], x[2]>> \in job'
    BY <1>4, <2>3
  <2> QED BY <1>14, <2>4, <2>5, <2>6 DEF Backed, FileIs
<1>16. Operations'
  <2> SUFFICES ASSUME NEW o \in job'
               PROVE  /\ o[1] \in DOMAIN WriteOrder
                      /\ o[1] = "timestamp" => \A q \in job' : q[1] = "timestamp" => q = o
                      /\ o[1] \in MetaOps =>
                           /\ Switching' /\ Pins(Last, o[2], o[3])'
                           /\ timestamp.version # 0 =>
                                /\ o[2] = "snapshot" => o[3].version # ServedSnapshot(timestamp).version
                                /\ o[2] \in ServedRoles(timestamp) =>
                                     o[3].version # ServedRole(timestamp, o[2]).version
                      /\ o[1] = "remove" => <<o[2], o[3]>> \notin ServedTargets(Last)'
    BY <1>2 DEF Operations
  <2>1. DOMAIN WriteOrder = {"target", "role", "targets", "snapshot", "timestamp", "remove"}
    BY DEF WriteOrder
  <2>2. CASE \E b \in B : o = <<"target", b[1], b[2]>>
    BY <2>1, <2>2 DEF MetaOps
  <2>3. CASE /\ o[1] \in {"role", "targets"} /\ o[2] \in DOMAIN next /\ o[3] = next[o[2]]
             /\ next[o[2]] # Loaded(o[2])
    <3>1. ts # timestamp
      <4>1. SUFFICES ASSUME ts = timestamp PROVE FALSE
        OBVIOUS
      <4>2. o[2] \in ServedRoles(timestamp) /\ next[o[2]] = ServedRole(timestamp, o[2])
        BY <1>5, <2>3, <4>1
      <4> QED BY <1>10, <2>3, <4>2
    <3>2. Pins(Last, o[2], o[3])'
      BY <1>5, <1>14, <2>3 DEF Pins
    <3>3. o[2] # "snapshot"
      BY <1>7, <2>3
    <3>4. o[2] \in ServedRoles(timestamp) => o[3].version # ServedRole(timestamp, o[2]).version
      BY <1>6, <1>10, <2>3
    <3> QED BY <1>14, <2>1, <2>3, <3>1, <3>2, <3>3, <3>4
  <2>4. CASE /\ o[1] = "snapshot" /\ o[2] = "snapshot" /\ o[3] = snap
             /\ ~(timestamp.version # 0 /\ snap = ServedSnapshot(timestamp))
    <3>1. ts # timestamp
      BY <1>5, <2>4
    <3>2. Pins(Last, o[2], o[3])'
      BY <1>5, <1>14, <2>4 DEF Pins
    <3>3. timestamp.version # 0 => o[3].version # ServedSnapshot(timestamp).version
      BY <1>5, <2>4 DEF OldSnap
    <3>4. timestamp.version # 0 => o[2] \notin ServedRoles(timestamp)
      BY <1>1, <2>4, NamesApart DEF Documents, Delegated
    <3> QED BY <1>14, <2>1, <2>4, <3>1, <3>2, <3>3, <3>4
  <2>5. CASE o = <<"timestamp", "timestamp", ts>> /\ ts # timestamp
    <3>1. \A q \in job' : q[1] = "timestamp" => q = o
      BY <1>8, <2>5
    <3> QED BY <2>1, <2>5, <3>1 DEF MetaOps
  <2>6. CASE \E x \in D : o = <<"remove", x[1], x[2]>>
    <3>1. PICK x \in D : o = <<"remove", x[1], x[2]>>
      BY <2>6
    <3>2. <<o[2], o[3]>> = x
      BY <1>12, <1>13, <3>1
    <3>3. x \notin T
      BY DEF T
    <3>4. <<o[2], o[3]>> \notin ServedTargets(Last)'
      BY <1>4, <1>14, <3>2, <3>3
    <3> QED BY <2>1, <3>1, <3>4 DEF MetaOps
  <2> QED BY <1>8, <2>2, <2>3, <2>4, <2>5, <2>6
<1>17. Whole(timestamp)'
  BY <1>1, <1>2 DEF Whole, FileIs
<1>18. Documents(timestamp)' /\ Documents(Last)'
  BY <1>1, <1>2, <1>4, <1>14
<1>19. Good(ServedTargets(timestamp), issued)'
  BY <1>1, <1>2 DEF S
<1>20. Good(ServedTargets(Last), issued \cup ServedTargets(Last))'
  BY <1>2, <1>4, <1>11, <1>14
<1>21. Moves(ServedTargets(timestamp), issued, ServedTargets(Last))'
  BY <1>2, <1>4, <1>11, <1>14 DEF S
<1>22. PubInv'
  BY <1>15, <1>16, <1>17, <1>18, <1>19, <1>20, <1>21 DEF PubInv
<1> QED BY <1>14, <1>22 DEF ts

\* The stages are in order: some operation that is left is due.
LEMMA SomeDue ==
  ASSUME job # {}, Operations
  PROVE  \E o \in job : Due(o)
<1> DEFINE stages == {WriteOrder[o[1]] : o \in job}
<1>1. \A o \in job : WriteOrder[o[1]] \in Nat
  <2>1. WriteOrder \in [DOMAIN WriteOrder -> Nat]
    <3>1. DOMAIN WriteOrder = {"target", "role", "targets", "snapshot", "timestamp", "remove"}
      BY DEF WriteOrder
    <3>2. /\ WriteOrder["target"] = 1 /\ WriteOrder["role"] = 2 /\ WriteOrder["targets"] = 3
          /\ WriteOrder["snapshot"] = 4 /\ WriteOrder["timestamp"] = 5 /\ WriteOrder["remove"] = 6
      BY DEF WriteOrder
    <3>3. \A k \in DOMAIN WriteOrder : WriteOrder[k] \in Nat
      BY <3>1, <3>2
    <3>4. WriteOrder = [k \in DOMAIN WriteOrder |-> WriteOrder[k]]
      BY DEF WriteOrder
    <3> QED BY <3>3, <3>4
  <2> QED BY <2>1 DEF Operations
<1>2. PICK n \in stages : \A m \in stages : n <= m
  <2>1. stages \subseteq Nat /\ stages # {}
    BY <1>1
  <2> HIDE DEF stages
  <2> QED BY <2>1, LeastOf
<1>3. PICK o \in job : n = WriteOrder[o[1]]
  BY <1>2
<1> QED BY <1>2, <1>3 DEF Due

\* The timestamp a job leads to is that of its one timestamp operation.
LEMMA LastIs ==
  ASSUME Operations, NEW o \in job, o[1] = "timestamp"
  PROVE  Switching /\ Last = o[3]
<1> DEFINE chosen == CHOOSE q \in job : q[1] = "timestamp"
<1>1. chosen \in job /\ chosen[1] = "timestamp"
  OBVIOUS
<1>2. Switching
  BY DEF Switching
<1>3. Last = chosen[3]
  BY <1>2 DEF Last
<1> HIDE DEF chosen
<1>4. chosen = o
  BY <1>1 DEF Operations
<1> QED BY <1>2, <1>3, <1>4

\* It stays the same as long as that operation is left.
LEMMA LastStays ==
  ASSUME Operations, NEW o \in job, o[1] # "timestamp", job' = job \ {o}, timestamp' = timestamp
  PROVE  (Switching' <=> Switching) /\ Last' = Last
<1>1. Switching' <=> Switching
  BY DEF Switching
<1>2. CASE Switching
  <2>1. PICK q \in job : q[1] = "timestamp"
    BY <1>2 DEF Switching
  <2>2. Last = q[3]
    BY <2>1, LastIs
  <2>3. (CHOOSE p \in job' : p[1] = "timestamp") = q
    BY <2>1 DEF Operations
  <2>4. Switching'
    BY <1>1, <1>2
  <2> DEFINE chosen == CHOOSE p \in job' : p[1] = "timestamp"
  <2>5. Last' = chosen[3]
    BY <2>4 DEF Last
  <2> HIDE DEF chosen
  <2>6. chosen = q
    BY <2>3 DEF chosen
  <2> QED BY <1>1, <2>2, <2>5, <2>6
<1>3. CASE ~Switching
  BY <1>1, <1>3 DEF Last
<1> QED BY <1>2, <1>3

\* What a served or coming timestamp pins under a name is one document.
LEMMA PinnedOnce ==
  ASSUME NEW ts, Documents(ts), NEW name, NEW doc, Pins(ts, name, doc)
  PROVE  /\ ts.version # 0
         /\ name = "snapshot" => doc = ServedSnapshot(ts)
         /\ name \in ServedRoles(ts) => doc = ServedRole(ts, name)
BY NamesApart DEF Documents, Pins, Delegated

\* Every target of the coming timestamp is a pair, whether or not it is already served.
LEMMA LastShaped ==
  ASSUME PubInv
  PROVE  \A t \in ServedTargets(Last) : t = <<t[1], t[2]>>
<1>1. CASE Switching
  BY <1>1 DEF PubInv, Good, Shaped
<1>2. CASE ~Switching
  <2>1. Last = timestamp
    BY <1>2 DEF Last
  <2> QED BY <2>1 DEF PubInv, Good, Shaped
<1> QED BY <1>1, <1>2

\* writeFile of a target: it is in nobody's way.
LEMMA WriteTargetKeeps ==
  ASSUME PubInv, NEW o \in job, WriteTarget(o), job' = job \ {o}
  PROVE  PubInv' /\ Last' = Last
<1>1. /\ o[1] = "target" /\ targets' = targets \cup {<<o[2], o[3]>>}
      /\ meta' = meta /\ timestamp' = timestamp /\ issued' = issued
  BY DEF WriteTarget
<1>2. (Switching' <=> Switching) /\ Last' = Last
  BY <1>1, LastStays DEF PubInv
<1>3. Whole(timestamp)'
  BY <1>1 DEF PubInv, Whole, FileIs
<1>4. Backed(Last)'
  <2>1. \A q \in job : q[1] \in MetaOps => q \in job'
    BY <1>1 DEF MetaOps
  <2>2. ASSUME NEW t \in ServedTargets(Last) PROVE t \in targets' \/ <<"target", t[1], t[2]>> \in job'
    <3>1. t \in targets \/ <<"target", t[1], t[2]>> \in job
      BY DEF PubInv, Backed
    <3>2. CASE <<"target", t[1], t[2]>> = o
      BY <1>1, <3>2, LastShaped
    <3> QED BY <1>1, <3>1, <3>2
  <2>3. Backed(Last)
    BY DEF PubInv
  <2> QED BY <1>1, <1>2, <2>1, <2>2, <2>3 DEF Backed, FileIs
<1>5. Operations'
  BY <1>1, <1>2 DEF PubInv, Operations, Pins
<1> QED BY <1>1, <1>2, <1>3, <1>4, <1>5 DEF PubInv

\* A timestamp is written last of all: what it pins and names is there by then.
LEMMA PutTimestampKeeps ==
  ASSUME PubInv, NEW o \in job, Due(o), PutTimestamp(o), job' = job \ {o}
  PROVE  PubInv' /\ timestamp' = Last /\ Switching
<1>1. /\ o[1] = "timestamp" /\ timestamp' = o[3] /\ issued' = issued \cup ServedTargets(o[3])
      /\ targets' = targets /\ meta' = meta
  BY DEF PutTimestamp
<1>2. Switching /\ Last = o[3]
  BY <1>1, LastIs DEF PubInv
<1>3. ~Switching' /\ Last' = Last
  <2>1. ~Switching'
    BY <1>1 DEF PubInv, Operations, Switching
  <2> QED BY <1>1, <1>2, <2>1 DEF Last
<1>4. \A q \in job : q[1] # "target" /\ q[1] \notin MetaOps
  BY <1>1 DEF Due, WriteOrder, MetaOps
<1>5. Whole(Last)
  BY <1>4 DEF PubInv, Backed, Whole
<1>6. Whole(timestamp)' /\ Backed(Last)'
  BY <1>1, <1>2, <1>3, <1>5 DEF Whole, Backed, FileIs
<1>7. Operations'
  <2>1. \A q \in job' : q[1] = "remove" /\ <<q[2], q[3]>> \notin ServedTargets(Last)
    BY <1>1, <1>4 DEF PubInv, Operations, WriteOrder, MetaOps
  <2> QED BY <1>3, <2>1 DEF Operations, WriteOrder, MetaOps
<1>8. Good(ServedTargets(timestamp), issued)'
  BY <1>1, <1>2 DEF PubInv
<1> QED BY <1>1, <1>2, <1>3, <1>6, <1>7, <1>8 DEF PubInv

\* writeFile of a document: it takes the place of no document that is served, and of no
\* other that will be.
LEMMA WriteMetaKeeps ==
  ASSUME PubInv, NEW o \in job, WriteMeta(o), job' = job \ {o}
  PROVE  PubInv' /\ Last' = Last
<1>1. /\ o[1] \in MetaOps
      /\ meta' = {f \in meta : f[1] = o[2] => f[2].version # o[3].version} \cup {<<o[2], o[3]>>}
      /\ targets' = targets /\ timestamp' = timestamp /\ issued' = issued
  BY DEF WriteMeta, MetaOps
<1>2. o[1] # "timestamp" /\ o[1] # "target"
  BY <1>1 DEF MetaOps
<1>3. (Switching' <=> Switching) /\ Last' = Last
  BY <1>1, <1>2, LastStays DEF PubInv
<1>4. /\ Pins(Last, o[2], o[3])
      /\ timestamp.version # 0 =>
           /\ o[2] = "snapshot" => o[3].version # ServedSnapshot(timestamp).version
           /\ o[2] \in ServedRoles(timestamp) => o[3].version # ServedRole(timestamp, o[2]).version
  BY <1>1 DEF PubInv, Operations
<1>5. \A name, doc : /\ <<name, doc>> \in meta
                     /\ name = o[2] => doc.version # o[3].version
                     => <<name, doc>> \in meta'
  BY <1>1
<1>6. <<o[2], o[3]>> \in meta'
  BY <1>1
<1>7. Whole(timestamp)'
  <2>1. Whole(timestamp)
    BY DEF PubInv
  <2>2. ASSUME timestamp.version # 0
        PROVE  /\ <<"snapshot", ServedSnapshot(timestamp)>> \in meta'
               /\ \A role \in ServedRoles(timestamp) : <<role, ServedRole(timestamp, role)>> \in meta'
    <3>1. <<"snapshot", ServedSnapshot(timestamp)>> \in meta'
      BY <1>4, <1>5, <2>1, <2>2 DEF Whole, FileIs
    <3>2. ASSUME NEW role \in ServedRoles(timestamp) PROVE <<role, ServedRole(timestamp, role)>> \in meta'
      BY <1>4, <1>5, <2>1, <2>2 DEF Whole, FileIs
    <3> QED BY <3>1, <3>2
  <2> QED BY <1>1, <2>1, <2>2 DEF Whole, FileIs
<1>8. Backed(Last)'
  <2>1. /\ o[2] = "snapshot" => o[3] = ServedSnapshot(Last)
        /\ o[2] \in ServedRoles(Last) => o[3] = ServedRole(Last, o[2])
    <3>1. Documents(Last)
      BY DEF PubInv
    <3> QED BY <1>4, <3>1, PinnedOnce
  <2>2. Backed(Last)
    BY DEF PubInv
  <2>3. ASSUME Last.version # 0
        PROVE  \/ <<"snapshot", ServedSnapshot(Last)>> \in meta'
               \/ \E q \in job' : q[1] \in MetaOps /\ q[2] = "snapshot" /\ q[3] = ServedSnapshot(Last)
    <3>1. CASE o[2] = "snapshot"
      BY <1>6, <2>1, <3>1
    <3>2. CASE o[2] # "snapshot"
      <4>1. CASE FileIs("snapshot", ServedSnapshot(Last))
        BY <1>5, <3>2, <4>1 DEF FileIs
      <4>2. CASE \E q \in job : q[1] \in MetaOps /\ q[2] = "snapshot" /\ q[3] = ServedSnapshot(Last)
        BY <3>2, <4>2
      <4> QED BY <2>2, <2>3, <4>1, <4>2 DEF Backed
    <3> QED BY <3>1, <3>2
  <2>4. ASSUME Last.version # 0, NEW role \in ServedRoles(Last)
        PROVE  \/ <<role, ServedRole(Last, role)>> \in meta'
               \/ \E q \in job' : q[1] \in MetaOps /\ q[2] = role /\ q[3] = ServedRole(Last, role)
    <3>1. CASE o[2] = role
      BY <1>6, <2>1, <3>1
    <3>2. CASE o[2] # role
      <4>1. CASE FileIs(role, ServedRole(Last, role))
        BY <1>5, <3>2, <4>1 DEF FileIs
      <4>2. CASE \E q \in job : q[1] \in MetaOps /\ q[2] = role /\ q[3] = ServedRole(Last, role)
        BY <3>2, <4>2
      <4> QED BY <2>2, <2>4, <4>1, <4>2 DEF Backed
    <3> QED BY <3>1, <3>2
  <2>5. \A t \in ServedTargets(Last) : t \in targets' \/ <<"target", t[1], t[2]>> \in job'
    <3>1. SUFFICES ASSUME NEW t \in ServedTargets(Last)
                   PROVE  t \in targets' \/ <<"target", t[1], t[2]>> \in job'
      OBVIOUS
    <3>2. t \in targets \/ <<"target", t[1], t[2]>> \in job
      BY <2>2 DEF Backed
    <3>3. <<"target", t[1], t[2]>> # o
      BY <1>2
    <3> QED BY <1>1, <3>2, <3>3
  <2> QED BY <1>3, <2>3, <2>4, <2>5 DEF Backed, FileIs
<1>9. Operations'
  BY <1>1, <1>3 DEF PubInv, Operations, Pins
<1> QED BY <1>1, <1>3, <1>7, <1>8, <1>9 DEF PubInv

\* removeRetired comes after the switch: what it deletes is not served.
LEMMA RemoveTargetKeeps ==
  ASSUME PubInv, NEW o \in job, Due(o), RemoveTarget(o), job' = job \ {o}
  PROVE  /\ PubInv' /\ Last' = Last /\ Last = timestamp
         /\ <<o[2], o[3]>> \notin ServedTargets(timestamp)
<1>1. /\ o[1] = "remove" /\ targets' = targets \ {<<o[2], o[3]>>}
      /\ meta' = meta /\ timestamp' = timestamp /\ issued' = issued
  BY DEF RemoveTarget
<1>2. (Switching' <=> Switching) /\ Last' = Last
  BY <1>1, LastStays DEF PubInv
<1>3. ~Switching /\ Last = timestamp
  <2>1. \A q \in job : q[1] # "timestamp"
    BY <1>1 DEF Due, WriteOrder
  <2> QED BY <2>1 DEF Switching, Last
<1>4. <<o[2], o[3]>> \notin ServedTargets(timestamp)
  BY <1>1, <1>3 DEF PubInv, Operations
<1>5. Whole(timestamp)'
  BY <1>1, <1>4 DEF PubInv, Whole, FileIs
<1>6. Backed(Last)'
  BY <1>1, <1>2, <1>3, <1>5 DEF Whole, Backed, FileIs
<1>7. Operations'
  BY <1>1, <1>2 DEF PubInv, Operations, Pins
<1> QED BY <1>1, <1>2, <1>3, <1>4, <1>5, <1>6, <1>7 DEF PubInv

\* A publish that dies: what is served is as whole as before.
LEMMA AbortKeeps ==
  ASSUME PubInv, Abort
  PROVE  PubInv'
<1>1. job' = {} /\ targets' = targets /\ meta' = meta /\ timestamp' = timestamp /\ issued' = issued
  BY DEF Abort
<1>2. ~Switching' /\ Last' = timestamp
  BY <1>1 DEF Switching, Last
<1>3. Whole(timestamp)' /\ Operations'
  BY <1>1 DEF PubInv, Whole, FileIs, Operations
<1>4. Backed(Last)'
  BY <1>1, <1>2, <1>3 DEF Whole, Backed, FileIs
<1> QED BY <1>1, <1>2, <1>3, <1>4 DEF PubInv

\* Before the first publish there is nothing to be wrong about.
LEMMA InitKeeps ==
  ASSUME PubInit
  PROVE  PubInv
<1>1. /\ targets = {} /\ meta = {} /\ job = {} /\ issued = {}
      /\ timestamp = NoDoc /\ timestamp.version = 0
  BY DEF PubInit, NoDoc
<1>2. ~Switching /\ Last = timestamp
  BY <1>1 DEF Switching, Last
<1>3. ServedTargets(timestamp) = {}
  BY <1>1 DEF ServedTargets, ServedRoles
<1>4. Documents(timestamp) /\ Whole(timestamp) /\ Backed(timestamp) /\ Operations
  BY <1>1, <1>3 DEF Documents, Whole, Backed, Operations
<1>5. Good({}, {})
  <2>1. Of("channels", {}) = {} /\ Of("releases", {}) = {} /\ Of("policies", {}) = {} /\ Of("payloads", {}) = {}
    BY DEF Of
  <2>2. Descs({}) = {}
    BY <2>1 DEF Descs
  <2> QED BY <2>1, <2>2, FS_EmptySet DEF Good, HeadsIn, PayloadsExact, PoliciesOwned, Outgrown
<1> QED BY <1>1, <1>2, <1>3, <1>4, <1>5 DEF PubInv

\* Every step keeps the invariant.
LEMMA StepKeeps ==
  ASSUME PubInv, [PubNext]_pubVars
  PROVE  PubInv'
<1>1. CASE \E r \in Releases, t \in now..MaxNow, key \in Keys : Publish(r, t, key)
  BY <1>1, PublishKeeps
<1>2. CASE Write
  <2> DEFINE o == CHOOSE o \in job : Due(o)
  <2>1. job # {} /\ Operations
    BY <1>2 DEF Write, PubInv
  <2>2. o \in job /\ Due(o)
    BY <2>1, SomeDue
  <2>3. (WriteTarget(o) \/ WriteMeta(o) \/ PutTimestamp(o) \/ RemoveTarget(o)) /\ job' = job \ {o}
    BY <1>2 DEF Write
  <2> HIDE DEF o
  <2> QED BY <2>2, <2>3, WriteTargetKeeps, WriteMetaKeeps, PutTimestampKeeps, RemoveTargetKeeps
<1>3. CASE Abort
  BY <1>3, AbortKeeps
<1>4. CASE UNCHANGED pubVars
  <2>1. targets' = targets /\ meta' = meta /\ timestamp' = timestamp /\ job' = job /\ issued' = issued
    BY <1>4 DEF pubVars
  <2>2. (Switching' <=> Switching) /\ Last' = Last
    BY <2>1 DEF Switching, Last
  <2>3. Whole(timestamp)' /\ Backed(Last)' /\ Operations'
    BY <2>1, <2>2 DEF PubInv, Whole, Backed, Operations, FileIs, Pins
  <2> QED BY <2>1, <2>2, <2>3 DEF PubInv
<1> QED BY <1>1, <1>2, <1>3, <1>4 DEF PubNext

\* The invariant of the packer, at every moment of every publish and after one that died.
THEOREM PublishInvariant == PubSpec => []PubInv
<1>1. PubInit => PubInv
  BY InitKeeps
<1>2. PubInv /\ [PubNext]_pubVars => PubInv'
  BY StepKeeps
<1> QED BY <1>1, <1>2, PTL DEF PubSpec

---------------------------------------------------------------------------
(* The properties.                                                         *)

\* Publish, retention and every interrupted write: a channel's pointer always leads to a
\* served release of that channel with all its payloads.
THEOREM HeadsAlwaysInstallable == PubSpec => []HeadsInstallable
<1>1. ASSUME PubInv PROVE HeadsInstallable
  <2> DEFINE S == ServedTargets(timestamp)
  <2>1. HeadsIn(S) /\ PayloadsExact(S)
    BY <1>1 DEF PubInv, Good
  <2> HIDE DEF S
  <2>2. ASSUME NEW p \in Of("channels", S)
        PROVE  \E t \in Of("releases", S) :
                 t[2].version = p[2] /\ t[2].channel = p[1][2] /\ PayloadsOf(t[2]) \subseteq Paths(S)
    <3>1. PICK t \in Of("releases", S) : t[2].version = p[2] /\ t[2].channel = p[1][2]
      BY <2>1 DEF HeadsIn, Descs
    <3>2. \A q \in Payloads(t[2]) : q \in S
      BY <2>1 DEF PayloadsExact, Descs, Of
    <3>3. PayloadsOf(t[2]) \subseteq Paths(S)
      <4>1. SUFFICES ASSUME NEW f \in DOMAIN t[2].files
                     PROVE  PayloadPath(Line[t[2].version], t[2].files[f]) \in Paths(S)
        BY DEF PayloadsOf
      <4> DEFINE q == <<PayloadPath(Line[t[2].version], t[2].files[f]), t[2].files[f]>>
      <4>2. q \in S /\ q[1] = PayloadPath(Line[t[2].version], t[2].files[f])
        BY <3>2 DEF Payloads
      <4> HIDE DEF q
      <4> QED BY <4>2 DEF Paths
    <3> QED BY <3>1, <3>3
  <2> QED BY <2>2 DEF HeadsInstallable, S
<1> QED BY <1>1, PublishInvariant, PTL

\* The delegated roles a timestamp leads to carry a configured key, the one targets.json
\* delegates them to.
Signed(ts) ==
  ts.version # 0 =>
    \A role \in ServedRoles(ts) \cap Delegated :
      /\ ServedRole(ts, role).key \in Keys
      /\ <<role, ServedRole(ts, role).key>> \in ServedRole(ts, "targets").body

\* finalize and buildDelegations agree on every role as long as its key stays what it was.
LEMMA PublishSigns ==
  ASSUME \A a, b \in Keys : a = b, Documents(timestamp), Signed(timestamp),
         NEW r \in Releases, NEW t, NEW key \in Keys
  PROVE  Signed(StampFor(r, t, key))
<1> DEFINE ts == StampFor(r, t, key)
           next == RolesFor(r, t, key)
           keyring == resolveKeys(Touched(r), key)
<1>1. /\ ServedRoles(ts) = DOMAIN next /\ \A role : ServedRole(ts, role) = next[role]
  BY StampIs
<1>2. /\ DOMAIN next = Touched(r) \cup (ServedRoles(timestamp) \cap Delegated) \cup {"targets"}
      /\ \A role \in DOMAIN next : next[role].version \in Nat \ {0}
      /\ \A role \in (ServedRoles(timestamp) \cap Delegated) \ Touched(r) : next[role] = Loaded(role)
      /\ next["targets"].body = buildDelegations(keyring)
      /\ \A role \in Touched(r) : next[role] = Loaded(role) \/ next[role].key = key
  BY NextRolesAre
<1>3. Touched(r) \subseteq Delegated /\ "targets" \notin Delegated
  BY BlobsAre, NamesApart DEF Delegated
<1>4. \A role : Loaded(role).version # 0 <=> role \in ServedRoles(timestamp)
  BY LoadedIs
<1>5. \A role \in ServedRoles(timestamp) \cap Delegated : Loaded(role).key \in Keys
  BY DEF Signed, Loaded, ServedRoles
<1>6. DOMAIN keyring = Touched(r) /\ \A role \in Touched(r) : keyring[role] = key
  BY DEF resolveKeys
<1> HIDE DEF ts, next, keyring
<1>7. ASSUME NEW role \in Touched(r)
      PROVE  next[role].key = key /\ <<role, key>> \in buildDelegations(keyring)
  <2>1. next[role].key = key
    <3>1. CASE next[role] = Loaded(role)
      <4>1. role \in ServedRoles(timestamp) \cap Delegated
        BY <1>2, <1>3, <1>4, <3>1
      <4> QED BY <1>5, <3>1, <4>1
    <3> QED BY <1>2, <3>1
  <2>2. <<role, key>> \in buildDelegations(keyring)
    BY <1>6 DEF buildDelegations
  <2> QED BY <2>1, <2>2
<1>8. ASSUME NEW role \in (ServedRoles(timestamp) \cap Delegated) \ Touched(r)
      PROVE  next[role].key \in Keys /\ <<role, next[role].key>> \in buildDelegations(keyring)
  <2>1. next[role] = Loaded(role) /\ Loaded(role).key \in Keys
    BY <1>2, <1>5
  <2>2. <<role, Loaded(role).key>> \in buildDelegations(keyring)
    BY <1>6 DEF buildDelegations
  <2> QED BY <2>1, <2>2
<1>9. ASSUME NEW role \in DOMAIN next \cap Delegated
      PROVE  next[role].key \in Keys /\ <<role, next[role].key>> \in next["targets"].body
  <2>1. CASE role \in Touched(r)
    BY <1>2, <1>7, <2>1
  <2>2. CASE role \notin Touched(r)
    BY <1>2, <1>3, <1>8, <2>2
  <2> QED BY <2>1, <2>2
<1> QED BY <1>1, <1>9 DEF Signed, ts

\* What a client is served is whole at every moment, a dying publish included, if the key
\* of a delegated role never changes (Publish_rekey.cfg shows what happens if it does).
THEOREM ServedAlwaysWhole ==
  ASSUME \A a, b \in Keys : a = b
  PROVE  PubSpec => []ServedWhole
<1> DEFINE SignedInv == Signed(timestamp) /\ Signed(Last)
<1>1. PubInit => SignedInv
  <2> SUFFICES ASSUME PubInit PROVE SignedInv
    OBVIOUS
  <2>1. timestamp.version = 0 /\ job = {}
    BY DEF PubInit, NoDoc
  <2>2. Last = timestamp
    BY <2>1 DEF Last, Switching
  <2> QED BY <2>1, <2>2 DEF Signed
<1>2. PubInv /\ SignedInv /\ [PubNext]_pubVars => SignedInv'
  <2> SUFFICES ASSUME PubInv, SignedInv, [PubNext]_pubVars PROVE SignedInv'
    OBVIOUS
  <2>1. CASE \E r \in Releases, t \in now..MaxNow, key \in Keys : Publish(r, t, key)
    <3>1. PICK r \in Releases, t \in now..MaxNow, key \in Keys : Publish(r, t, key)
      BY <2>1
    <3>2. timestamp' = timestamp
      BY <3>1, PublishIs
    <3>3. Last' = StampFor(r, t, key)
      BY <3>1, PublishKeeps
    <3>4. Documents(timestamp)
      BY DEF PubInv
    <3>5. Signed(StampFor(r, t, key))
      BY <3>1, <3>4, PublishSigns
    <3> QED BY <3>2, <3>3, <3>5
  <2>2. CASE Write
    <3> DEFINE o == CHOOSE o \in job : Due(o)
    <3>1. job # {} /\ Operations
      BY <2>2 DEF Write, PubInv
    <3>2. o \in job /\ Due(o)
      BY <3>1, SomeDue
    <3>3. (WriteTarget(o) \/ WriteMeta(o) \/ PutTimestamp(o) \/ RemoveTarget(o)) /\ job' = job \ {o}
      BY <2>2 DEF Write
    <3> HIDE DEF o
    <3>4. CASE WriteTarget(o)
      BY <3>2, <3>3, <3>4, WriteTargetKeeps DEF WriteTarget
    <3>5. CASE WriteMeta(o)
      BY <3>2, <3>3, <3>5, WriteMetaKeeps DEF WriteMeta
    <3>6. CASE RemoveTarget(o)
      BY <3>2, <3>3, <3>6, RemoveTargetKeeps DEF RemoveTarget
    <3>7. CASE PutTimestamp(o)
      <4>1. timestamp' = Last /\ Last' = timestamp'
        <5>1. timestamp' = Last
          BY <3>2, <3>3, <3>7, PutTimestampKeeps
        <5>2. ~Switching'
          BY <3>1, <3>2, <3>3, <3>7 DEF Operations, Switching, PutTimestamp
        <5> QED BY <5>1, <5>2 DEF Last
      <4> QED BY <4>1
    <3> QED BY <3>3, <3>4, <3>5, <3>6, <3>7
  <2>3. CASE Abort
    BY <2>3 DEF Abort, Last, Switching
  <2>4. CASE UNCHANGED pubVars
    BY <2>4 DEF pubVars, Last, Switching
  <2> QED BY <2>1, <2>2, <2>3, <2>4 DEF PubNext
<1>3. PubInv /\ SignedInv => ServedWhole
  BY DEF PubInv, Whole, Signed, ServedWhole, Loadable
<1> QED BY <1>1, <1>2, <1>3, PublishInvariant, PTL DEF PubSpec

\* What clients rely on (module Repository): of all the packer's file operations only the
\* timestamp's changes what is served, and it does so by one whole release.
THEOREM PublishImplementsRepository == PubSpec => ImplementsRepository
<1>1. PubInit => Repo!RepoInit
  <2> SUFFICES ASSUME PubInit PROVE Repo!RepoInit
    OBVIOUS
  <2>1. timestamp.version = 0 /\ issued = {}
    BY DEF PubInit, NoDoc
  <2>2. ServedTargets(timestamp) = {}
    BY <2>1 DEF ServedTargets, ServedRoles
  <2> QED BY <2>1, <2>2 DEF Repo!RepoInit
<1>2. PubInv /\ PubInv' /\ [PubNext]_pubVars => [Repo!RepoNext]_Repo!repoVars
  <2> SUFFICES ASSUME PubInv, PubInv', [PubNext]_pubVars
               PROVE  Repo!RepoNext \/ UNCHANGED Repo!repoVars
    OBVIOUS
  <2>1. CASE timestamp' = timestamp /\ targets' = targets /\ issued' = issued
    BY <2>1 DEF Repo!repoVars
  <2>2. CASE \E r \in Releases, t \in now..MaxNow, key \in Keys : Publish(r, t, key)
    BY <2>1, <2>2, PublishIs
  <2>3. CASE Write
    <3> DEFINE o == CHOOSE o \in job : Due(o)
               x == <<o[2], o[3]>>
               S == ServedTargets(timestamp)
    <3>1. job # {} /\ Operations
      BY <2>3 DEF Write, PubInv
    <3>2. o \in job /\ Due(o)
      BY <3>1, SomeDue
    <3>3. (WriteTarget(o) \/ WriteMeta(o) \/ PutTimestamp(o) \/ RemoveTarget(o)) /\ job' = job \ {o}
      BY <2>3 DEF Write
    <3> HIDE DEF o
    <3>4. CASE WriteMeta(o)
      BY <2>1, <3>4 DEF WriteMeta
    <3>5. CASE WriteTarget(o)
      <4>1. targets' = targets \cup {x} /\ timestamp' = timestamp /\ issued' = issued
        BY <3>5 DEF WriteTarget
      <4>2. CASE x \in issued
        <5>1. targets' \cap issued' = (targets \cap issued) \cup {x}
          BY <4>1, <4>2
        <5>2. Repo!Upload(x)
          BY <4>1, <5>1 DEF Repo!Upload
        <5> QED BY <4>2, <5>2 DEF Repo!RepoNext
      <4>3. CASE x \notin issued
        <5>1. targets' \cap issued' = targets \cap issued
          BY <4>1, <4>3
        <5> QED BY <4>1, <5>1 DEF Repo!repoVars
      <4> QED BY <4>2, <4>3
    <3>6. CASE RemoveTarget(o)
      <4>1. targets' = targets \ {x} /\ timestamp' = timestamp /\ issued' = issued
        BY <3>6 DEF RemoveTarget
      <4>2. x \notin S
        BY <3>2, <3>3, <3>6, RemoveTargetKeeps
      <4>3. targets' \cap issued' = (targets \cap issued) \ {x}
        BY <4>1
      <4>4. CASE x \in targets \cap issued
        <5>1. Repo!Collect(x)
          BY <4>1, <4>3 DEF Repo!Collect
        <5> QED BY <4>2, <4>4, <5>1 DEF Repo!RepoNext
      <4>5. CASE x \notin targets \cap issued
        <5>1. targets' \cap issued' = targets \cap issued
          BY <4>3, <4>5
        <5> QED BY <4>1, <5>1 DEF Repo!repoVars
      <4> QED BY <4>4, <4>5
    <3>7. CASE PutTimestamp(o)
      <4> DEFINE T == ServedTargets(Last)
      <4>1. timestamp' = Last /\ Switching
        BY <3>2, <3>3, <3>7, PutTimestampKeeps
      <4>2. ServedTargets(timestamp)' = T
        BY <4>1
      <4>3. targets' = targets /\ issued' = issued \cup T
        BY <3>7, <4>1 DEF PutTimestamp
      <4>4. T \subseteq targets
        <5>1. Whole(timestamp)'
          BY DEF PubInv
        <5> QED BY <4>2, <4>3, <5>1 DEF Whole
      <4>5. Moves(S, issued, T)
        BY <4>1 DEF PubInv
      <4> HIDE DEF S, T
      <4>6. PICK r \in Releases : \E drop \in SUBSET Descs(S) :
              LET heads == {p \in Of("channels", S) : p[1] # PointerPath(r.channel)}
                             \cup {<<PointerPath(r.channel), r.version>>}
                  descs == (Descs(S) \ drop) \cup {Descriptor(r)}
              IN  /\ \A d \in drop : d.version \notin {p[2] : p \in heads}
                  /\ \A d \in Descs(issued) : d.version = r.version => d = Descriptor(r)
                  /\ Of("channels", T) = heads
                  /\ Descs(T) = descs
                  /\ Of("payloads", T) = UNION {Payloads(d) : d \in descs}
                  /\ \A t \in Of("policies", T) : t[1][2] \in {d.version : d \in descs}
                  /\ \A t \in Of("patches", T) :
                       \/ t \in S
                       \/ <<t[1][3], t[1][4]>> \in Smaller /\ t[1][4] \in {r.files[f] : f \in DOMAIN r.files}
        BY <4>5 DEF Moves
      <4>7. PICK drop \in SUBSET Descs(S) :
              LET heads == {p \in Of("channels", S) : p[1] # PointerPath(r.channel)}
                             \cup {<<PointerPath(r.channel), r.version>>}
                  descs == (Descs(S) \ drop) \cup {Descriptor(r)}
              IN  /\ \A d \in drop : d.version \notin {p[2] : p \in heads}
                  /\ \A d \in Descs(issued) : d.version = r.version => d = Descriptor(r)
                  /\ Of("channels", T) = heads
                  /\ Descs(T) = descs
                  /\ Of("payloads", T) = UNION {Payloads(d) : d \in descs}
                  /\ \A t \in Of("policies", T) : t[1][2] \in {d.version : d \in descs}
                  /\ \A t \in Of("patches", T) :
                       \/ t \in S
                       \/ <<t[1][3], t[1][4]>> \in Smaller /\ t[1][4] \in {r.files[f] : f \in DOMAIN r.files}
        BY <4>6
      <4>8. \A U : Repo!DescriptorsIn(U) = Descs(U)
        BY DEF Repo!DescriptorsIn, Repo!Of, Descs, Of, IsKind
      <4>9. \A k, U : Repo!Of(k, U) = Of(k, U)
        BY DEF Repo!Of, Of, IsKind
      <4>10. \A d : Repo!PayloadsOf(d) = Payloads(d)
        BY DEF Repo!PayloadsOf, Repo!PayloadPath, Payloads, PayloadPath
      <4>11. Repo!PointerPath(r.channel) = PointerPath(r.channel) /\ Repo!Descriptor(r) = Descriptor(r)
        BY DEF Repo!PointerPath, Repo!Descriptor, PointerPath, Descriptor
      <4>12. targets' \cap issued' = (targets \cap issued) \cup T
        BY <4>3, <4>4
      <4>13. Repo!Release(r, drop)
        BY <4>2, <4>3, <4>7, <4>8, <4>9, <4>10, <4>11, <4>12 DEF Repo!Release, S
      <4>14. drop \in SUBSET Repo!DescriptorsIn(ServedTargets(timestamp))
        BY <4>7, <4>8 DEF S
      <4> QED BY <4>13, <4>14 DEF Repo!RepoNext
    <3> QED BY <3>3, <3>4, <3>5, <3>6, <3>7
  <2>4. CASE Abort
    BY <2>1, <2>4 DEF Abort
  <2>5. CASE UNCHANGED pubVars
    BY <2>1, <2>5 DEF pubVars
  <2> QED BY <2>2, <2>3, <2>4, <2>5 DEF PubNext
<1> QED BY <1>1, <1>2, PublishInvariant, PTL DEF PubSpec, ImplementsRepository, Repo!RepoSpec

=============================================================================
