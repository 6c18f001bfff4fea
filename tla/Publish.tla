------------------------------- MODULE Publish -------------------------------
(***************************************************************************)
(* The packer's publish command (internal/packer): it loads the repository *)
(* that is there, builds the targets of one release, merges them into the  *)
(* delegated roles, retires what no retained release needs, and writes the *)
(* files one by one in the order a client may observe them.  There is no   *)
(* transaction: a publish that dies leaves whatever it has written, and    *)
(* what clients see is decided by timestamp.json alone.                    *)
(*                                                                         *)
(* A signed document is a record; a document that pins the exact bytes of  *)
(* another (metaFileFor) holds the pinned record itself.  Versions are     *)
(* numbers in their SemVer order, a payload is known by its content, and   *)
(* one platform stands for all: they share roles and nothing else.         *)
(***************************************************************************)
EXTENDS Naturals, FiniteSets

CONSTANTS
  Channels,      \* the channels, each a delegated role of its own
  Lines,         \* the release lines (majors), each a delegated role of its own
  Line,          \* the release line of each version
  Releases,      \* the pack.yaml files an operator may publish
  Keys,          \* the keys a delegated role may be configured with
  Smaller,       \* <<from, to>>: the patch is small enough to be worth publishing
  Against,       \* delta.patch_against
  Keep,          \* retention.keep; 0 stands for no retention block
  MaxNow,        \* bound: reference times
  MaxPublish     \* bound: publishes in one behaviour

ASSUME PublishAssumption ==
  /\ Keep \in Nat /\ Against \in Nat
  /\ \A r \in Releases : /\ r.version \in Nat /\ Line[r.version] \in Lines
                         /\ r.channel \in Channels

\* No channel has the name of a top-level document.  (channelRe does not refuse one: a
\* channel named "targets" would share the file of targets.json.)
ASSUME NamesApart == (Channels \cup Lines) \cap {"targets", "snapshot"} = {}

VARIABLES
  targets,    \* the files under targets/: <<path, data>>, named after both
  meta,       \* the files <version>.<role>.json under metadata/: <<role, document>>
  timestamp,  \* metadata/timestamp.json
  job,        \* the file operations the running publish has left: <<op, name, content>>
  now,        \* the reference time of the last publish
  runs,       \* publishes so far
  issued      \* history: every target a served timestamp has ever named

pubVars == <<targets, meta, timestamp, job, now, runs, issued>>

Delegated == Channels \cup Lines

\* What stands where there is no document yet.
NoDoc == [version |-> 0]

PointerPath(ch)      == <<"channels", ch>>
DescriptorPath(v)    == <<"releases", v>>
PolicyPath(v)        == <<"policies", v>>
PayloadPath(l, h)    == <<"payloads", l, h>>
PatchPath(l, from, to) == <<"patches", l, from, to>>

IsKind(kind, t) == t[1][1] = kind

\* The targets under one kind of path in a set of <<path, data>>.
Of(kind, ts) == {t \in ts : IsKind(kind, t)}

Paths(ts) == {t[1] : t \in ts}

\* The role that signs for a target: the channel's for a pointer, the line's else.
RoleOf(path) == CASE path[1] = "channels" -> path[2]
                  [] path[1] \in {"releases", "policies"} -> Line[path[2]]
                  [] OTHER -> path[2]

\* The descriptor of a release: what a client learns of it.
Descriptor(r) == [version |-> r.version, channel |-> r.channel,
                  files |-> r.files, minFrom |-> r.minFrom, minClient |-> r.minClient]

\* The payload targets a descriptor names.
PayloadsOf(d) == {PayloadPath(Line[d.version], d.files[f]) : f \in DOMAIN d.files}

---------------------------------------------------------------------------
(* Loading the repository.                                                 *)

ServedSnapshot(ts) == ts.body
ServedRole(ts, role) == ts.body.body[role]

\* The roles the served snapshot names.
ServedRoles(ts) == IF ts.version = 0 THEN {} ELSE DOMAIN ts.body.body

\* The targets the served metadata names, in all its roles.
ServedTargets(ts) ==
  UNION {ServedRole(ts, role).body : role \in ServedRoles(ts) \cap Delegated}

FileIs(role, doc) == <<role, doc>> \in meta

\* What loadState insists on before anything is built: from timestamp.json down
\* every document is there with the bytes the one above it pins, and every
\* delegated role is signed by the key targets.json delegates it to.  A repository
\* without a timestamp has never been published to and is accepted.
Loadable(ts) ==
  ts.version # 0 =>
    /\ FileIs("snapshot", ServedSnapshot(ts))
    /\ \A role \in ServedRoles(ts) : FileIs(role, ServedRole(ts, role))
    /\ \A role \in ServedRoles(ts) \cap Delegated :
         <<role, ServedRole(ts, role).key>> \in ServedRole(ts, "targets").body

\* The document of a role in the repository that was loaded.
Loaded(role) == IF role \in ServedRoles(timestamp) THEN ServedRole(timestamp, role)
                ELSE NoDoc

LoadedTargets(role) == IF Loaded(role).version = 0 THEN {} ELSE Loaded(role).body

---------------------------------------------------------------------------
(* Building the targets of one release.                                    *)

\* The refusals of a configuration: a channel named as a release line's role would give
\* each the other's reach, retention keeps at least two, and a release has files.
validate(r) ==
  /\ r.channel \notin Lines
  /\ Keep # 0 => Keep >= 2
  /\ DOMAIN r.files # {}

\* Two destinations with the same content would be one target named twice.
Buildable(r) == \A f, g \in DOMAIN r.files : r.files[f] = r.files[g] => f = g

\* The payloads, the descriptor, the policy where there is one, and the pointer.
\* Only the pointer may change at a path that is already published.
buildRelease(r) ==
  {<<PayloadPath(Line[r.version], r.files[f]), r.files[f]>> : f \in DOMAIN r.files}
    \cup {<<DescriptorPath(r.version), Descriptor(r)>>}
    \cup (IF r.policy THEN {<<PolicyPath(r.version), "policy">>} ELSE {})
    \cup {<<PointerPath(r.channel), r.version>>}

\* The newest n descriptors the served roles hold below a version, of any channel.
previousReleases(v, n) ==
  LET older == {t[2] : t \in {x \in Of("releases", ServedTargets(timestamp)) :
                                x[2].version < v}}
  IN  {d \in older : Cardinality({e \in older : e.version > d.version}) < n}

\* A patch for every destination whose content changed since one of them, where the
\* base is still on disk and the patch is worth its size.
buildPatches(r) ==
  LET bases == {d \in previousReleases(r.version, Against) :
                  <<DescriptorPath(d.version), d>> \in targets}
      patch(d, f) == <<PatchPath(Line[r.version], d.files[f], r.files[f]), "patch">>
      from(d) == {f \in DOMAIN r.files \cap DOMAIN d.files :
                    /\ d.files[f] # r.files[f]
                    /\ <<PayloadPath(Line[d.version], d.files[f]), d.files[f]>> \in targets
                    /\ <<d.files[f], r.files[f]>> \in Smaller}
  IN  UNION {{patch(d, f) : f \in from(d)} : d \in bases}

\* Mutant of Merged: the role is built from this release alone.
Rebuilt(role, blobs) == {b \in blobs : RoleOf(b[1]) = role}

\* The merged view of one role: what it held, with the new targets over it.
Merged(role, blobs) ==
  LET new == {b \in blobs : RoleOf(b[1]) = role}
  IN  {t \in LoadedTargets(role) : t[1] \notin Paths(new)} \cup new

\* Mutant of MergeAllowed: whatever is new takes the path.
MergeAnything(blobs) == TRUE

\* A published payload, descriptor, policy or patch never changes its content.
MergeAllowed(blobs) ==
  \A b \in blobs : \A t \in LoadedTargets(RoleOf(b[1])) :
    (t[1] = b[1] /\ ~IsKind("channels", b)) => t[2] = b[2]

---------------------------------------------------------------------------
(* Retention.                                                              *)

\* The descriptors of the line beyond the newest Keep.
window(line) ==
  LET ds == Of("releases", line)
  IN  {t \in ds : Cardinality({u \in ds : u[2].version > t[2].version}) >= Keep}

\* No channel's head may be dropped, the one this publish makes included.
checkHeads(all, dropped) ==
  \A p \in Of("channels", all) : DescriptorPath(p[2]) \notin Paths(dropped)

\* The content every retained descriptor of any role still names, by its target.
RefTargets(all, dropped) ==
  UNION {PayloadsOf(t[2]) : t \in Of("releases", all) \ dropped}

\* What leaves the line: the descriptors outside the window, their policies, the
\* payloads no retained descriptor names, and the patches neither of whose ends is.
retire(all, line) ==
  LET descs == window(line)
      refs == RefTargets(all, descs)
      hashes == {p[3] : p \in refs}
  IN  descs
        \cup {t \in Of("policies", line) :
                \/ DescriptorPath(t[1][2]) \in Paths(descs)
                \/ DescriptorPath(t[1][2]) \notin Paths(line)}
        \cup {t \in Of("payloads", line) : t[1] \notin refs}
        \cup {t \in Of("patches", line) : t[1][3] \notin hashes /\ t[1][4] \notin hashes}

\* The refusals of retention: a head in the way, or something it would remove that
\* is needed, or was emitted by this very publish.
RetireAllowed(all, dropped, blobs) ==
  /\ checkHeads(all, Of("releases", dropped))
  /\ Paths(dropped) \cap (RefTargets(all, Of("releases", dropped)) \cup Paths(blobs)) = {}

---------------------------------------------------------------------------
(* Signing, and the order of the writes.                                   *)

\* The next document of a role.  Content and expiry as they were keep version,
\* bytes and signature; anything else is signed at the next version.
finalize(old, body, exp, key) ==
  IF old.version # 0 /\ old.body = body /\ old.exp = exp THEN old
  ELSE [version |-> old.version + 1, exp |-> exp, body |-> body, key |-> key]

\* The keys of the delegated roles a publish touches; all of them, or it does not start.
resolveKeys(roles, key) == [role \in roles |-> key]

\* The delegations of targets.json: a touched role gets the key at hand, any other
\* keeps the key on record.
buildDelegations(keyring) ==
  {<<role, keyring[role]>> : role \in DOMAIN keyring}
    \cup {<<role, Loaded(role).key>> :
            role \in (ServedRoles(timestamp) \cap Delegated) \ DOMAIN keyring}

\* The roles of the next snapshot: the touched ones are finalized, the others reused
\* verbatim, and targets.json is rebuilt over all of them.
NextRoles(keyring, body, exp) ==
  [role \in DOMAIN keyring \cup (ServedRoles(timestamp) \cap Delegated) \cup {"targets"} |->
     CASE role \in DOMAIN keyring -> finalize(Loaded(role), body[role], exp, keyring[role])
       [] role = "targets"        -> finalize(Loaded(role), buildDelegations(keyring), exp, "root")
       [] OTHER                   -> Loaded(role)]

WriteTargets(blobs) == {<<"target", b[1], b[2]>> : b \in blobs}

\* Unchanged documents are not written.
WriteRoles(next) ==
  {<<IF role = "targets" THEN "targets" ELSE "role", role, next[role]>> :
     role \in {x \in DOMAIN next : next[x] # Loaded(x)}}

WriteSnapshot(snap) ==
  IF timestamp.version # 0 /\ snap = ServedSnapshot(timestamp) THEN {}
  ELSE {<<"snapshot", "snapshot", snap>>}

WriteTimestamp(ts) ==
  IF ts = timestamp THEN {} ELSE {<<"timestamp", "timestamp", ts>>}

removeRetired(dropped) == {<<"remove", t[1], t[2]>> : t \in dropped}

\* Mutant of WriteOrder: the metadata goes first.
TargetsLast == [role |-> 1, targets |-> 2, snapshot |-> 3, timestamp |-> 4,
                target |-> 5, remove |-> 6]

\* Targets, delegated roles and targets.json, snapshot, timestamp, and only then the
\* files behind what was retired.
WriteOrder == [target |-> 1, role |-> 2, targets |-> 3, snapshot |-> 4,
               timestamp |-> 5, remove |-> 6]

\* No operation of an earlier stage is left.  No property depends on the order inside
\* one stage.
Due(o) == \A other \in job : WriteOrder[o[1]] <= WriteOrder[other[1]]

\* One publish up to its first write.  A refusal anywhere leaves the repository as
\* it is and is no step.
Publish(r, t, key) ==
  LET blobs == buildRelease(r) \cup buildPatches(r)
      line == Line[r.version]
      touched == {r.channel, line}
      merged == [role \in touched |-> Merged(role, blobs)]
      all == UNION {IF role \in touched THEN merged[role] ELSE LoadedTargets(role) :
                      role \in Delegated}
      dropped == IF Keep = 0 THEN {} ELSE retire(all, merged[line])
      body == [role \in touched |-> merged[role] \ dropped]
      next == NextRoles(resolveKeys(touched, key), body, t)
      oldSnap == IF timestamp.version = 0 THEN NoDoc ELSE ServedSnapshot(timestamp)
      snap == finalize(oldSnap, next, t, "root")
      ts == finalize(timestamp, snap, t, "root")
  IN  /\ job = {}
      /\ runs < MaxPublish
      /\ validate(r)
      /\ Loadable(timestamp)
      /\ Buildable(r)
      /\ MergeAllowed(blobs)
      /\ RetireAllowed(all, dropped, blobs)
      /\ job' = WriteTargets(blobs) \cup WriteRoles(next) \cup WriteSnapshot(snap)
                  \cup WriteTimestamp(ts) \cup removeRetired(dropped)
      /\ now' = t
      /\ runs' = runs + 1
      /\ UNCHANGED <<targets, meta, timestamp, issued>>

\* writeFile: a temporary file takes the name, so a reader sees the old file or the
\* whole new one.
WriteTarget(o) ==
  /\ o[1] = "target"
  /\ targets' = targets \cup {<<o[2], o[3]>>}
  /\ UNCHANGED <<meta, timestamp, issued>>

WriteMeta(o) ==
  /\ o[1] \in {"role", "targets", "snapshot"}
  /\ meta' = {f \in meta : f[1] = o[2] => f[2].version # o[3].version} \cup {<<o[2], o[3]>>}
  /\ UNCHANGED <<targets, timestamp, issued>>

PutTimestamp(o) ==
  /\ o[1] = "timestamp"
  /\ timestamp' = o[3]
  /\ issued' = issued \cup ServedTargets(o[3])
  /\ UNCHANGED <<targets, meta>>

RemoveTarget(o) ==
  /\ o[1] = "remove"
  /\ targets' = targets \ {<<o[2], o[3]>>}
  /\ UNCHANGED <<meta, timestamp, issued>>

\* The running publish performs its next file operation.
Write ==
  /\ job # {}
  /\ LET o == CHOOSE o \in job : Due(o)
     IN  /\ WriteTarget(o) \/ WriteMeta(o) \/ PutTimestamp(o) \/ RemoveTarget(o)
         /\ job' = job \ {o}
  /\ UNCHANGED <<now, runs>>

\* The publish dies, or a write fails and it stops: nothing is undone.
Abort ==
  /\ job # {}
  /\ job' = {}
  /\ UNCHANGED <<targets, meta, timestamp, now, runs, issued>>

PubInit ==
  /\ targets = {} /\ meta = {} /\ job = {} /\ now = 0 /\ runs = 0 /\ issued = {}
  /\ timestamp = NoDoc

PubNext ==
  \/ \E r \in Releases, t \in now..MaxNow, key \in Keys : Publish(r, t, key)
  \/ Write
  \/ Abort

PubSpec == PubInit /\ [][PubNext]_pubVars

---------------------------------------------------------------------------
(* Properties.                                                             *)

\* Whatever a client is served is whole: at every moment, in the middle of a publish
\* and after one that died, timestamp.json leads to documents that are there with
\* the bytes pinned for them and signed by the key delegated to, and every target
\* they name is on disk.  It is also what lets the next publish start (loadState).
ServedWhole ==
  /\ Loadable(timestamp)
  /\ ServedTargets(timestamp) \subseteq targets

\* Every channel a client can follow leads to a release it can install: the
\* descriptor the pointer names is served in its line's role and so is every payload
\* it lists, whatever retention removed for other channels' sake.
HeadsInstallable ==
  \A p \in Of("channels", ServedTargets(timestamp)) :
    \E t \in Of("releases", ServedTargets(timestamp)) :
      /\ t[2].version = p[2]
      /\ t[2].channel = p[1][2]
      /\ PayloadsOf(t[2]) \subseteq Paths(ServedTargets(timestamp))

\* What clients rely on (module Repository): the served set changes from one whole
\* release set to the next although the packer writes a dozen files in between,
\* may die after any of them, and starts again over what it left.
Repo == INSTANCE Repository WITH served <- ServedTargets(timestamp),
                                 files  <- targets \cap issued,
                                 ever   <- issued

ImplementsRepository == Repo!RepoSpec
=============================================================================
