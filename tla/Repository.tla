----------------------------- MODULE Repository -----------------------------
(***************************************************************************)
(* What a repository promises the clients that read it, and nothing of how *)
(* the packer achieves it (module Publish, which is shown to implement     *)
(* this): the set of signed targets that is served changes only from one   *)
(* whole release set to the next, every target it names can be fetched,    *)
(* and what was dropped from it is deleted some time afterwards.           *)
(***************************************************************************)
EXTENDS Naturals, FiniteSets

CONSTANTS
  Channels,    \* the channels of the repository
  Line,        \* the release line of each version
  Releases,    \* what an operator may publish
  Smaller      \* <<from, to>>: a patch between the two contents is worth publishing

VARIABLES
  served,      \* the signed targets a refresh leads to: <<path, data>>
  files,       \* the target files that can be fetched, of those ever served
  ever         \* every target that was ever served

repoVars == <<served, files, ever>>

PointerPath(ch)        == <<"channels", ch>>
DescriptorPath(v)      == <<"releases", v>>
PolicyPath(v)          == <<"policies", v>>
PayloadPath(l, h)      == <<"payloads", l, h>>
PatchPath(l, from, to) == <<"patches", l, from, to>>

\* The targets under one kind of path in a set of <<path, data>>.
Of(kind, ts) == {t \in ts : t[1][1] = kind}

Paths(ts) == {t[1] : t \in ts}

Descriptor(r) == [version |-> r.version, channel |-> r.channel, files |-> r.files,
                  minFrom |-> r.minFrom, minClient |-> r.minClient]

DescriptorsIn(ts) == {t[2] : t \in Of("releases", ts)}

\* The payload targets a descriptor names.
PayloadsOf(d) == {<<PayloadPath(Line[d.version], d.files[f]), d.files[f]>> : f \in DOMAIN d.files}

\* One publish as a client sees it: the channel's pointer moves to the release, the
\* releases in drop leave -- none of them a channel's head, nor the new one -- the
\* payloads are those the remaining descriptors name, and a patch or a policy
\* outlives neither what it belongs to nor the publish before it.
Release(r, drop) ==
  LET heads == {p \in Of("channels", served) : p[1] # PointerPath(r.channel)}
                 \cup {<<PointerPath(r.channel), r.version>>}
      descs == (DescriptorsIn(served) \ drop) \cup {Descriptor(r)}
  IN  /\ drop \subseteq DescriptorsIn(served)
      /\ \A d \in drop : d.version \notin {p[2] : p \in heads}
      /\ \A d \in DescriptorsIn(ever) : d.version = r.version => d = Descriptor(r)
      /\ Of("channels", served') = heads
      /\ DescriptorsIn(served') = descs
      /\ Of("payloads", served') = UNION {PayloadsOf(d) : d \in descs}
      /\ \A t \in Of("policies", served') : t[1][2] \in {d.version : d \in descs}
      /\ \A t \in Of("patches", served') :
           \/ t \in served
           \/ <<t[1][3], t[1][4]>> \in Smaller /\ t[1][4] \in {r.files[f] : f \in DOMAIN r.files}
      /\ files' = files \cup served'
      /\ ever' = ever \cup served'

\* A file that was served before is uploaded again, ahead of a release that has it.
Upload(t) ==
  /\ files' = files \cup {t}
  /\ UNCHANGED <<served, ever>>

\* A file nothing served names is deleted.
Collect(t) ==
  /\ files' = files \ {t}
  /\ UNCHANGED <<served, ever>>

RepoInit == served = {} /\ files = {} /\ ever = {}

RepoNext ==
  \/ \E r \in Releases : \E drop \in SUBSET DescriptorsIn(served) : Release(r, drop)
  \/ \E t \in ever : Upload(t)
  \/ \E t \in files \ served : Collect(t)

\* The repository as a client may rely on it.
RepoSpec == RepoInit /\ [][RepoNext]_repoVars
=============================================================================
