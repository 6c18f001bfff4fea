----------------------------- MODULE MCDelivery -----------------------------
(***************************************************************************)
(* A client at 1.1, or with nothing installed, of a repository with 1.1    *)
(* and 1.2.  1.4 asks for 1.2 or newer, so it is reached through 1.2 or    *)
(* 1.3; 1.3 may be a beta, and 1.4 may ask for a newer client.             *)
(***************************************************************************)
EXTENDS Delivery

MCRelease(v, ch, content, from, client) ==
  [version |-> v, channel |-> ch, files |-> [app |-> content], policy |-> FALSE,
   minFrom |-> from, minClient |-> client]

MCReleases ==
  {MCRelease(11, "stable", "a", 0, 0), MCRelease(12, "stable", "b", 0, 0),
   MCRelease(13, "stable", "c", 0, 0), MCRelease(13, "beta", "c", 0, 0),
   MCRelease(14, "stable", "d", 12, 0), MCRelease(14, "stable", "d", 12, 2)}

MCBefore == {r \in MCReleases : r.version \in {11, 12}}
MCLine == [v \in 11..14 |-> "v1"]

\* No patch from 1.1 to 1.3, nor across two releases: those are made of two.
MCSmaller == {<<"a", "b">>, <<"b", "c">>, <<"c", "d">>}

\* The file as signed, and another one under the same name.
MCReps == {[id |-> "good", len |-> 2, etag |-> "g"],
           [id |-> "other", len |-> 2, etag |-> "o"]}
=============================================================================
