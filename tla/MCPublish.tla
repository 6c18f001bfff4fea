----------------------------- MODULE MCPublish -----------------------------
(***************************************************************************)
(* Publish for TLC: two channels and two release lines.  Version 11 comes  *)
(* with two contents, 14 brings back the content of 11, 22 names one       *)
(* content twice, and the channels take turns in both lines.               *)
(***************************************************************************)
EXTENDS Publish

Pack(v, ch, fs, p) ==
  [version |-> v, channel |-> ch, files |-> fs, policy |-> p, minFrom |-> 0, minClient |-> 0]

MCReleases ==
  {Pack(11, "stable", [app |-> "a"], TRUE), Pack(11, "stable", [app |-> "b"], FALSE),
   Pack(13, "beta", [app |-> "c"], FALSE), Pack(14, "stable", [app |-> "a"], FALSE),
   Pack(21, "beta", [app |-> "c"], FALSE), Pack(22, "stable", [app |-> "c", lib |-> "c"], FALSE)}

MCLine == [v \in {11, 13, 14, 21, 22} |-> IF v > 20 THEN "v2" ELSE "v1"]
MCSmaller == {<<"a", "b">>, <<"b", "c">>, <<"b", "a">>}
=============================================================================
