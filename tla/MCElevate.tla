------------------------------ MODULE MCElevate -----------------------------
(***************************************************************************)
(* Elevate for TLC: the superuser's process asks for the maintained root   *)
(* on the helper's channel; an ordinary user's also for a channel and a    *)
(* root that are not the helper's.  An administrator may make an object    *)
(* writable by everyone.                                                   *)
(***************************************************************************)
EXTENDS Elevate

MCWants ==
  0 :> {<<"app", "stable", "service">>}
  @@ 1 :> {<<"app", "stable", "process">>, <<"app", "beta", "service">>, <<"other", "beta", "service">>}
MCModes == {[Secure EXCEPT !.write = TRUE]}
=============================================================================
