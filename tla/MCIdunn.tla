------------------------------- MODULE MCIdunn -------------------------------
(***************************************************************************)
(* Instances of Idunn for TLC.                                             *)
(***************************************************************************)
EXTENDS IdunnInvariant, TLC

\* Every release on probation for one start; none on probation.
MCAttempts == [v \in 1..MaxVersion |-> 1]
MCNoProbation == [v \in 1..MaxVersion |-> 0]

\* A release in the middle that its publisher puts on no probation.
MCMixed == [v \in 1..MaxVersion |-> IF v = MaxVersion THEN 0 ELSE 1]

MCShips == {2}

\* Errors at every step that can report one.
MCAllFail == {"recover", "ambiguous", "undo", "restore", "rbhook", "rmtree", "rbrecord",
              "clean", "complete", "swapped", "install", "commit", "settle",
              "migrate", "migrated", "swap", "gc", "preflight", "arm", "begin",
              "stage", "place", "staged", "quiesce", "defer", "verify", "promote",
              "sweep", "resumelock", "resume", "probation", "count", "revert",
              "fallback", "rvswap", "rvhook", "rvinstall", "rvdone", "rvremove",
              "self", "selfdrop"}

\* Errors everywhere but after the SWAPPED record of an Apply.
MCFailBeforeSwapped == MCAllFail \ {"swapped", "verify", "install", "commit"}

=============================================================================
