---------------------------- MODULE AtomicUpdate ----------------------------
(***************************************************************************)
(* What an install root promises its user, without journal, directories or *)
(* processes: one version is live; an update either ends with its target   *)
(* live or leaves what was live before; and the only version the root ever *)
(* goes back to outside an update is the fallback of the live version,     *)
(* which was live when the update began or is the fallback it had then.    *)
(***************************************************************************)
CONSTANTS Versions, None

VARIABLES
    live,      \* the version that runs
    goal,      \* the last update: where it starts and where it goes
    phase,     \* whether it is pending, and what became of it
    fallback   \* the version the root may return to

Phases == {"none", "pending", "committed", "abandoned"}
Pending == phase = "pending"

Init ==
    /\ live = None /\ goal = [from |-> None, to |-> None]
    /\ phase = "none" /\ fallback = None

\* The next update is prepared, and with it the version to return to.
Arm ==
    /\ fallback' \in {live, fallback, None}
    /\ UNCHANGED <<live, goal, phase>>

\* An update that waits, not yet switched to, may be replaced by another one.
Begin(v) ==
    /\ Pending => live = goal.from
    /\ v # live
    /\ goal' = [from |-> live, to |-> v] /\ phase' = "pending"
    /\ UNCHANGED <<live, fallback>>

Switch ==
    /\ Pending /\ live = goal.from
    /\ live' = goal.to
    /\ UNCHANGED <<goal, phase, fallback>>

Undo ==
    /\ Pending /\ live = goal.to
    /\ live' = goal.from
    /\ UNCHANGED <<goal, phase, fallback>>

\* An update ends where it wanted to go, or where it came from.
Commit ==
    /\ Pending /\ live = goal.to
    /\ phase' = "committed"
    /\ UNCHANGED <<live, goal, fallback>>

Abandon ==
    /\ Pending /\ live = goal.from
    /\ phase' = "abandoned"
    /\ UNCHANGED <<live, goal, fallback>>

\* Outside an update the root only ever goes back, and only to its fallback.
Revert ==
    /\ ~Pending /\ fallback # None
    /\ live' = fallback
    /\ UNCHANGED <<goal, phase, fallback>>

Next ==
    \/ Arm \/ Switch \/ Undo \/ Commit \/ Abandon \/ Revert
    \/ \E v \in Versions : Begin(v)

Spec == Init /\ [][Next]_<<live, goal, phase, fallback>>

=============================================================================
