--------------------------- MODULE MCCaptureBatch ---------------------------
(***************************************************************************)
(* Instances of CaptureBatch for TLC, explored side by side: the variable  *)
(* scene says which instance a behaviour belongs to.                       *)
(*   races   two slots, zombies, revocations and Clear (the constants of   *)
(*           the configuration)                                            *)
(*   window  the same with windows of two messages                         *)
(*   valve   one slot and every way a window fails, until it is given up   *)
(*   moves   one slot, fair scheduling, cutovers to the resident and back  *)
(***************************************************************************)
EXTENDS CaptureBatch

CONSTANTS wa, wb

VARIABLE scene

TwoWorkers == {wa, wb}
RaceFaults == {"optout", "halt", "clear", "crash", "lapse", "stumble", "retire"}

Wide == INSTANCE CaptureBatch WITH
    Window <- 2, Faults <- {"optout", "halt", "clear", "crash"}
Valve == INSTANCE CaptureBatch WITH
    Workers <- {wa}, MaxSeq <- 1, Kinds <- {"parse", "account", "other"},
    TransientAfter <- 3, MaxAttempts <- 0, Faults <- {"account", "stumble", "crash"}, MaxFails <- 9
Moves == INSTANCE CaptureBatch WITH
    Workers <- {wa}, Kinds <- {"parse", "other"}, TransientAfter <- 3,
    Faults <- {"optout", "clear", "cutover", "age", "lapse"}

MCInit ==
    \/ scene = "races" /\ Init
    \/ scene = "window" /\ Wide!Init
    \/ scene = "valve" /\ Valve!Init
    \/ scene = "moves" /\ Moves!Init

MCNext ==
    /\ UNCHANGED scene
    /\ \/ scene = "races" /\ Next
       \/ scene = "window" /\ Wide!Next
       \/ scene = "valve" /\ Valve!Next
       \/ scene = "moves" /\ Moves!Next

Moving(A) == scene = "moves" /\ A

\* The fairness of FairSpec, for the scene that has a liveness property.
MCSpec ==
    /\ MCInit /\ [][MCNext]_<<vars, scene>>
    /\ WF_vars(Moving(Moves!Turn(wa)))
    /\ WF_vars(Moving(Moves!Look)) /\ WF_vars(Moving(Moves!Enqueue))
    /\ WF_vars(Moving(Moves!BackoffOver)) /\ WF_vars(Moving(Moves!Lapse))
    /\ WF_vars(Moving(Moves!Reap))

-----------------------------------------------------------------------------
\* NothingStuck under the fairness of its scene.
NothingStaysStuck == scene = "moves" => Moves!NothingStuck

=============================================================================
