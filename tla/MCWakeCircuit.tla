--------------------------- MODULE MCWakeCircuit ---------------------------
(***************************************************************************)
(* Instances of WakeCircuit for TLC, explored side by side: the variable   *)
(* scene says which one a behaviour is about.                              *)
(*   earned   failing turns of both wake lanes, resets and delayed         *)
(*            publishers (the constants of the configuration)              *)
(*   slots    two schedulers that race for the heartbeat slot              *)
(*   beating  one scheduler under fair ticks, turns and clocks             *)
(***************************************************************************)
EXTENDS WakeCircuit

CONSTANTS sa, sb

VARIABLE scene

Slots == INSTANCE WakeCircuit WITH
    Schedulers <- {sa, sb}, Threshold <- 2, MaxResets <- 0, Outcomes <- {"silent", "other"},
    Faults <- {"settings", "gate", "crash"}, MaxFaults <- 2
Beating == INSTANCE WakeCircuit WITH
    Threshold <- 2, MaxResets <- 0, Outcomes <- {"reply", "targeted"},
    Faults <- {"crash", "gate", "lapse", "noreset"}, MaxFaults <- 1

MCInit ==
    \/ scene = "earned" /\ Init
    \/ scene = "slots" /\ Slots!Init
    \/ scene = "beating" /\ Beating!Init

MCNext ==
    /\ UNCHANGED scene
    /\ \/ scene = "earned" /\ Next
       \/ scene = "slots" /\ Slots!Next
       \/ scene = "beating" /\ Beating!Next

MCVars == <<scene, vars>>
Beats(A) == scene = "beating" /\ A

\* The fairness of FairSpec, for the scene with a liveness property.
MCSpec ==
    /\ MCInit /\ [][MCNext]_MCVars
    /\ WF_vars(Beats(Beating!TickStep(sa))) /\ SF_vars(Beats(Beating!Look(sa)))
    /\ \A l \in Lanes : WF_vars(Beats(Beating!TurnStep(l)))
    /\ WF_vars(Beats(Beating!SlotComesDue))
    /\ WF_vars(Beats(Beating!RowComesDue))
    /\ WF_vars(Beats(Beating!CooldownEnds))
    /\ WF_vars(Beats(Beating!BackoffEnds))

-----------------------------------------------------------------------------
\* While the circuit stays closed and the gate allows it, no cooldown, backoff,
\* lost slot or dead tick ends the heartbeats.
HeartbeatsKeepComing ==
    <>[](scene = "beating" /\ ~row.open /\ allowed) => []<>(job["heartbeat"].st = "running")
=============================================================================
