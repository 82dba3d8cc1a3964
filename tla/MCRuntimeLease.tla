--------------------------- MODULE MCRuntimeLease ---------------------------
(***************************************************************************)
(* Instances of RuntimeLease for TLC, explored side by side: the variable  *)
(* scene says which one a behaviour is about.                              *)
(* Safety is checked in three scenes (SafeSpec):                           *)
(*   races     two supervisors whose passes may outlast the TTL (the       *)
(*             constants of the configuration)                             *)
(*   steady    crashes, interrupts, failing spawns and statements, while   *)
(*             no pass outlasts the TTL and no route changes               *)
(*   ceiling   one supervisor, two users, one child                        *)
(* and convergence in two (LiveSpec):                                      *)
(*   edited    a fair pair of supervisors and one configuration change     *)
(*   disturbed a fair pair of supervisors and two faults                   *)
(***************************************************************************)
EXTENDS RuntimeLease

CONSTANTS s1, s2, u1, u2

VARIABLE scene

Steady == INSTANCE RuntimeLease WITH
  Faults <- FaultKinds \ {"lapse"}, MaxFaults <- 2, Edits <- {"persona"}
Ceiling == INSTANCE RuntimeLease WITH
  Sups <- {s1}, Users <- {u1, u2}, MaxChildren <- 1, Faults <- {}, MaxFaults <- 0
Edited == INSTANCE RuntimeLease WITH Faults <- {}, MaxFaults <- 0
Disturbed == INSTANCE RuntimeLease WITH
  Faults <- {"crash", "lapse", "exit", "nospawn"}, MaxFaults <- 2, MaxEdits <- 0

MCVars == <<scene, vars>>

SafeInit ==
  \/ scene = "races" /\ Init
  \/ scene = "steady" /\ Steady!Init
  \/ scene = "ceiling" /\ Ceiling!Init

SafeNext ==
  /\ UNCHANGED scene
  /\ \/ scene = "races" /\ Next
     \/ scene = "steady" /\ Steady!Next
     \/ scene = "ceiling" /\ Ceiling!Next

SafeSpec == SafeInit /\ [][SafeNext]_MCVars

LiveInit ==
  \/ scene = "edited" /\ Edited!Init
  \/ scene = "disturbed" /\ Disturbed!Init

LiveNext ==
  /\ UNCHANGED scene
  /\ \/ scene = "edited" /\ Edited!Next
     \/ scene = "disturbed" /\ Disturbed!Next

Either(A, B) == (scene = "edited" /\ A) \/ (scene = "disturbed" /\ B)

\* The fairness of FairSpec in the two scenes with a liveness property.
LiveSpec ==
  /\ LiveInit /\ [][LiveNext]_MCVars
  /\ \A s \in Sups :
       /\ WF_vars(Either(Edited!Tick(s), Disturbed!Tick(s)))
       /\ WF_vars(Either(Edited!RenewLive(s), Disturbed!RenewLive(s)))
       /\ WF_vars(Either(Edited!Restart(s), Disturbed!Restart(s)))
       /\ WF_vars(Either(Edited!BackoffEnds(s, u1), Disturbed!BackoffEnds(s, u1)))
       /\ SF_vars(Either(Edited!TickEnter(s, u1), Disturbed!TickEnter(s, u1)))
       /\ SF_vars(Either(Edited!TickSpawn(s, u1), Disturbed!TickSpawn(s, u1)))
       /\ SF_vars(Either(Edited!RenewCheck(s, u1), Disturbed!RenewCheck(s, u1)))
  /\ WF_vars(Either(Edited!Expire(u1), Disturbed!Expire(u1)) /\ left' = left)

-----------------------------------------------------------------------------
\* OneConsumer while no pass outlasts the TTL and no route changes.
OneConsumerPerUser == scene = "steady" => OneConsumer
=============================================================================
