---------------------------- MODULE MCChatReply ----------------------------
(***************************************************************************)
(* Instances of ChatReply for TLC, explored side by side: the variable     *)
(* scene says which instance a behaviour belongs to.                       *)
(*   overlap   two messages and two jobs under V2 (the constants of the    *)
(*             configuration)                                              *)
(*   handover  one message, two jobs, cutovers and a worker that dies      *)
(*   bridge    two messages, one job and two cutovers                      *)
(*   settles   one message and two jobs, fair sweepers and reapers         *)
(***************************************************************************)
EXTENDS ChatReply

CONSTANT r1

VARIABLE scene

Handover == INSTANCE ChatReply WITH MaxMsgs <- 1, MaxGen <- 3, MaxCrashes <- 1
Bridge == INSTANCE ChatReply WITH MaxJobs <- 1, MaxGen <- 5
Settles == INSTANCE ChatReply WITH MaxMsgs <- 1, MaxCrashes <- 1

MCInit ==
    \/ scene = "overlap" /\ Init
    \/ scene = "handover" /\ Handover!Init
    \/ scene = "bridge" /\ Bridge!Init
    \/ scene = "settles" /\ Settles!Init

MCNext ==
    /\ UNCHANGED scene
    /\ \/ scene = "overlap" /\ Next
       \/ scene = "handover" /\ Handover!Next
       \/ scene = "bridge" /\ Bridge!Next
       \/ scene = "settles" /\ Settles!Next

Settling(A) == scene = "settles" /\ A

\* The fairness of FairSpec, for the scene that has a liveness property.
MCSpec ==
    /\ MCInit /\ [][MCNext]_<<vars, scene>>
    /\ WF_vars(Settling(Settles!SweepRead \/ Settles!SweepEnqueue))
    /\ \A j \in Ids : WF_vars(Settling(Settles!Overdue(j) \/ Settles!Reap(j)))
    /\ WF_vars(Settling(\E j \in Ids : Settles!DeliverRead(r1, j)))
    /\ SF_vars(Settling(Settles!DeliverWrite(r1) \/ Settles!DeliverAck(r1)))

----------------------------------------------------------------------------
\* EveryMessageSettles under the fairness of its scene.
EveryMessageIsSettled == scene = "settles" => Settles!EveryMessageSettles
============================================================================
