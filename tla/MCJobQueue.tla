---------------------------- MODULE MCJobQueue ----------------------------
(***************************************************************************)
(* Instances of JobQueue for TLC, explored side by side: the variable      *)
(* scene says which instance a behaviour belongs to.                       *)
(*   foreground  chat and reminders on two slots that take both, with a    *)
(*               cutover (the constants of the configuration)              *)
(*   background  capture, heartbeat and profile jobs beside chat, with new *)
(*               input for a job that is queued or running                 *)
(*   reaped      chat and capture, under a fair reaper                     *)
(***************************************************************************)
EXTENDS JobQueue, TLC

CONSTANTS w1, w2

VARIABLE scene

MCOwners == {w1, w2}
AllPools == [w \in MCOwners |-> Lanes]
\* A slot of the foreground pool and a slot that takes every lane.
Pools(lanes) == (w1 :> (lanes \cap {"chat", "manual_wake"})) @@ (w2 :> lanes)

BackgroundLanes == {"chat", "capture", "heartbeat", "profile"}
Background == INSTANCE JobQueue WITH
    Lanes <- BackgroundLanes, PoolLanes <- Pools(BackgroundLanes),
    MaxInput <- 1, MaxGen <- 1
ReapedLanes == {"chat", "capture"}
Reaped == INSTANCE JobQueue WITH
    Lanes <- ReapedLanes, PoolLanes <- Pools(ReapedLanes), MaxGen <- 1

MCInit ==
    \/ scene = "foreground" /\ Init
    \/ scene = "background" /\ Background!Init
    \/ scene = "reaped" /\ Reaped!Init

MCNext ==
    /\ UNCHANGED scene
    /\ \/ scene = "foreground" /\ Next
       \/ scene = "background" /\ Background!Next
       \/ scene = "reaped" /\ Reaped!Next

InReaped(A) == scene = "reaped" /\ A

\* The fairness of FairSpec, for the scene that has liveness properties.
MCSpec ==
    /\ MCInit /\ [][MCNext]_<<vars, scene>>
    /\ WF_vars(InReaped(Reaped!Reap))
    /\ \A j \in Ids :
         /\ WF_vars(InReaped(Reaped!LeaseExpires(j)))
         /\ WF_vars(InReaped(Reaped!QueueDeadlinePasses(j)))
         /\ WF_vars(InReaped(\E enabled \in BOOLEAN : Reaped!ReapCapture(j, enabled)))

---------------------------------------------------------------------------
\* ExecutionEnds under the fairness of its scene.
ReapedExecutionEnds == scene = "reaped" => Reaped!ExecutionEnds
===========================================================================
