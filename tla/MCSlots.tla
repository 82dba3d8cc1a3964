------------------------------ MODULE MCSlots ------------------------------
(***************************************************************************)
(* Instances of SlotSupervisor and EnclaveBroker for TLC, explored side by *)
(* side: the variable scene says which of the two, and which instance of   *)
(* it, a behaviour is about; the other one stays as it is.                 *)
(*   replaced  one job that may be requeued, two generations: every party  *)
(*             replaces the child (the constants of the configuration)     *)
(*   returns   the same job, three generations, fair loops                 *)
(*   shutdown  a second job, which expires, and no watchdog: the other     *)
(*             parties race stop                                           *)
(*   permits   three generations of two pools and one permit; only f1 dies *)
(*   answers   one generation of each pool, fair pipes and processes       *)
(***************************************************************************)
EXTENDS SlotSupervisor, TLC

CONSTANTS a, b, f1, f2, h1, foreground, heavy

VARIABLES
  scene,
  holder, wire, spare,     \* proc, pipe and left of EnclaveBroker
  fenced, dropped, child, reader, granted, waiters, calls, inbox

Returns == INSTANCE SlotSupervisor WITH MaxGens <- 3, MaxMsgs <- 2, MaxFaults <- 1
ShutDown == INSTANCE SlotSupervisor WITH
  Jobs <- {a, b}, MaxGens <- 3, MaxMsgs <- 2, MaxFaults <- 1, Watched <- FALSE

ReserveHeavy == (foreground :> 0 @@ heavy :> 1)
Permits == INSTANCE EnclaveBroker WITH
  proc <- holder, pipe <- wire, left <- spare, Limit <- 1, MaxRequests <- 1,
  MaxFaults <- 0, Pools <- <<foreground, heavy>>, Reserve <- ReserveHeavy,
  Gens <- {f1, f2, h1}, PoolOf <- (f1 :> foreground @@ f2 :> foreground @@ h1 :> heavy)
Answers == INSTANCE EnclaveBroker WITH
  proc <- holder, pipe <- wire, left <- spare, Limit <- 1, MaxRequests <- 1,
  MaxFaults <- 0, Pools <- <<foreground, heavy>>, Reserve <- ReserveHeavy,
  Gens <- {f1, h1}, PoolOf <- (f1 :> foreground @@ h1 :> heavy)

brokerVars == <<holder, wire, spare, fenced, dropped, child, reader, granted,
                waiters, calls, inbox>>

MCInit ==
  \/ scene = "replaced" /\ Init /\ Answers!Init
  \/ scene = "returns" /\ Returns!Init /\ Answers!Init
  \/ scene = "shutdown" /\ ShutDown!Init /\ Answers!Init
  \/ scene = "permits" /\ Permits!Init /\ Init
  \/ scene = "answers" /\ Answers!Init /\ Init

MCNext ==
  /\ UNCHANGED scene
  /\ \/ /\ UNCHANGED brokerVars
        /\ \/ scene = "replaced" /\ Next
           \/ scene = "returns" /\ Returns!Next
           \/ scene = "shutdown" /\ ShutDown!Next
     \/ /\ UNCHANGED vars
        /\ \/ /\ scene = "permits" /\ Permits!Next
              /\ \A g \in {f2, h1} : holder'[g] = "up"
           \/ scene = "answers" /\ Answers!Next

MCVars == <<scene, vars, brokerVars>>
Slot(A) == scene = "returns" /\ A
Broker(A) == scene = "answers" /\ A

\* The fairness of the two Specs, for the scenes with a liveness property.
MCSpec ==
  /\ MCInit /\ [][MCNext]_MCVars
  /\ \A x \in Actors : /\ SF_vars(Slot(Returns!Enter(x)))
                       /\ WF_vars(Slot(Returns!Leave(x) /\ ~Alive(tracked)))
  /\ \A g \in 1..3 : WF_vars(Slot(proc[g] = "killed" /\ Returns!Exit(g)))
  /\ WF_vars(Slot(Returns!Reap(b) /\ proc[job[b].by] = "dead"))
  /\ WF_vars(Slot(Returns!Decide /\ ~(Alive(tracked) /\ proc[tracked] = "up")))
  /\ WF_vars(Slot(Returns!KillForRecovery))
  /\ WF_vars(Slot(Returns!Recover)) /\ WF_vars(Slot(Returns!Resume))
  /\ \A r \in Answers!Requests : /\ WF_brokerVars(Broker(Answers!ReadGrant(r)))
                                 /\ WF_brokerVars(Broker(Answers!Return(r)))
                                 /\ WF_brokerVars(Broker(Answers!Deliver(r)))
  /\ \A g \in {f1, h1} : /\ WF_brokerVars(Broker(Answers!Read(g)))
                         /\ WF_brokerVars(Broker(Answers!Hand(g)))
                         /\ WF_brokerVars(Broker(Answers!Eof(g)))
                         /\ WF_brokerVars(Broker(holder[g] = "killed" /\ Answers!Exit(g)))
                         /\ WF_brokerVars(Broker(holder[g] = "dead" /\ Answers!Kill(g)))
                         /\ WF_brokerVars(Broker(Answers!Confirm(g)))

----------------------------------------------------------------------------
\* Under the fairness of its scene, a slot
\* without a child gets one, and the claim of a dead child is given up.
Childless == scene = "returns" /\ \A g \in 1..3 : ~Alive(g)
Orphaned(g) == scene = "returns" /\ job[b] = [st |-> "claimed", by |-> g] /\ proc[g] = "dead"
SlotRecovers ==
  /\ Childless ~> \/ stopped
                  \/ \E g \in DOMAIN proc : proc[g] = "up"
                  \/ \A g \in DOMAIN proc : proc[g] # "unborn"
  /\ \A g \in 1..3 : Orphaned(g) ~> ~Orphaned(g)

\* NoOversubscription, WorkConserving and DroppedOwnsNothing of the three
\* generations: no permit is lent twice, stays idle or stays with the dropped.
PermitsAreExact ==
  scene = "permits" =>
    Permits!NoOversubscription /\ Permits!WorkConserving /\ Permits!DroppedOwnsNothing

\* AcquireAnswered under the fairness of its scene.
AcquiresAnswered == scene = "answers" => Answers!AcquireAnswered
=============================================================================
