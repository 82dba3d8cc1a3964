---------------------------- MODULE MCReminders ----------------------------
(***************************************************************************)
(* Instances of Reminders for TLC, explored side by side: the variable     *)
(* scene says which one a behaviour is about.                              *)
(*   told     one timer, two passes, a job that lapses, fails or dies (the *)
(*            constants of the configuration)                              *)
(*   race     repeating timers and a pass that loses its claim             *)
(*   cap      more timers than the cap admits                              *)
(*   settle   two timers beside a chat, under fair passes and workers      *)
(***************************************************************************)
EXTENDS Reminders

CONSTANTS sa, sb

VARIABLE scene

Race == INSTANCE Reminders WITH
    MaxTimers <- 3, MaxJobs <- 1, MaxTries <- 0, Dues <- {0}, Repeats <- {TRUE},
    Faults <- {"crash", "expire", "cancel"}, MaxFaults <- 1
Cap == INSTANCE Reminders WITH
    Schedulers <- {sa}, MaxTimers <- 3, MaxJobs <- 1, PendingCap <- 1, MaxTries <- 0, Dues <- {0},
    Repeats <- BOOLEAN, Faults <- {}, MaxFaults <- 0
Settle == INSTANCE Reminders WITH
    Schedulers <- {sa}, MaxTimers <- 2, MaxJobs <- 3, PendingCap <- 1, MaxTries <- 0,
    MaxSends <- 1, Repeats <- BOOLEAN, Faults <- {"crash", "expire", "toggle"},
    MaxFaults <- 1

MCInit ==
    \/ scene = "told" /\ Init
    \/ scene = "race" /\ Race!Init
    \/ scene = "cap" /\ Cap!Init
    \/ scene = "settle" /\ Settle!Init

MCNext ==
    /\ UNCHANGED scene
    /\ \/ scene = "told" /\ Next
       \/ scene = "race" /\ Race!Next
       \/ scene = "cap" /\ Cap!Next
       \/ scene = "settle" /\ Settle!Next

MCVars == <<scene, vars>>
Settling(A) == scene = "settle" /\ A

\* The fairness of FairSpec, for the scene with a liveness property.
MCSpec ==
    /\ MCInit /\ [][MCNext]_MCVars
    /\ WF_vars(Settling(Settle!Tick))
    /\ WF_vars(Settling(Settle!PassStep(sa)))
    /\ WF_vars(Settling(Settle!WorkerStep))
    /\ \A t \in 1 .. 2 : WF_vars(Settling(Settle!ClaimExpires(t)))
    /\ \A j \in 1 .. 3 : /\ WF_vars(Settling(Settle!Reap(j)))
                         /\ WF_vars(Settling(Settle!ShowNotice(j)))
    /\ WF_vars(Settling(Settle!Answer))

-----------------------------------------------------------------------------
\* Every due timer leaves the queue: a pass that dies or loses its claim is
\* made up for by a later one.
Waiting(t) == Settling(Settle!PendingLike(t) /\ timers[t].due <= now)
DueTimersSettle == \A t \in 1 .. 2 : Waiting(t) ~> ~Waiting(t)
=============================================================================
