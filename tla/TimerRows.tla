----------------------------- MODULE TimerRows -----------------------------
(***************************************************************************)
(* The rows of the scheduled_wake stream and what is promised of them,     *)
(* whatever passes, turns and authors there are: Reminders models who      *)
(* writes the rows.                                                        *)
(***************************************************************************)
EXTENDS Naturals

VARIABLES
    timers,     \* the rows of the scheduled_wake stream, by timer id
    told        \* history: how often a timer's note reached the user

PendingLike(t) == timers[t].status \in {"pending", "claimed"}

-----------------------------------------------------------------------------
(* A reminder is told at most once, however many passes race for it, die   *)
(* or outlive their claim, and however the job that carries it ends:       *)
(* claim_due and mark_fired attach it to one job, and the reply and the    *)
(* failure notice of a job exclude each other.                             *)
ToldOnce == \A t \in DOMAIN told : told[t] <= 1

(* A repeating series has at most one instance waiting, and a cancelled    *)
(* series none: racing passes do not fork it and mark_fired does not       *)
(* revive it.                                                              *)
OneHeir ==
    \A t, u \in DOMAIN timers : PendingLike(t) /\ PendingLike(u) =>
        /\ timers[t].series # 0 /\ timers[t].series = timers[u].series => t = u
        /\ ~timers[t].stopped
        /\ \A v \in DOMAIN timers :
             timers[t].series # 0 /\ timers[v].series = timers[t].series => ~timers[v].stopped

(* Two waiting timers never share a due time and a repeat rule, across     *)
(* schedule_wake and the insert of a repeating timer's next instance.      *)
OnePerSlot ==
    \A t, u \in DOMAIN timers : PendingLike(t) /\ PendingLike(u) =>
        (timers[t].due = timers[u].due /\ timers[t].repeat = timers[u].repeat => t = u)

(* Both at once: where passes race and the schedule action inserts beside  *)
(* them, a repeating series never forks.                                   *)
SeriesNeverForks == OneHeir /\ OnePerSlot

(* A cancelled timer stays cancelled and is never told, whoever cancels it *)
(* and even between the enqueue and mark_fired; one that was told can no   *)
(* longer be cancelled.                                                    *)
CanceledStaysUntold ==
    [][\A t \in DOMAIN timers :
         /\ timers[t].status = "canceled" => timers'[t].status = "canceled"
         /\ timers'[t].status = "canceled" => told'[t] = 0]_<<timers, told>>
=============================================================================
