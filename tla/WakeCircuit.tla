---------------------------- MODULE WakeCircuit ----------------------------
(***************************************************************************)
(* The automatic wakes of one Runtime V2 user: the v2_wake_schedule row    *)
(* (provider circuit, payment cooldown, failure backoff, heartbeat clock), *)
(* the scheduler ticks that enqueue heartbeat and screen_watch jobs, the   *)
(* wake turns that report into the circuit, the resets by a user message   *)
(* or a saved configuration, and the best-effort circuit notice.           *)
(*                                                                         *)
(* Clocks are booleans (due or not) set by the passage of time.  A job is  *)
(* `old` when its turn started before the last reset, which is all that    *)
(* the comparison with wake_circuit_reset_at can tell.                     *)
(***************************************************************************)
EXTENDS Naturals

CONSTANTS
    Schedulers,         \* processes that run scheduler ticks
    Threshold,          \* FAILURE_THRESHOLD
    MaxResets,          \* resets of the circuit in one behaviour
    MaxPubs,            \* publish calls in flight
    Outcomes,           \* how a wake turn may end
    Faults,             \* which disturbances may happen
    MaxFaults           \* how many of them in one behaviour

ASSUME BoundsAssumption ==
    /\ Threshold \in Nat \ {0}
    /\ {MaxResets, MaxPubs, MaxFaults} \subseteq Nat
    /\ Outcomes \subseteq {"reply", "silent", "targeted", "other"}
    /\ Faults \subseteq {"lapse", "settings", "gate", "noreset", "crash"}

Lanes == {"heartbeat", "screen_watch"}

VARIABLES
    row,        \* the v2_wake_schedule row
    slot,       \* heartbeat_next_tick_at of the settings blob has come
    tick,       \* the scheduler ticks in progress
    allowed,    \* what the wake decision (proactive gate) answers
    job,        \* the job of each wake lane, with its worker
    pubs,       \* publish calls not yet run
    notice,     \* the circuit notice is shown
    resets,     \* resets so far
    beats,      \* history: heartbeats enqueued for the current slot
    earned,     \* history: targeted failures of turns begun after the reset
    inRow,      \* history: targeted failures since a turn last ended otherwise
    left        \* disturbances left

vars == <<row, slot, tick, allowed, job, pubs, notice, resets, beats, earned, inRow, left>>

NoJob == [st |-> "none", pc |-> "idle", old |-> FALSE, live |-> TRUE]
TickIdle == [pc |-> "idle", stale |-> FALSE, past |-> FALSE]

Init ==
    /\ row = [streak |-> 0, open |-> FALSE, cooldown |-> FALSE, backoff |-> FALSE,
              newer |-> FALSE, due |-> TRUE]
    /\ slot = TRUE
    /\ tick = [s \in Schedulers |-> TickIdle]
    /\ allowed = TRUE
    /\ job = [l \in Lanes |-> NoJob]
    /\ pubs = [open |-> 0, close |-> 0]
    /\ notice = FALSE
    /\ resets = 0
    /\ beats = 0
    /\ earned = 0
    /\ inRow = 0
    /\ left = MaxFaults

Charge(f) == f \in Faults /\ left > 0 /\ left' = left - 1
Capped(n) == IF n < Threshold THEN n + 1 ELSE Threshold

-----------------------------------------------------------------------------
(* Scheduler ticks.                                                        *)

HeartbeatDue ==
    /\ row.due
    /\ ~row.open
    /\ ~row.cooldown
    /\ ~row.backoff \/ row.newer

ScreenWatchDue == ~row.open /\ ~row.cooldown

(* due_heartbeat_users lists the user, without a lock.                     *)
Look(s) ==
    /\ tick[s].pc = "idle"
    /\ HeartbeatDue
    /\ tick' = [tick EXCEPT ![s].pc = "decide"]
    /\ UNCHANGED <<row, slot, allowed, job, pubs, notice, resets, beats, earned, inRow, left>>

(* The wake decision; a refused user's clock only advances.                *)
Decide(s) ==
    /\ tick[s].pc = "decide"
    /\ IF allowed
       THEN /\ tick' = [tick EXCEPT ![s].pc = "read"]
            /\ UNCHANGED row
       ELSE /\ tick' = [tick EXCEPT ![s] = TickIdle]
            /\ row' = [row EXCEPT !.due = FALSE]
    /\ UNCHANGED <<slot, allowed, job, pubs, notice, resets, beats, earned, inRow, left>>

(* consume_proactive_heartbeat_tick: read the settings blob ...            *)
ReadSlot(s) ==
    /\ tick[s].pc = "read"
    /\ tick' = [tick EXCEPT ![s].pc = IF slot THEN "cas" ELSE "advance"]
    /\ UNCHANGED <<row, slot, allowed, job, pubs, notice, resets, beats, earned, inRow, left>>

(* A write of the settings blob fails the compare-and-set of every other   *)
(* reader.                                                                 *)
Staled(s) ==
    [t \in Schedulers |-> IF t # s /\ tick[t].pc = "cas"
                          THEN [tick[t] EXCEPT !.stale = TRUE] ELSE tick[t]]

(* Mutant: the write does not compare the blob with the one that was read. *)
CasSlotBlind(s) ==
    /\ tick[s].pc = "cas"
    /\ tick' = [Staled(s) EXCEPT ![s].pc = "enqueue"]
    /\ slot' = FALSE
    /\ UNCHANGED <<row, allowed, job, pubs, notice, resets, beats, earned, inRow, left>>

(* ... and claim the slot by a compare-and-set of the whole blob, trying   *)
(* again from the read, or giving up, when it changed.                     *)
CasSlot(s) ==
    /\ tick[s].pc = "cas"
    /\ IF ~tick[s].stale
       THEN /\ tick' = [Staled(s) EXCEPT ![s].pc = "enqueue"]
            /\ slot' = FALSE
       ELSE /\ \E pc \in {"read", "advance"} : tick' = [tick EXCEPT ![s] = [TickIdle EXCEPT !.pc = pc]]
            /\ UNCHANGED slot
    /\ UNCHANGED <<row, allowed, job, pubs, notice, resets, beats, earned, inRow, left>>

Enqueued(l) == IF job[l].st = "none" THEN [job EXCEPT ![l] = [NoJob EXCEPT !.st = "pending"]] ELSE job

(* The winner enqueues a heartbeat (single flight joins an active one).    *)
EnqueueHeartbeat(s) ==
    /\ tick[s].pc = "enqueue"
    /\ job' = Enqueued("heartbeat")
    /\ beats' = IF beats < 2 /\ ~tick[s].past THEN beats + 1 ELSE beats
    /\ tick' = [tick EXCEPT ![s].pc = "advance"]
    /\ UNCHANGED <<row, slot, allowed, pubs, notice, resets, earned, inRow, left>>

(* advance_heartbeat: the schedule row takes the clock of the settings.    *)
Advance(s) ==
    /\ tick[s].pc = "advance"
    /\ row' = [row EXCEPT !.due = FALSE]
    /\ tick' = [tick EXCEPT ![s] = TickIdle]
    /\ UNCHANGED <<slot, allowed, job, pubs, notice, resets, beats, earned, inRow, left>>

(* The screen_watch tick: list, gate and enqueue for a due user.           *)
TickScreenWatch ==
    /\ ScreenWatchDue
    /\ allowed
    /\ job["screen_watch"].st = "none"
    /\ job' = Enqueued("screen_watch")
    /\ UNCHANGED <<row, slot, tick, allowed, pubs, notice, resets, beats, earned, inRow, left>>

(* Time: the next slot, the row's clock, the cooldown and the backoff.     *)
SlotComesDue ==
    /\ ~slot
    /\ slot' = TRUE
    /\ beats' = 0
    /\ tick' = [s \in Schedulers |-> IF tick[s].pc = "enqueue"
                                     THEN [tick[s] EXCEPT !.past = TRUE] ELSE tick[s]]
    /\ UNCHANGED <<row, allowed, job, pubs, notice, resets, earned, inRow, left>>

RowComesDue ==
    /\ ~row.due
    /\ row' = [row EXCEPT !.due = TRUE]
    /\ UNCHANGED <<slot, tick, allowed, job, pubs, notice, resets, beats, earned, inRow, left>>

CooldownEnds ==
    /\ row.cooldown
    /\ row' = [row EXCEPT !.cooldown = FALSE]
    /\ UNCHANGED <<slot, tick, allowed, job, pubs, notice, resets, beats, earned, inRow, left>>

(* Mutant: a backoff waits for the user to speak, not for its time.        *)
BackoffEndsOnInput ==
    /\ row.backoff
    /\ row.newer
    /\ row' = [row EXCEPT !.backoff = FALSE]
    /\ UNCHANGED <<slot, tick, allowed, job, pubs, notice, resets, beats, earned, inRow, left>>

BackoffEnds ==
    /\ row.backoff
    /\ row' = [row EXCEPT !.backoff = FALSE]
    /\ UNCHANGED <<slot, tick, allowed, job, pubs, notice, resets, beats, earned, inRow, left>>

(* The user edits the proactive settings, or the gate changes its mind.    *)
EditSettings ==
    /\ Charge("settings")
    /\ tick' = [s \in Schedulers |-> IF tick[s].pc = "cas"
                                     THEN [tick[s] EXCEPT !.stale = TRUE] ELSE tick[s]]
    /\ UNCHANGED <<row, slot, allowed, job, pubs, notice, resets, beats, earned, inRow>>

GateTurns ==
    /\ Charge("gate")
    /\ allowed' = ~allowed
    /\ UNCHANGED <<row, slot, tick, job, pubs, notice, resets, beats, earned, inRow>>

(* A scheduler dies between two steps of its tick.                         *)
TickDies(s) ==
    /\ Charge("crash")
    /\ tick[s].pc # "idle"
    /\ tick' = [tick EXCEPT ![s] = TickIdle]
    /\ UNCHANGED <<row, slot, allowed, job, pubs, notice, resets, beats, earned, inRow>>

-----------------------------------------------------------------------------
(* Wake turns and the circuit.                                             *)

Owned(l) == job[l].st = "running" /\ job[l].live

(* record_result_on_cursor: a targeted failure counts, any other result    *)
(* clears the streak; an open circuit, or the result of a turn that began  *)
(* before the last reset, is left alone.                                   *)
Record(r, l, targeted) ==
    IF r.open \/ job[l].old THEN r
    ELSE [r EXCEPT !.streak = IF targeted THEN Capped(@) ELSE 0,
                   !.open = targeted /\ r.streak + 1 >= Threshold]

ClearBackoff(r, l) ==
    IF l = "heartbeat" THEN [r EXCEPT !.backoff = FALSE, !.newer = FALSE] ELSE r

ArmBackoff(r, l) ==
    IF l = "heartbeat" THEN [r EXCEPT !.backoff = TRUE, !.newer = FALSE] ELSE r

WorkerClaim(l) ==
    /\ job[l].st = "pending"
    /\ job' = [job EXCEPT ![l] = [st |-> "running", pc |-> "gate", old |-> FALSE, live |-> TRUE]]
    /\ UNCHANGED <<row, slot, tick, allowed, pubs, notice, resets, beats, earned, inRow, left>>

(* is_open at the start of the turn: an open circuit puts the wake to      *)
(* sleep (the completion is Sleep below).                                  *)
Gate(l) ==
    /\ job[l].pc = "gate"
    /\ job' = [job EXCEPT ![l].pc = IF row.open THEN "sleep" ELSE "turn"]
    /\ UNCHANGED <<row, slot, tick, allowed, pubs, notice, resets, beats, earned, inRow, left>>

(* mark_completed or finish_wake_job on a job that is still running.       *)
Completed(l) ==
    /\ Owned(l)
    /\ row' = Record(ClearBackoff(row, l), l, FALSE)
    /\ job' = [job EXCEPT ![l] = NoJob]

Sleep(l) ==
    /\ job[l].pc = "sleep"
    /\ Owned(l)
    /\ row' = Record(row, l, FALSE)
    /\ job' = [job EXCEPT ![l] = NoJob]
    /\ UNCHANGED <<slot, tick, allowed, pubs, notice, resets, beats, earned, inRow, left>>

EndSilent(l) ==
    /\ "silent" \in Outcomes
    /\ job[l].pc = "turn"
    /\ Completed(l)
    /\ inRow' = 0
    /\ UNCHANGED <<slot, tick, allowed, pubs, notice, resets, beats, earned, left>>

(* A wake that posts: the final-reply effect completes the job in its own  *)
(* transaction ...                                                         *)
EndReply(l) ==
    /\ "reply" \in Outcomes
    /\ job[l].pc = "turn"
    /\ Owned(l)
    /\ job' = [job EXCEPT ![l].st = "completed", ![l].pc = "finish"]
    /\ inRow' = 0
    /\ UNCHANGED <<row, slot, tick, allowed, pubs, notice, resets, beats, earned, left>>

(* ... and finish_wake_job then finds it completed and clears the backoff; *)
(* mark_completed of a screen watch finds nothing to do.                   *)
FinishReply(l) ==
    /\ job[l].pc = "finish"
    /\ row' = ClearBackoff(row, l)
    /\ job' = [job EXCEPT ![l] = NoJob]
    /\ UNCHANGED <<slot, tick, allowed, pubs, notice, resets, beats, earned, inRow, left>>

(* A dead key: the payment cooldown is written before the job fails.       *)
Cooldown(l) ==
    /\ "targeted" \in Outcomes
    /\ job[l].pc = "turn"
    /\ Owned(l)
    /\ row' = [row EXCEPT !.cooldown = TRUE]
    /\ job' = [job EXCEPT ![l].pc = "broke"]
    /\ UNCHANGED <<slot, tick, allowed, pubs, notice, resets, beats, earned, inRow, left>>

Failed(l, targeted) ==
    /\ Owned(l)
    /\ row' = Record(ArmBackoff(row, l), l, targeted)
    /\ job' = [job EXCEPT ![l] = NoJob]
    /\ pubs' = IF ~row.open /\ row'.open THEN [pubs EXCEPT !.open = @ + 1] ELSE pubs

(* mark_failed with a targeted error class.                                *)
EndTargeted(l) ==
    /\ job[l].pc = "broke"
    /\ Failed(l, TRUE)
    /\ earned' = IF job[l].old THEN earned ELSE Capped(earned)
    /\ inRow' = Capped(inRow)
    /\ UNCHANGED <<slot, tick, allowed, notice, resets, beats, left>>

EndOther(l) ==
    /\ "other" \in Outcomes
    /\ job[l].pc = "turn"
    /\ Failed(l, FALSE)
    /\ inRow' = 0
    /\ UNCHANGED <<slot, tick, allowed, notice, resets, beats, earned, left>>

Lapse(l) ==
    /\ Charge("lapse")
    /\ job[l].st = "running"
    /\ job[l].live
    /\ job' = [job EXCEPT ![l].live = FALSE]
    /\ UNCHANGED <<row, slot, tick, allowed, pubs, notice, resets, beats, earned, inRow>>

(* The reaper expires the lapsed job; its turn records nothing.            *)
Reap(l) ==
    /\ job[l].st = "running"
    /\ ~job[l].live
    /\ job' = [job EXCEPT ![l] = NoJob]
    /\ UNCHANGED <<row, slot, tick, allowed, pubs, notice, resets, beats, earned, inRow, left>>

-----------------------------------------------------------------------------
(* Resets and the notice.                                                  *)

(* reset, after a committed user message or configuration save.            *)
Reset ==
    /\ resets < MaxResets
    /\ pubs.close < MaxPubs
    /\ resets' = resets + 1
    /\ row' = [row EXCEPT !.streak = 0, !.open = FALSE, !.cooldown = FALSE, !.backoff = FALSE,
                          !.newer = TRUE]
    /\ job' = [l \in Lanes |-> IF job[l].st \in {"running", "completed"}
                               THEN [job[l] EXCEPT !.old = TRUE] ELSE job[l]]
    /\ pubs' = IF row.open THEN [pubs EXCEPT !.close = @ + 1] ELSE pubs
    /\ earned' = 0
    /\ inRow' = 0
    /\ UNCHANGED <<slot, tick, allowed, notice, beats, left>>

(* The message is committed and the reset fails: only logged.              *)
ResetFails ==
    /\ Charge("noreset")
    /\ row' = [row EXCEPT !.newer = TRUE]
    /\ UNCHANGED <<slot, tick, allowed, job, pubs, notice, resets, beats, earned, inRow>>

(* Mutant: the publisher trusts the transition it saw.                     *)
PublishUnchecked(opened) ==
    /\ pubs[opened] > 0
    /\ pubs' = [pubs EXCEPT ![opened] = @ - 1]
    /\ notice' = (opened = "open")
    /\ UNCHANGED <<row, slot, tick, allowed, job, resets, beats, earned, inRow, left>>

(* publish: under the row lock, and only while the circuit still is what   *)
(* the caller saw.                                                         *)
Publish(opened) ==
    /\ pubs[opened] > 0
    /\ pubs' = [pubs EXCEPT ![opened] = @ - 1]
    /\ notice' = IF row.open = (opened = "open") THEN row.open ELSE notice
    /\ UNCHANGED <<row, slot, tick, allowed, job, resets, beats, earned, inRow, left>>

-----------------------------------------------------------------------------
TickStep(s) ==
    \/ Look(s)
    \/ Decide(s)
    \/ ReadSlot(s)
    \/ CasSlot(s)
    \/ EnqueueHeartbeat(s)
    \/ Advance(s)

TurnStep(l) ==
    \/ WorkerClaim(l)
    \/ Gate(l)
    \/ Sleep(l)
    \/ EndSilent(l)
    \/ EndReply(l)
    \/ FinishReply(l)
    \/ Cooldown(l)
    \/ EndTargeted(l)
    \/ EndOther(l)
    \/ Reap(l)

TimeStep == SlotComesDue \/ RowComesDue \/ CooldownEnds \/ BackoffEnds

Next ==
    \/ \E s \in Schedulers : TickStep(s) \/ TickDies(s)
    \/ TickScreenWatch
    \/ TimeStep
    \/ EditSettings
    \/ GateTurns
    \/ \E l \in Lanes : TurnStep(l) \/ Lapse(l)
    \/ Reset
    \/ ResetFails
    \/ Publish("open")
    \/ Publish("close")

Spec == Init /\ [][Next]_vars

(* Ticks and workers loop and time passes.  Every pass lists the due       *)
(* heartbeats before it comes to screen watches, so a heartbeat that is    *)
(* due again and again between screen watches is looked at.                *)
Fairness ==
    /\ \A s \in Schedulers : WF_vars(TickStep(s)) /\ SF_vars(Look(s))
    /\ \A l \in Lanes : WF_vars(TurnStep(l))
    /\ WF_vars(SlotComesDue)
    /\ WF_vars(RowComesDue)
    /\ WF_vars(CooldownEnds)
    /\ WF_vars(BackoffEnds)

FairSpec == Spec /\ Fairness

-----------------------------------------------------------------------------
(* The row, the jobs and the ticks hold the values the code writes.        *)
RowType == [streak : 0 .. Threshold, open : BOOLEAN, cooldown : BOOLEAN, backoff : BOOLEAN,
            newer : BOOLEAN, due : BOOLEAN]
JobType == [st : {"none", "pending", "running", "completed"},
            pc : {"idle", "gate", "turn", "sleep", "broke", "finish"},
            old : BOOLEAN, live : BOOLEAN]
TickType == [pc : {"idle", "decide", "read", "cas", "enqueue", "advance"},
             stale : BOOLEAN, past : BOOLEAN]

TypeOK ==
    /\ row \in RowType
    /\ tick \in [Schedulers -> TickType]
    /\ job \in [Lanes -> JobType]
    /\ pubs \in [open : Nat, close : Nat]
    /\ slot \in BOOLEAN /\ allowed \in BOOLEAN /\ notice \in BOOLEAN
    /\ resets \in 0 .. MaxResets /\ beats \in 0 .. 2 /\ left \in 0 .. MaxFaults
    /\ earned \in 0 .. Threshold /\ inRow \in 0 .. Threshold

(* The circuit is open only after Threshold targeted failures of turns     *)
(* that began after the last reset: the user's new key is not condemned    *)
(* by what the old one left running.                                       *)
OpenIsEarned == row.open => earned = Threshold

(* Only a reset closes an open circuit: no late success and no other       *)
(* failure does.                                                           *)
OpenUntilReset == [][row.open /\ ~row'.open => resets' = resets + 1]_vars

(* However openings, resets and their delayed publishers interleave, once  *)
(* no publisher is left the notice shows exactly an open circuit.          *)
NoticeSettles == pubs.open = 0 /\ pubs.close = 0 => notice = row.open

(* Each heartbeat slot is enqueued at most once, although every process    *)
(* runs the scheduler and reads the clock without a lock.                  *)
OneBeatPerSlot == beats <= 1
=============================================================================
