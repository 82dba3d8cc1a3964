----------------------------- MODULE Reminders -----------------------------
(***************************************************************************)
(* The scheduled wakes ("reminders") of one Runtime V2 user: the timers of *)
(* proactive/scheduled_wake_v2 (one user_logs row each), the scheduler     *)
(* passes that fire them, the single-flight agent job of the `scheduled`   *)
(* lane they are attached to, and the wake turn that tells them.           *)
(*                                                                         *)
(* A pass (fire_due_timers) lists the due timers without a lock, then for  *)
(* each one claims it by a compare-and-set, enqueues or coalesces a job,   *)
(* and marks the timer fired under the user's advisory lock, writing the   *)
(* next instance of a repeating timer in the same transaction.  Passes of  *)
(* several processes run at once and may die between any two steps.        *)
(*                                                                         *)
(* Time is a small clock for due_at; the expiry of a claim or of a job     *)
(* lease is an action of its own, since the code only compares them with   *)
(* now.  The timer rows and what is promised of them are in TimerRows.     *)
(***************************************************************************)
EXTENDS TimerRows, FiniteSets

CONSTANTS
    Schedulers,     \* processes that run scheduler passes
    MaxTimers,      \* timers ever created
    MaxJobs,        \* scheduled-lane jobs ever created
    MaxNow,         \* last instant of the clock
    PendingCap,     \* pending_cap of ScheduledWakeServiceV2
    MaxRounds,      \* _TURN_MAX_LLM_CALLS
    MaxTries,       \* len(_SCHEDULED_FAILURE_RETRY_DELAYS_SEC)
    MaxSends,       \* user messages
    Dues,           \* instants a timer may be asked for
    Repeats,        \* values of `repeat` a timer may be asked for
    Faults,         \* which disturbances may happen
    MaxFaults       \* how many of them in one behaviour

ASSUME BoundsAssumption ==
    /\ \A n \in {MaxTimers, MaxJobs, MaxNow, PendingCap, MaxRounds} : n \in Nat \ {0}
    /\ {MaxTries, MaxSends, MaxFaults} \subseteq Nat
    /\ Dues \subseteq 0 .. MaxNow
    /\ Repeats \subseteq BOOLEAN
    /\ Faults \subseteq {"crash", "lapse", "cancel", "toggle", "expire", "fail"}

VARIABLES
    jobs,       \* the agent_jobs rows of the scheduled lane, by job id
    notices,    \* jobs whose terminal failure is queued and not yet shown
    pass,       \* the scheduler passes in progress
    author,     \* the schedule_wake action in progress
    wk,         \* the worker running the scheduled job
    chat,       \* user messages sent and answered
    enabled,    \* the "scheduled" switch of the proactive settings
    now,        \* the clock
    left        \* disturbances left

vars == <<timers, jobs, notices, pass, author, wk, chat, enabled, now, told, left>>

TimerIds == 1 .. MaxTimers
JobIds == 1 .. MaxJobs

NoTimer == [status |-> "none", due |-> 0, repeat |-> FALSE, series |-> 0,
            stopped |-> FALSE, claim |-> 0, expired |-> FALSE, job |-> 0]
NoJob == [status |-> "none", gen |-> 0, tries |-> 0, live |-> TRUE]

PassIdle == [pc |-> "idle", on |-> TRUE, todo |-> {}, t |-> 0, claim |-> 0,
             job |-> 0, keep |-> 0, victim |-> 0]
AuthorIdle == [pc |-> "idle", keep |-> 0, victim |-> 0]
WorkerIdle == [pc |-> "idle", job |-> 0, gen |-> 0, seen |-> 0, rounds |-> 0,
               notes |-> {}]

Charge(f) == f \in Faults /\ left > 0 /\ left' = left - 1

Init ==
    /\ timers = [t \in TimerIds |-> NoTimer]
    /\ jobs = [j \in JobIds |-> NoJob]
    /\ notices = {}
    /\ pass = [s \in Schedulers |-> PassIdle]
    /\ author = AuthorIdle
    /\ wk = WorkerIdle
    /\ chat = [sent |-> 0, answered |-> 0]
    /\ enabled = TRUE
    /\ now = 0
    /\ told = [t \in TimerIds |-> 0]
    /\ left = MaxFaults

-----------------------------------------------------------------------------
(* The timer rows.                                                         *)

FreshTimers == {t \in TimerIds : timers[t].status = "none"}

NextTimer == CHOOSE t \in FreshTimers : \A u \in FreshTimers : t <= u

SameSlot(due, repeat) ==
    {t \in TimerIds : PendingLike(t) /\ timers[t].due = due /\ timers[t].repeat = repeat}

PendingTimer(t, due, repeat, series) ==
    [NoTimer EXCEPT !.status = "pending", !.due = due, !.repeat = repeat,
                    !.series = IF repeat THEN (IF series = 0 THEN t ELSE series) ELSE 0]

Due(t) ==
    /\ timers[t].due <= now
    /\ \/ timers[t].status = "pending"
       \/ timers[t].status = "claimed" /\ timers[t].expired

(* Mutant: a cancel takes the named instance alone, not its series.        *)
CanceledAlone(t) ==
    [timers EXCEPT ![t].stopped = timers[t].repeat,
                   ![t].status = IF PendingLike(t) THEN "canceled" ELSE @]

(* DBScheduledWakeStoreV2.cancel: a repeating timer takes its whole series *)
(* along, a plain one is patched when it is still pending or claimed.      *)
Canceled(t) ==
    IF timers[t].repeat
    THEN [u \in TimerIds |->
            IF timers[u].series # timers[t].series THEN timers[u]
            ELSE [timers[u] EXCEPT !.stopped = TRUE,
                                   !.status = IF PendingLike(u) THEN "canceled" ELSE @]]
    ELSE IF PendingLike(t)
    THEN [timers EXCEPT ![t].status = "canceled"]
    ELSE timers

PendingTimers == {t \in TimerIds : PendingLike(t)}

(* Timer ids are handed out in creation order, which is the eviction order. *)
Oldest(S) == CHOOSE t \in S : \A u \in S : t <= u

-----------------------------------------------------------------------------
(* schedule_wake and cancel_wake.                                          *)

(* _schedule_action: insert unless an equal slot is pending or claimed     *)
(* (create_unique_pending, under the advisory lock), then enforce the cap. *)
Schedule(due, repeat) ==
    /\ author.pc = "idle"
    /\ enabled
    /\ FreshTimers # {}
    /\ SameSlot(due, repeat) = {}
    /\ timers' = [timers EXCEPT ![NextTimer] = PendingTimer(NextTimer, due, repeat, 0)]
    /\ author' = [AuthorIdle EXCEPT !.pc = "cap", !.keep = NextTimer]
    /\ UNCHANGED <<jobs, notices, pass, wk, chat, enabled, now, told, left>>

(* _enforce_pending_cap: list without a lock and pick the oldest, ...      *)
OverCap(keep) == Cardinality(PendingTimers) > PendingCap /\ PendingTimers # {keep}

AuthorCap ==
    /\ author.pc = "cap"
    /\ author' = IF OverCap(author.keep)
                 THEN [author EXCEPT !.pc = "evict",
                                     !.victim = Oldest(PendingTimers \ {author.keep})]
                 ELSE AuthorIdle
    /\ UNCHANGED <<timers, jobs, notices, pass, wk, chat, enabled, now, told, left>>

(* ... cancel it, and look again.                                          *)
AuthorEvict ==
    /\ author.pc = "evict"
    /\ timers' = Canceled(author.victim)
    /\ author' = [author EXCEPT !.pc = "cap", !.victim = 0]
    /\ UNCHANGED <<jobs, notices, pass, wk, chat, enabled, now, told, left>>

CancelTimer(t) ==
    /\ Charge("cancel")
    /\ timers[t].status # "none"
    /\ timers' = Canceled(t)
    /\ UNCHANGED <<jobs, notices, pass, author, wk, chat, enabled, now, told>>

Toggle ==
    /\ Charge("toggle")
    /\ enabled' = ~enabled
    /\ UNCHANGED <<timers, jobs, notices, pass, author, wk, chat, now, told>>

Tick ==
    /\ now < MaxNow
    /\ now' = now + 1
    /\ UNCHANGED <<timers, jobs, notices, pass, author, wk, chat, enabled, told, left>>

(* claim_expires_at of a claimed timer passes.                             *)
ClaimExpires(t) ==
    /\ timers[t].status = "claimed"
    /\ ~timers[t].expired
    /\ \/ /\ \E s \in Schedulers : pass[s].pc # "idle" /\ pass[s].t = t /\ pass[s].claim = timers[t].claim
          /\ Charge("expire")
       \/ /\ \A s \in Schedulers : ~(pass[s].pc # "idle" /\ pass[s].t = t /\ pass[s].claim = timers[t].claim)
          /\ UNCHANGED left
    /\ timers' = [timers EXCEPT ![t].expired = TRUE]
    /\ UNCHANGED <<jobs, notices, pass, author, wk, chat, enabled, now, told>>

-----------------------------------------------------------------------------
(* The job of the scheduled lane.                                          *)

Active(j) == jobs[j].status \in {"pending", "running"}
ActiveJobs == {j \in JobIds : Active(j)}
FreshJobs == {j \in JobIds : jobs[j].status = "none"}
NextJob == CHOOSE j \in FreshJobs : \A k \in FreshJobs : j <= k

(* coalesce_or_insert_on_cursor on the scheduled lane: join a live active  *)
(* job, else expire a stale one visibly and insert a new one.              *)
CanEnqueue == \/ \E j \in ActiveJobs : jobs[j].live
              \/ FreshJobs # {}

EnqueuedId ==
    IF \E j \in ActiveJobs : jobs[j].live
    THEN CHOOSE j \in ActiveJobs : jobs[j].live
    ELSE NextJob

Enqueue ==
    IF \E j \in ActiveJobs : jobs[j].live
    THEN /\ jobs' = [jobs EXCEPT ![EnqueuedId].gen = @ + 1]
         /\ UNCHANGED notices
    ELSE /\ jobs' = [j \in JobIds |->
                        IF j = NextJob THEN [NoJob EXCEPT !.status = "pending"]
                        ELSE IF Active(j) THEN [jobs[j] EXCEPT !.status = "expired"]
                        ELSE jobs[j]]
         /\ notices' = notices \cup ActiveJobs

-----------------------------------------------------------------------------
(* A scheduler pass: _fire_scheduled_for_user / fire_due_timers.           *)

Least(S) ==
    CHOOSE t \in S : \A u \in S :
        timers[t].due < timers[u].due \/ (timers[t].due = timers[u].due /\ t <= u)

(* Mutant: an expired claim is not a candidate again.                      *)
StartPassPendingOnly(s) ==
    /\ pass[s].pc = "idle"
    /\ \E t \in TimerIds : timers[t].due <= now /\ timers[t].status = "pending"
    /\ pass' = [pass EXCEPT ![s] =
                  [PassIdle EXCEPT !.pc = "next", !.on = enabled,
                     !.todo = {t \in TimerIds : timers[t].due <= now
                                                /\ timers[t].status = "pending"}]]
    /\ UNCHANGED <<timers, jobs, notices, author, wk, chat, enabled, now, told, left>>

(* Load the settings and list the due candidates, without a lock.          *)
StartPass(s) ==
    /\ pass[s].pc = "idle"
    /\ \E t \in TimerIds : Due(t)
    /\ pass' = [pass EXCEPT ![s] =
                  [PassIdle EXCEPT !.pc = "next", !.on = enabled,
                                   !.todo = {t \in TimerIds : Due(t)}]]
    /\ UNCHANGED <<timers, jobs, notices, author, wk, chat, enabled, now, told, left>>

EndPass(s) ==
    /\ pass[s].pc = "next"
    /\ pass[s].todo = {}
    /\ pass' = [pass EXCEPT ![s] = PassIdle]
    /\ UNCHANGED <<timers, jobs, notices, author, wk, chat, enabled, now, told, left>>

(* claim_due: the compare-and-set of one candidate.                        *)
ClaimDue(s) ==
    /\ pass[s].pc = "next"
    /\ pass[s].todo # {}
    /\ LET t == Least(pass[s].todo)
           c == timers[t].claim + 1
       IN IF Due(t)
          THEN /\ timers' = [timers EXCEPT ![t].status = "claimed", ![t].claim = c,
                                           ![t].expired = FALSE]
               /\ pass' = [pass EXCEPT ![s].pc = IF pass[s].on THEN "submit" ELSE "explain",
                                       ![s].todo = @ \ {t}, ![s].t = t, ![s].claim = c]
          ELSE /\ pass' = [pass EXCEPT ![s].todo = @ \ {t}]
               /\ UNCHANGED timers
    /\ UNCHANGED <<jobs, notices, author, wk, chat, enabled, now, told, left>>

(* _submit: enqueue a job for the wake event.                              *)
Submit(s) ==
    /\ pass[s].pc = "submit"
    /\ CanEnqueue
    /\ Enqueue
    /\ pass' = [pass EXCEPT ![s].pc = "mark", ![s].job = EnqueuedId]
    /\ UNCHANGED <<timers, author, wk, chat, enabled, now, told, left>>

(* On to the next candidate, or to the cap after inserting an heir.        *)
NextUp(s) == [PassIdle EXCEPT !.pc = "next", !.on = pass[s].on, !.todo = pass[s].todo]
Capping(s, heir) == [NextUp(s) EXCEPT !.pc = "cap", !.keep = heir]

Held(s) ==
    /\ timers[pass[s].t].status = "claimed"
    /\ timers[pass[s].t].claim = pass[s].claim

(* The instance that follows a repeating timer: a new one, or the timer    *)
(* that already waits in its slot.                                         *)
Taken(t) == SameSlot(timers[t].due + 1, TRUE)
InBounds(t) == timers[t].due < MaxNow /\ (FreshTimers # {} \/ Taken(t) # {})
Follows(t) == timers[t].repeat /\ InBounds(t)
Heir(t) == IF Taken(t) # {} THEN CHOOSE u \in Taken(t) : TRUE ELSE NextTimer

Fire(s) ==
    LET t == pass[s].t
        fired == [timers EXCEPT ![t].status = "fired", ![t].job = pass[s].job]
    IN IF Follows(t)
       THEN /\ timers' = IF Taken(t) # {} THEN fired
                         ELSE [fired EXCEPT ![NextTimer] =
                                 PendingTimer(NextTimer, timers[t].due + 1, TRUE, timers[t].series)]
            /\ pass' = [pass EXCEPT ![s] = Capping(s, Heir(t))]
       ELSE /\ timers' = fired
            /\ pass' = [pass EXCEPT ![s] = NextUp(s)]

(* Mutant: mark_fired checks the claim id only, not that it still stands.  *)
MarkFiredByClaimId(s) ==
    /\ pass[s].pc = "mark"
    /\ IF timers[pass[s].t].claim = pass[s].claim
       THEN Fire(s)
       ELSE /\ pass' = [pass EXCEPT ![s] = NextUp(s)]
            /\ UNCHANGED timers
    /\ UNCHANGED <<jobs, notices, author, wk, chat, enabled, now, told, left>>

(* mark_fired, under the advisory lock: only the holder of the claim fires *)
(* an uncancelled timer, and inserts its heir in the same transaction.     *)
MarkFired(s) ==
    /\ pass[s].pc = "mark"
    /\ IF Held(s) /\ ~timers[pass[s].t].stopped
       THEN Fire(s)
       ELSE /\ pass' = [pass EXCEPT ![s] = NextUp(s)]
            /\ UNCHANGED timers
    /\ UNCHANGED <<jobs, notices, author, wk, chat, enabled, now, told, left>>

PassCap(s) ==
    /\ pass[s].pc = "cap"
    /\ pass' = [pass EXCEPT ![s] =
                  IF OverCap(pass[s].keep)
                  THEN [pass[s] EXCEPT !.pc = "evict",
                                       !.victim = Oldest(PendingTimers \ {pass[s].keep})]
                  ELSE NextUp(s)]
    /\ UNCHANGED <<timers, jobs, notices, author, wk, chat, enabled, now, told, left>>

PassEvict(s) ==
    /\ pass[s].pc = "evict"
    /\ timers' = Canceled(pass[s].victim)
    /\ pass' = [pass EXCEPT ![s].pc = "cap", ![s].victim = 0]
    /\ UNCHANGED <<jobs, notices, author, wk, chat, enabled, now, told, left>>

(* Scheduled wakes are switched off: a job carries the explanation ...     *)
Explain(s) ==
    /\ pass[s].pc = "explain"
    /\ CanEnqueue
    /\ Enqueue
    /\ pass' = [pass EXCEPT ![s].pc = "block"]
    /\ UNCHANGED <<timers, author, wk, chat, enabled, now, told, left>>

(* ... and the timer is marked blocked by the holder of the claim.         *)
MarkBlocked(s) ==
    /\ pass[s].pc = "block"
    /\ timers' = IF Held(s) THEN [timers EXCEPT ![pass[s].t].status = "blocked"] ELSE timers
    /\ pass' = [pass EXCEPT ![s] = NextUp(s)]
    /\ UNCHANGED <<jobs, notices, author, wk, chat, enabled, now, told, left>>

(* The process dies, or an enqueue raises out of the pass.  A failed       *)
(* explanation only defers its timer, which the claim's expiry also does.  *)
CrashPass(s) ==
    /\ Charge("crash")
    /\ pass[s].pc # "idle"
    /\ pass' = [pass EXCEPT ![s] = PassIdle]
    /\ UNCHANGED <<timers, jobs, notices, author, wk, chat, enabled, now, told>>

-----------------------------------------------------------------------------
(* The wake turn of the scheduled lane: worker._run_wake.                  *)

Owned == jobs[wk.job].status = "running" /\ jobs[wk.job].live

Finish(status) == jobs' = [jobs EXCEPT ![wk.job].status = status]

(* Claim the job and read its input generation and the reply cursor.       *)
WorkerClaim(j) ==
    /\ wk.pc = "idle"
    /\ jobs[j].status = "pending"
    /\ jobs' = [jobs EXCEPT ![j].status = "running", ![j].live = TRUE]
    /\ wk' = [WorkerIdle EXCEPT !.pc = "assemble", !.job = j, !.gen = jobs[j].gen]
    /\ UNCHANGED <<timers, notices, pass, author, chat, enabled, now, told, left>>

(* Unanswered user input: the wake yields to the chat lane and completes.  *)
Assemble ==
    /\ wk.pc = "assemble"
    /\ IF chat.sent > chat.answered
       THEN /\ IF Owned THEN Finish("completed") ELSE UNCHANGED jobs
            /\ wk' = WorkerIdle
       ELSE /\ wk' = [wk EXCEPT !.pc = "read", !.seen = chat.sent]
            /\ UNCHANGED jobs
    /\ UNCHANGED <<timers, notices, pass, author, chat, enabled, now, told, left>>

FiredInto(j) == {t \in TimerIds : timers[t].status = "fired" /\ timers[t].job = j}

(* Read the reminders fired into this job, with up to three short retries  *)
(* while there are none.                                                   *)
ReadNotes ==
    /\ wk.pc = "read"
    /\ wk' = [wk EXCEPT !.pc = "loop", !.notes = FiredInto(wk.job)]
    /\ UNCHANGED <<timers, jobs, notices, pass, author, chat, enabled, now, told, left>>

Tell(S) == told' = [t \in TimerIds |-> IF t \in S THEN told[t] + 1 ELSE told[t]]

(* Mutant: the final reply is published without the source-job fence.      *)
ReplyUnfenced ==
    /\ wk.pc = "loop"
    /\ Finish("completed")
    /\ Tell(wk.notes)
    /\ chat' = [chat EXCEPT !.answered = IF wk.seen > @ THEN wk.seen ELSE @]
    /\ wk' = WorkerIdle
    /\ UNCHANGED <<timers, notices, pass, author, enabled, now, left>>

(* The final reply: published, and the job completed, in one transaction   *)
(* when the job is still owned, its input generation is the one read at    *)
(* the start and no newer user message exists.                             *)
Reply ==
    /\ wk.pc = "loop"
    /\ Owned
    /\ jobs[wk.job].gen = wk.gen
    /\ chat.sent = wk.seen
    /\ Finish("completed")
    /\ Tell(wk.notes)
    /\ chat' = [chat EXCEPT !.answered = IF wk.seen > @ THEN wk.seen ELSE @]
    /\ wk' = WorkerIdle
    /\ UNCHANGED <<timers, notices, pass, author, enabled, now, left>>

(* FinalReplySuperseded: the candidate is discarded and another round      *)
(* folds the newer messages; the generation is never read again.  With no  *)
(* round left the loop returns without a reply and the turn completes.     *)
Superseded ==
    /\ wk.pc = "loop"
    /\ Owned
    /\ jobs[wk.job].gen # wk.gen \/ chat.sent # wk.seen
    /\ IF wk.rounds + 1 < MaxRounds
       THEN /\ wk' = [wk EXCEPT !.rounds = @ + 1, !.seen = chat.sent]
            /\ UNCHANGED jobs
       ELSE /\ Finish("completed")
            /\ wk' = WorkerIdle
    /\ UNCHANGED <<timers, notices, pass, author, chat, enabled, now, told, left>>

(* The turn raises: retried on the same job while tries are left, else     *)
(* failed with a user-visible notice (mark_failed).                        *)
Fail ==
    /\ Charge("fail")
    /\ wk.pc \in {"assemble", "read", "loop"}
    /\ Owned
    /\ \/ /\ jobs[wk.job].tries < MaxTries
          /\ jobs' = [jobs EXCEPT ![wk.job].status = "pending", ![wk.job].tries = @ + 1]
          /\ UNCHANGED notices
       \/ /\ Finish("failed")
          /\ notices' = notices \cup {wk.job}
    /\ wk' = WorkerIdle
    /\ UNCHANGED <<timers, pass, author, chat, enabled, now, told>>

(* A turn that lost its lease drops out at its next fenced step.           *)
LostLease ==
    /\ wk.pc # "idle"
    /\ ~Owned
    /\ wk' = WorkerIdle
    /\ UNCHANGED <<timers, jobs, notices, pass, author, chat, enabled, now, told, left>>

JobLapses(j) ==
    /\ Charge("lapse")
    /\ jobs[j].status = "running"
    /\ jobs[j].live
    /\ jobs' = [jobs EXCEPT ![j].live = FALSE]
    /\ UNCHANGED <<timers, notices, pass, author, wk, chat, enabled, now, told>>

(* The lease reaper: a lapsed scheduled job expires visibly.               *)
Reap(j) ==
    /\ jobs[j].status = "running"
    /\ ~jobs[j].live
    /\ jobs' = [jobs EXCEPT ![j].status = "expired"]
    /\ notices' = notices \cup {j}
    /\ UNCHANGED <<timers, pass, author, wk, chat, enabled, now, told, left>>

(* The terminal-failure reply names the reminders fired into the job.      *)
ShowNotice(j) ==
    /\ j \in notices
    /\ notices' = notices \ {j}
    /\ Tell(FiredInto(j))
    /\ UNCHANGED <<timers, jobs, pass, author, wk, chat, enabled, now, left>>

Send ==
    /\ chat.sent < MaxSends
    /\ chat' = [chat EXCEPT !.sent = @ + 1]
    /\ UNCHANGED <<timers, jobs, notices, pass, author, wk, enabled, now, told, left>>

(* The chat lane answers everything sent so far.                           *)
Answer ==
    /\ chat.sent > chat.answered
    /\ chat' = [chat EXCEPT !.answered = chat.sent]
    /\ UNCHANGED <<timers, jobs, notices, pass, author, wk, enabled, now, told, left>>

-----------------------------------------------------------------------------
PassStep(s) ==
    \/ StartPass(s)
    \/ EndPass(s)
    \/ ClaimDue(s)
    \/ Submit(s)
    \/ MarkFired(s)
    \/ PassCap(s)
    \/ PassEvict(s)
    \/ Explain(s)
    \/ MarkBlocked(s)

WorkerStep ==
    \/ \E j \in JobIds : WorkerClaim(j)
    \/ Assemble
    \/ ReadNotes
    \/ Reply
    \/ Superseded
    \/ LostLease

Next ==
    \/ \E due \in Dues, repeat \in Repeats : Schedule(due, repeat)
    \/ AuthorCap
    \/ AuthorEvict
    \/ \E t \in TimerIds : CancelTimer(t) \/ ClaimExpires(t)
    \/ Toggle
    \/ Tick
    \/ \E s \in Schedulers : PassStep(s) \/ CrashPass(s)
    \/ WorkerStep
    \/ Fail
    \/ \E j \in JobIds : JobLapses(j) \/ Reap(j) \/ ShowNotice(j)
    \/ Send
    \/ Answer

Spec == Init /\ [][Next]_vars

(* Scheduler ticks, workers, the reaper and the notice reconciler are      *)
(* unconditional loops, and time passes.                                   *)
Fairness ==
    /\ WF_vars(Tick)
    /\ \A s \in Schedulers : WF_vars(PassStep(s))
    /\ WF_vars(WorkerStep)
    /\ \A t \in TimerIds : WF_vars(ClaimExpires(t))
    /\ \A j \in JobIds : WF_vars(Reap(j)) /\ WF_vars(ShowNotice(j))
    /\ WF_vars(Answer)

FairSpec == Spec /\ Fairness

-----------------------------------------------------------------------------
TimerStatus == {"none", "pending", "claimed", "fired", "blocked", "canceled"}
JobStatus == {"none", "pending", "running", "completed", "failed", "expired"}

(* The rows, passes and turn hold the values their columns and variables   *)
(* may hold.                                                               *)
TypeOK ==
    /\ \A t \in TimerIds :
         /\ timers[t].status \in TimerStatus
         /\ timers[t].due \in 0 .. MaxNow
         /\ timers[t].series \in 0 .. MaxTimers
         /\ timers[t].job \in 0 .. MaxJobs
         /\ told[t] \in Nat
    /\ \A j \in JobIds : jobs[j].status \in JobStatus
    /\ notices \subseteq JobIds
    /\ \A s \in Schedulers :
         pass[s].pc \in {"idle", "next", "submit", "mark", "cap", "evict", "explain", "block"}
    /\ wk.pc \in {"idle", "assemble", "read", "loop"}
    /\ Cardinality(ActiveJobs) <= 1
=============================================================================
