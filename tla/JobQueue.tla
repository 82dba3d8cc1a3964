------------------------------ MODULE JobQueue ------------------------------
(***************************************************************************)
(* The durable job queue of Runtime V2 (table agent_jobs,                  *)
(* model_api_runtime/v2/jobs_store.py), for ONE user.  Jobs of different   *)
(* users share no row and no lock, so one user's slice carries every       *)
(* queue property of a user.                                               *)
(*                                                                         *)
(* One action is one database transaction.  The claim is the exception:    *)
(* it picks its candidate from an unlocked snapshot and only then waits    *)
(* for the lock of the user's v2_runtime_state row, so it is two actions.  *)
(*                                                                         *)
(* Time is abstracted to what the code compares: a lease is live or        *)
(* expired, a queued chat job is past its queue deadline or not, a         *)
(* delayed job is available or not.  Renewing a live lease is then a       *)
(* stuttering step; LeaseExpires is the lack of a renewal.                 *)
(*                                                                         *)
(* A member of Owners is one generation of a slot process: the value       *)
(* {worker}:{slot}:{uuid} stored in claimed_by.  A dead one never returns. *)
(***************************************************************************)
EXTENDS Naturals

CONSTANTS
  Owners,                \* slot-process generations
  NoOwner,               \* claimed_by IS NULL
  Lanes,                 \* the lanes in use
  PoolLanes,             \* lane whitelist of each slot: [Owners -> SUBSET Lanes]
  ScheduledMaxAttempts,  \* SCHEDULED_LEASE_REQUEUE_MAX_ATTEMPTS
  ScheduledRetries,      \* len(_SCHEDULED_FAILURE_RETRY_DELAYS_SEC)
  GeneralMaxAttempts,    \* GENERAL_LEASE_REQUEUE_MAX_ATTEMPTS
  MaxJobs,               \* bound: rows ever inserted
  MaxInput,              \* bound: input_generation of a row
  MaxRetries,            \* bound: attempts of a self-rescheduled profile job
  MaxGen                 \* bound: runtime_generation

AllLanes == {"chat", "manual_wake", "heartbeat", "scheduled", "screen_watch",
             "capture", "maintenance", "dream", "profile"}

ASSUME ConstantsAssumption ==
  /\ NoOwner \notin Owners
  /\ Lanes \subseteq AllLanes
  /\ PoolLanes \in [Owners -> SUBSET Lanes]
  /\ ScheduledMaxAttempts \in Nat \ {0}
  /\ ScheduledRetries \in 0 .. ScheduledMaxAttempts
  /\ GeneralMaxAttempts \in Nat \ {0}
  /\ MaxJobs \in Nat /\ MaxInput \in Nat /\ MaxRetries \in Nat /\ MaxGen \in Nat \ {0}

VARIABLES
  rtState,    \* v2_runtime_state.hosted_runtime_state
  rtGen,      \* v2_runtime_state.runtime_generation
  jobs,       \* the rows of agent_jobs, by id
  nextId,     \* the id sequence
  failures,   \* jobs with a row in v2_terminal_failure_outbox
  slots,      \* what each slot process is doing
  killed,     \* (job, owner) pairs the parent process still has to recover
  clearedTo   \* history: ids below this one existed at the last Chat Clear

vars == <<rtState, rtGen, jobs, nextId, failures, slots, killed, clearedTo>>
runtime == <<rtState, rtGen>>

Ids == 1 .. MaxJobs
NullGen == 0
Executing == {"claimed", "running"}
ActiveStatuses == Executing \cup {"pending"}
TerminalStatuses == {"completed", "failed", "expired", "superseded"}
Statuses == {"absent"} \cup ActiveStatuses \cup TerminalStatuses

LanePriority == [l \in AllLanes |->
  CASE l \in {"chat", "manual_wake"} -> 100
    [] l \in {"heartbeat", "scheduled", "screen_watch"} -> 50
    [] OTHER -> 10]

\* Lanes whose failure the user must see, and lanes whose whole turn may run
\* again only while it has written nothing.
VisibleLanes == {"chat", "scheduled"}
GuardedWakeLanes == {"heartbeat", "manual_wake", "screen_watch"}
ReplyLanes == {"chat", "scheduled"} \cup GuardedWakeLanes
ReplayGuardedLanes == ReplyLanes

NewRow(l, g) ==
  [lane |-> l, status |-> "pending", owner |-> NoOwner, lease |-> "none", gen |-> g,
   input |-> 0, attempt |-> 0, overdue |-> FALSE, ready |-> TRUE,
   writers |-> {}, crashes |-> 0]
NoRow == [NewRow("chat", NullGen) EXCEPT !.status = "absent"]
Idle == [pc |-> "idle", job |-> 0, observed |-> 0]

Init ==
  /\ rtState = "v2" /\ rtGen = 1
  /\ jobs = [j \in Ids |-> NoRow] /\ nextId = 1
  /\ failures = {} /\ killed = {}
  /\ slots = [w \in Owners |-> Idle]
  /\ clearedTo = 1

-----------------------------------------------------------------------------
(* Rows.                                                                   *)

\* The claim and deadline columns of a row that is no longer active are read by
\* no transition (every fence also requires an active status); the model clears
\* them on all paths, the code only on some.
Released(r) == [r EXCEPT !.owner = NoOwner, !.lease = "none", !.overdue = FALSE]
Ended(r, status) == [Released(r) EXCEPT !.status = status]
Requeued(r) == [Released(r) EXCEPT !.status = "pending"]
Retried(r) == [Requeued(r) EXCEPT !.attempt = @ + 1]
Superseded(r) == Ended(r, "superseded")
Expired(r) == [Ended(r, "expired") EXCEPT !.attempt = @ + 1]
Failed(r) == [Ended(r, "failed") EXCEPT !.attempt = @ + 1]

\* _turn_is_pristine_on_cursor: no remote mutation attempt and no durable
\* platform effect is recorded for the job.
Pristine(r) == r.writers = {}
LeaseOver(r) == r.status \in Executing /\ r.lease = "expired"
QueueOver(r) == r.status = "pending" /\ r.overdue
QueuedIn(J, l) == {j \in Ids : J[j].lane = l /\ J[j].status = "pending"} \* mutant
ActiveIn(J, l) == {j \in Ids : J[j].lane = l /\ J[j].status \in ActiveStatuses}
CurrentGen == IF rtState = "v2" THEN rtGen ELSE NullGen

QueueChatFailures(F, S) == F \cup {j \in S : jobs[j].lane = "chat"} \* mutant
\* _queue_terminal_failure_on_cursor for the jobs S, added to the outbox F.
QueueFailures(F, S) == F \cup {j \in S : jobs[j].lane \in VisibleLanes}

\* _record_capture_crash_failure_on_cursor: a terminalized Capture claim counts
\* as one capture failure unless the runtime moved on, a newer Capture job has
\* run, or the user disabled capture.
CrashRecorded(J, j, enabled) ==
  LET counts == /\ rtState = "v2" /\ J[j].gen = rtGen /\ enabled
                /\ \A i \in Ids : (i > j /\ J[i].lane = "capture")
                                    => J[i].status \in {"absent", "pending"}
  IN  IF counts THEN [J[j] EXCEPT !.crashes = @ + 1] ELSE J[j]

\* Mutant: the counted claim goes back to the queue.
RequeueCapture(J, j, enabled) ==
  [J EXCEPT ![j] = Requeued(CrashRecorded(J, j, enabled))]
\* _expire_overdue_capture_on_cursor
ExpireCapture(J, j, enabled) ==
  [J EXCEPT ![j] = Expired(CrashRecorded(J, j, enabled))]

-----------------------------------------------------------------------------
(* Enqueueing.                                                             *)

GenStale(r, g) == g # NullGen /\ r.gen # g
Coalesces(J, l, g) ==
  \E j \in ActiveIn(J, l) :
    ~LeaseOver(J[j]) /\ ~QueueOver(J[j]) /\ ~GenStale(J[j], g)

\* coalesce_or_insert_on_cursor on the rows J, F being the failure outbox so
\* far.  A fresh active job of the lane absorbs the input; a stale one frees
\* the lane, silently when it belongs to another generation and as a visible
\* timeout otherwise, and a new pending row is inserted.
CoalesceOrInsert(J, F, l, g) ==
  LET old == ActiveIn(J, l)
      retired == [j \in Ids |->
                    IF j \notin old THEN J[j]
                    ELSE IF GenStale(J[j], g) THEN Superseded(J[j]) ELSE Expired(J[j])]
  IN  \/ /\ Coalesces(J, l, g)
         /\ \A j \in old : J[j].input < MaxInput
         /\ jobs' = [j \in Ids |-> IF j \in old THEN [J[j] EXCEPT !.input = @ + 1] ELSE J[j]]
         /\ failures' = F
         /\ UNCHANGED nextId
      \/ /\ ~Coalesces(J, l, g)
         /\ nextId \in Ids
         /\ jobs' = [retired EXCEPT ![nextId] = NewRow(l, g)]
         /\ failures' = QueueFailures(F, {j \in old : ~GenStale(J[j], g)})
         /\ nextId' = nextId + 1

\* enqueue_job: every producer except chat and capture, at the current
\* generation.
Enqueue(l) ==
  /\ l \in Lanes \ {"chat", "capture"}
  /\ CoalesceOrInsert(jobs, failures, l, CurrentGen)
  /\ UNCHANGED <<runtime, slots, killed, clearedTo>>

\* enqueue_job with the generation its caller read earlier and without a lock:
\* the sweeper that re-enqueues unanswered chat messages.
EnqueueObserved(g) ==
  /\ "chat" \in Lanes
  /\ g \in 1 .. rtGen
  /\ CoalesceOrInsert(jobs, failures, "chat", g)
  /\ UNCHANGED <<runtime, slots, killed, clearedTo>>

\* _enqueue_capture_once: a crashed claim met on the way is terminalized and
\* counted, and no new job is made in this round.
EnqueueCapture(enabled) ==
  LET old == ActiveIn(jobs, "capture")
      crashed == {j \in old : LeaseOver(jobs[j]) /\ ~GenStale(jobs[j], CurrentGen)}
  IN  /\ "capture" \in Lanes
      /\ \/ \E j \in crashed :
              jobs' = ExpireCapture(jobs, j, enabled) /\ UNCHANGED <<failures, nextId>>
         \/ crashed = {} /\ CoalesceOrInsert(jobs, failures, "capture", CurrentGen)
      /\ UNCHANGED <<runtime, slots, killed, clearedTo>>

\* preempt_active_for_chat_on_cursor on one row; crashed says that a Capture
\* claim is past its lease or its whole worker is known to be dead.
PreemptedRow(j, crashed, enabled) ==
  LET r == jobs[j]
      active == r.status \in ActiveStatuses
  IN  CASE r.lane = "chat" \/ ~active -> r
        [] active /\ r.lane = "capture" ->
             IF r.status \in Executing /\ crashed
             THEN ExpireCapture(jobs, j, enabled)[j] ELSE Requeued(r)
        [] active /\ r.lane = "scheduled" ->
             IF Pristine(r) THEN Requeued(r) ELSE Ended(r, "expired")
        [] OTHER -> Superseded(r)
UnsafeToReplay ==
  {j \in ActiveIn(jobs, "scheduled") : ~Pristine(jobs[j])}

\* chat_append_and_enqueue: preempt the user's background work, then coalesce
\* or insert the chat job, in one transaction fenced on the runtime row.
ChatSend(ownerDead, enabled) ==
  LET J == [j \in Ids |-> PreemptedRow(j, ownerDead \/ LeaseOver(jobs[j]), enabled)]
  IN  /\ "chat" \in Lanes /\ rtState = "v2"
      /\ CoalesceOrInsert(J, QueueFailures(failures, UnsafeToReplay), "chat", rtGen)
      /\ UNCHANGED <<runtime, slots, killed, clearedTo>>

-----------------------------------------------------------------------------
(* Claiming.                                                               *)

NothingRunning == \A i \in Ids : jobs[i].status # "running" \* mutant: forgets claims
NothingExecuting == \A i \in Ids : jobs[i].status \notin Executing
Claimable(j) ==
  jobs[j].status = "pending" /\ jobs[j].ready /\ ~jobs[j].overdue /\ NothingExecuting

\* claim_next_job, first statement: choose the queue head in this statement's
\* snapshot, then wait for the lock of the runtime-state row.  Rows of equal
\* priority are ordered by created_at; either may be first here.
SelectCandidate(w) ==
  /\ slots[w].pc = "idle"
  /\ \E j \in Ids :
       /\ Claimable(j) /\ jobs[j].lane \in PoolLanes[w]
       /\ \A i \in Ids : Claimable(i) /\ jobs[i].lane \in PoolLanes[w]
                           => LanePriority[jobs[i].lane] <= LanePriority[jobs[j].lane]
       /\ slots' = [slots EXCEPT ![w] = [pc |-> "picked", job |-> j, observed |-> 0]]
  /\ UNCHANGED <<runtime, jobs, nextId, failures, killed, clearedTo>>

\* claim_next_job, with the runtime-state row locked.  A user who has left v2
\* has the picked row superseded by id alone; otherwise the row is revalidated
\* and claimed, or superseded when it is pinned to another generation.
ClaimLocked(w) ==
  LET j == slots[w].job
      r == jobs[j]
      claimed == [r EXCEPT !.status = "claimed", !.owner = w, !.lease = "live", !.gen = rtGen]
      back == [slots EXCEPT ![w] = Idle]
  IN  /\ slots[w].pc = "picked"
      /\ \/ /\ rtState # "v2"
            /\ jobs' = [jobs EXCEPT ![j] = Superseded(r)] /\ slots' = back
         \/ /\ rtState = "v2" /\ ~Claimable(j)
            /\ slots' = back /\ UNCHANGED jobs
         \/ /\ rtState = "v2" /\ Claimable(j) /\ r.gen \in {NullGen, rtGen}
            /\ jobs' = [jobs EXCEPT ![j] = claimed]
            /\ slots' = [slots EXCEPT ![w].pc = "claimed"]
         \/ /\ rtState = "v2" /\ Claimable(j) /\ r.gen \notin {NullGen, rtGen}
            /\ jobs' = [jobs EXCEPT ![j] = Superseded(r)] /\ slots' = back
      /\ UNCHANGED <<runtime, nextId, failures, killed, clearedTo>>

-----------------------------------------------------------------------------
(* The turn.                                                               *)

\* The two fences of the worker's writes: owner and live lease, and for the
\* transitions that start or continue work also the runtime generation.
Owned(w) ==
  LET r == jobs[slots[w].job]
  IN  /\ slots[w].pc \in {"claimed", "turn"}
      /\ r.status \in Executing /\ r.owner = w /\ r.lease = "live"
OwnedNow(w) ==
  Owned(w) /\ rtState = "v2" /\ jobs[slots[w].job].gen = rtGen
Running(w) == Owned(w) /\ jobs[slots[w].job].status = "running"

\* mark_running; a refused start ends the turn and leaves the row to the reaper.
MarkRunning(w) ==
  LET j == slots[w].job
  IN  /\ slots[w].pc = "claimed"
      /\ \/ /\ OwnedNow(w) /\ jobs[j].status = "claimed"
            /\ jobs' = [jobs EXCEPT ![j].status = "running"]
            /\ slots' = [slots EXCEPT ![w].pc = "turn"]
         \/ /\ ~(OwnedNow(w) /\ jobs[j].status = "claimed")
            /\ slots' = [slots EXCEPT ![w] = Idle] /\ UNCHANGED jobs
      /\ UNCHANGED <<runtime, nextId, failures, killed, clearedTo>>

\* get_input_generation: the turn reads how much input it is about to consume.
Observe(w) ==
  /\ slots[w].pc = "turn"
  /\ slots' = [slots EXCEPT ![w].observed = jobs[slots[w].job].input]
  /\ UNCHANGED <<runtime, jobs, nextId, failures, killed, clearedTo>>

\* start_mcp_mutation_attempt (before the remote call leaves the worker) and
\* the owner-fenced effect_enqueue: the record of a durable write, kept here as
\* the slot that made it.  What the remote call returned only labels the record.
RecordWrite(w) ==
  LET j == slots[w].job
  IN  /\ Running(w)
      /\ jobs' = [jobs EXCEPT ![j].writers = @ \cup {w}]
      /\ UNCHANGED <<runtime, nextId, failures, slots, killed, clearedTo>>

\* _complete_final_reply_job_on_cursor: applying the final-reply effect
\* completes the job in the transaction that publishes the reply.  New input
\* refuses a wake's reply; a chat reply answers the message it was pinned to
\* whatever was queued behind it (preserve_queued_input).
FinalReply(w) ==
  LET j == slots[w].job
  IN  /\ Running(w) /\ OwnedNow(w)
      /\ jobs[j].lane \in ReplyLanes
      /\ jobs[j].lane # "chat" => jobs[j].input = slots[w].observed
      /\ jobs' = [jobs EXCEPT ![j] = Ended(@, "completed")]
      /\ UNCHANGED <<runtime, nextId, failures, slots, killed, clearedTo>>

\* After that commit the worker enqueues a chat job for the input queued behind
\* the answered message, in a transaction of its own.
OrderedFollowup(w) ==
  LET j == slots[w].job
  IN  /\ slots[w].pc = "turn"
      /\ jobs[j].lane = "chat" /\ jobs[j].status = "completed"
      /\ CoalesceOrInsert(jobs, failures, "chat", CurrentGen)
      /\ slots' = [slots EXCEPT ![w] = Idle]
      /\ UNCHANGED <<runtime, killed, clearedTo>>

\* finish_chat_job: complete, and hand input that arrived after the turn
\* looked (or that force says is unconsumed) to exactly one successor.
FinishChat(w, force) ==
  LET j == slots[w].job
      done == [jobs EXCEPT ![j] = Ended(@, "completed")]
      more == force \/ jobs[j].input > slots[w].observed
  IN  /\ Running(w) /\ OwnedNow(w) /\ jobs[j].lane = "chat"
      /\ \/ ~more /\ jobs' = done /\ UNCHANGED nextId
         \/ /\ more /\ nextId \in Ids
            /\ jobs' = [done EXCEPT ![nextId] = NewRow("chat", rtGen)]
            /\ nextId' = nextId + 1
      /\ slots' = [slots EXCEPT ![w] = Idle]
      /\ UNCHANGED <<runtime, failures, killed, clearedTo>>

\* finish_wake_job (heartbeat): the same handoff; the successor starts with the
\* input that arrived late when some of it carried context.
FinishWake(w, context) ==
  LET j == slots[w].job
      done == [jobs EXCEPT ![j] = Ended(@, "completed")]
      late == jobs[j].input - slots[w].observed
      next == [NewRow("heartbeat", rtGen) EXCEPT !.input = IF context THEN late ELSE 0]
  IN  /\ OwnedNow(w) /\ jobs[j].lane = "heartbeat"
      /\ \/ late <= 0 /\ jobs' = done /\ UNCHANGED nextId
         \/ /\ late > 0 /\ nextId \in Ids
            /\ jobs' = [done EXCEPT ![nextId] = next]
            /\ nextId' = nextId + 1
      /\ slots' = [slots EXCEPT ![w] = Idle]
      /\ UNCHANGED <<runtime, failures, killed, clearedTo>>

\* mark_completed: every other lane.  No generation fence.
MarkCompleted(w) ==
  LET j == slots[w].job
  IN  /\ Owned(w) /\ jobs[j].lane \notin {"chat", "heartbeat"}
      /\ jobs' = [jobs EXCEPT ![j] = Ended(@, "completed")]
      /\ slots' = [slots EXCEPT ![w] = Idle]
      /\ UNCHANGED <<runtime, nextId, failures, killed, clearedTo>>

\* mark_failed: the terminal row and its visibility obligation together.
MarkFailed(w) ==
  LET j == slots[w].job
  IN  /\ Owned(w)
      /\ jobs' = [jobs EXCEPT ![j] = Failed(@)]
      /\ failures' = QueueFailures(failures, {j})
      /\ slots' = [slots EXCEPT ![w] = Idle]
      /\ UNCHANGED <<runtime, nextId, killed, clearedTo>>

\* reschedule_owned_job (profile) and reschedule_pristine_scheduled_failure:
\* the exact live claim goes back to pending at a future time.
RetryLater(r) == [Retried(r) EXCEPT !.ready = FALSE]
RescheduleProfile(w) ==
  LET j == slots[w].job
  IN  /\ OwnedNow(w) /\ jobs[j].lane = "profile"
      /\ jobs[j].attempt < MaxRetries
      /\ jobs' = [jobs EXCEPT ![j] = RetryLater(@)]
      /\ slots' = [slots EXCEPT ![w] = Idle]
      /\ UNCHANGED <<runtime, nextId, failures, killed, clearedTo>>
RetryScheduled(w) ==
  LET j == slots[w].job
  IN  /\ OwnedNow(w) /\ jobs[j].lane = "scheduled"
      /\ Pristine(jobs[j]) /\ jobs[j].attempt < ScheduledRetries
      /\ jobs' = [jobs EXCEPT ![j] = RetryLater(@)]
      /\ slots' = [slots EXCEPT ![w] = Idle]
      /\ UNCHANGED <<runtime, nextId, failures, killed, clearedTo>>

\* ensure_terminal_failure_outbox: the turn surfaces an error although its job
\* may be completed or lost, fenced on the job's generation.
SurfaceFailure(w) ==
  LET j == slots[w].job
  IN  /\ slots[w].pc = "turn" /\ jobs[j].status \in TerminalStatuses
      /\ rtState = "v2" /\ jobs[j].gen = rtGen
      /\ failures' = QueueFailures(failures, {j})
      /\ UNCHANGED <<runtime, jobs, nextId, slots, killed, clearedTo>>

\* The turn ends without a transition of its row: a fence refused the last
\* call, the row was already completed by FinalReply, or the cleanup failed.
EndTurn(w) ==
  /\ slots[w].pc \in {"claimed", "turn"}
  /\ slots' = [slots EXCEPT ![w] = Idle]
  /\ UNCHANGED <<runtime, jobs, nextId, failures, killed, clearedTo>>

-----------------------------------------------------------------------------
(* Crashes, the watchdog and the reaper.                                   *)

\* A slot process dies holding work.  When its parent killed it, the exact (job, owner)
\* pair is queued for recovery; when the host died, nobody remembers it.
Crash(w) ==
  /\ slots[w].pc \in {"picked", "claimed", "turn"}
  /\ slots' = [slots EXCEPT ![w] = [Idle EXCEPT !.pc = "dead"]]
  /\ UNCHANGED <<runtime, jobs, nextId, failures, killed, clearedTo>>
WatchdogKill(w) ==
  /\ slots[w].pc \in {"claimed", "turn"}
  /\ slots' = [slots EXCEPT ![w] = [Idle EXCEPT !.pc = "dead"]]
  /\ killed' = killed \cup {<<slots[w].job, w>>}
  /\ UNCHANGED <<runtime, jobs, nextId, failures, clearedTo>>

\* recover_killed_job on one row: chat is terminal and visible; a pristine
\* scheduled turn with budget left runs again, otherwise it is terminal and
\* visible; a guarded wake that wrote is terminal and silent; the rest is
\* requeued until the general budget is spent.
GeneralRecover(j, enabled) ==
  LET over == IF jobs[j].lane = "capture" THEN CrashRecorded(jobs, j, enabled) ELSE jobs[j]
  IN  IF jobs[j].attempt < GeneralMaxAttempts THEN Retried(jobs[j]) ELSE Expired(over)
KilledRow(j, enabled) ==
  LET r == jobs[j]
  IN  CASE r.lane = "chat" -> Expired(r)
        [] r.lane = "scheduled" ->
             IF Pristine(r) /\ r.attempt < ScheduledMaxAttempts
             THEN Retried(r) ELSE Expired(r)
        [] r.lane \in GuardedWakeLanes /\ ~Pristine(r) -> Expired(r)
        [] OTHER -> GeneralRecover(j, enabled)
RecoverKilled(j, w, enabled) ==
  LET held == jobs[j].owner = w /\ jobs[j].status \in Executing
      row == KilledRow(j, enabled)
  IN  /\ <<j, w>> \in killed
      /\ killed' = killed \ {<<j, w>>}
      /\ \/ /\ held
            /\ jobs' = [jobs EXCEPT ![j] = row]
            /\ failures' = QueueFailures(failures, IF row.status = "expired" THEN {j} ELSE {})
         \/ ~held /\ UNCHANGED <<jobs, failures>>
      /\ UNCHANGED <<runtime, nextId, slots, clearedTo>>

\* The recovery queue gives up after its last retry; the lease reaper is left.
DropRecovery(j, w) ==
  /\ <<j, w>> \in killed
  /\ killed' = killed \ {<<j, w>>}
  /\ UNCHANGED <<runtime, jobs, nextId, failures, slots, clearedTo>>

\* Mutants: requeue whatever the turn wrote, or once more than the budget; reap
\* only one kind of overdue row.
RequeueableOnceMore(r) ==
  r.lane = "scheduled" /\ LeaseOver(r) /\ Pristine(r) /\ r.attempt <= ScheduledMaxAttempts
RequeueableUnguarded(r) ==
  r.lane = "scheduled" /\ LeaseOver(r) /\ r.attempt < ScheduledMaxAttempts
ReapableRuns(r) == QueueOver(r) \/ (LeaseOver(r) /\ r.status = "running")
\* reap_stuck_job_rows: one transaction over every overdue row.  Pristine
\* scheduled claims with budget left are requeued first; every other overdue
\* row expires, except Capture claims, which have their own transaction.
Requeueable(r) ==
  /\ r.lane = "scheduled" /\ LeaseOver(r)
  /\ Pristine(r) /\ r.attempt < ScheduledMaxAttempts
Reapable(r) == QueueOver(r) \/ (LeaseOver(r) /\ r.lane # "capture")
Reap ==
  LET expired == {j \in Ids : Reapable(jobs[j]) /\ ~Requeueable(jobs[j])}
  IN  /\ \E j \in Ids : Reapable(jobs[j])
      /\ jobs' = [j \in Ids |->
                    CASE Requeueable(jobs[j]) -> Retried(jobs[j])
                      [] j \in expired -> Expired(jobs[j])
                      [] OTHER -> jobs[j]]
      /\ failures' = QueueFailures(failures, expired)
      /\ UNCHANGED <<runtime, nextId, slots, killed, clearedTo>>

\* _reap_overdue_capture_claims
ReapCapture(j, enabled) ==
  /\ jobs[j].lane = "capture" /\ LeaseOver(jobs[j])
  /\ jobs' = ExpireCapture(jobs, j, enabled)
  /\ UNCHANGED <<runtime, nextId, failures, slots, killed, clearedTo>>

-----------------------------------------------------------------------------
(* Runtime ownership and time.                                             *)

\* patch_blob_strict with a runtime_state_target: one transaction through
\* draining, two generations further.
Cutover(target) ==
  /\ rtState # target /\ rtGen + 2 <= MaxGen
  /\ rtState' = target /\ rtGen' = rtGen + 2
  /\ UNCHANGED <<jobs, nextId, failures, slots, killed, clearedTo>>

\* chat_clear: a new generation of the same runtime; every active job is
\* superseded and the obligations and write records of old turns are deleted.
ChatClear ==
  /\ rtGen < MaxGen
  /\ rtGen' = rtGen + 1
  /\ jobs' = [j \in Ids |->
                [(IF jobs[j].status \in ActiveStatuses
                  THEN Superseded(jobs[j]) ELSE jobs[j])
                   EXCEPT !.writers = {}]]
  /\ failures' = {}
  /\ clearedTo' = nextId
  /\ UNCHANGED <<rtState, nextId, slots, killed>>

\* renew_job_lease was not called, or was refused, for a whole lease.
LeaseExpires(j) ==
  /\ jobs[j].status \in Executing /\ jobs[j].lease = "live"
  /\ jobs' = [jobs EXCEPT ![j].lease = "expired"]
  /\ UNCHANGED <<runtime, nextId, failures, slots, killed, clearedTo>>

\* Only chat rows are inserted with a queue deadline.
QueueDeadlinePasses(j) ==
  /\ jobs[j].status = "pending" /\ jobs[j].lane = "chat" /\ ~jobs[j].overdue
  /\ jobs' = [jobs EXCEPT ![j].overdue = TRUE]
  /\ UNCHANGED <<runtime, nextId, failures, slots, killed, clearedTo>>

\* available_at passes, or make_pending_job_ready moves it to now.
BecomesReady(j) ==
  /\ jobs[j].status = "pending" /\ ~jobs[j].ready
  /\ jobs' = [jobs EXCEPT ![j].ready = TRUE]
  /\ UNCHANGED <<runtime, nextId, failures, slots, killed, clearedTo>>

-----------------------------------------------------------------------------
Turn(w) ==
  \/ MarkRunning(w) \/ Observe(w)
  \/ RecordWrite(w) \/ FinalReply(w) \/ OrderedFollowup(w)
  \/ (\E force \in BOOLEAN : FinishChat(w, force))
  \/ (\E context \in BOOLEAN : FinishWake(w, context))
  \/ MarkCompleted(w) \/ MarkFailed(w)
  \/ RescheduleProfile(w) \/ RetryScheduled(w)
  \/ SurfaceFailure(w) \/ EndTurn(w)
Recovery ==
  \/ \E w \in Owners : Crash(w) \/ WatchdogKill(w)
  \/ \E j \in Ids, w \in Owners : DropRecovery(j, w)
  \/ \E j \in Ids, w \in Owners, enabled \in BOOLEAN : RecoverKilled(j, w, enabled)
  \/ Reap
  \/ \E j \in Ids, enabled \in BOOLEAN : ReapCapture(j, enabled)
Producer ==
  \/ \E l \in Lanes : Enqueue(l)
  \/ \E g \in 1 .. MaxGen : EnqueueObserved(g)
  \/ \E enabled \in BOOLEAN : EnqueueCapture(enabled)
  \/ \E ownerDead, enabled \in BOOLEAN : ChatSend(ownerDead, enabled)
Environment ==
  \/ \E target \in {"resident", "v2"} : Cutover(target)
  \/ ChatClear
  \/ \E j \in Ids : LeaseExpires(j) \/ QueueDeadlinePasses(j) \/ BecomesReady(j)

Next ==
  \/ Producer \/ Recovery \/ Environment
  \/ \E w \in Owners : SelectCandidate(w) \/ ClaimLocked(w) \/ Turn(w)

Spec == Init /\ [][Next]_vars

\* The reaper loop runs for ever in the backend and in every worker process; a
\* lease that nobody renews expires, and the watchdog's absolute turn budget
\* ends the renewals of a turn that never returns.
FairSpec ==
  /\ Spec
  /\ WF_vars(Reap)
  /\ \A j \in Ids :
       /\ WF_vars(LeaseExpires(j)) /\ WF_vars(QueueDeadlinePasses(j))
       /\ WF_vars(\E enabled \in BOOLEAN : ReapCapture(j, enabled))

-----------------------------------------------------------------------------
(* Properties.                                                             *)

Rows ==
  [lane : AllLanes, status : Statuses, owner : Owners \cup {NoOwner},
   lease : {"none", "live", "expired"}, gen : Nat, input : Nat, attempt : Nat,
   overdue : BOOLEAN, ready : BOOLEAN, writers : SUBSET Owners, crashes : Nat]

\* The columns hold the values the code writes into them; a slot that has
\* picked, claimed or runs a job names a row that exists in the table.
TypeOK ==
  /\ rtState \in {"resident", "v2"} /\ rtGen \in Nat \ {0}
  /\ jobs \in [Ids -> Rows] /\ nextId \in 1 .. MaxJobs + 1
  /\ failures \subseteq Ids /\ killed \subseteq Ids \X Owners
  /\ slots \in [Owners -> [pc : {"idle", "picked", "claimed", "turn", "dead"},
                           job : Nat, observed : Nat]]
  /\ \A w \in Owners : slots[w].pc \in {"picked", "claimed", "turn"} => slots[w].job \in Ids
  /\ clearedTo \in 1 .. MaxJobs + 1

\* At most one job of the user is claimed or running, whatever the slots, the
\* watchdog, the reaper, preemption and cutovers do (claim_next_job).
AtMostOneExecuting ==
  \A i, j \in Ids : jobs[i].status \in Executing /\ jobs[j].status \in Executing => i = j

\* A lane has at most one active job, so every new input finds the row that
\* will consume it (coalesce_or_insert_on_cursor, the successors of
\* finish_chat_job and finish_wake_job, every requeue).
SingleFlight ==
  \A i, j \in Ids :
    /\ jobs[i].lane = jobs[j].lane
    /\ jobs[i].status \in ActiveStatuses /\ jobs[j].status \in ActiveStatuses
    => i = j

\* A turn of a lane without a write barrier of its own never runs again once
\* it has made a durable write: all the writes recorded for the job come from
\* one slot process (recover_killed_job, reap_stuck_job_rows,
\* preempt_active_for_chat_on_cursor, reschedule_pristine_scheduled_failure).
SingleWriter ==
  \A j \in Ids : jobs[j].lane \in ReplayGuardedLanes =>
    \A v, w \in jobs[j].writers : v = w

\* A chat turn or reminder that failed or timed out has its visibility
\* obligation in the outbox, unless Chat Clear deleted it (mark_failed, the
\* reaper, the watchdog, preemption, a coalescing sender).
FailureIsVisible ==
  \A j \in Ids :
    j >= clearedTo /\ jobs[j].lane \in VisibleLanes /\ jobs[j].status \in {"failed", "expired"}
      => j \in failures

\* One crashed Capture job counts at most once towards the capture backoff,
\* although the reaper, the watchdog, the enqueuer and a chat sender may all
\* meet it (_record_capture_crash_failure_on_cursor).
CrashCountedOnce == \A j \in Ids : jobs[j].crashes <= 1

\* The requeue budgets bound the attempts of a job across the three paths that
\* spend them (the reaper, the watchdog and the worker's own retry).
AttemptsBounded ==
  \A j \in Ids :
    /\ jobs[j].lane = "scheduled" => jobs[j].attempt <= ScheduledMaxAttempts + 1
    /\ jobs[j].lane \notin {"scheduled", "profile"} =>
         jobs[j].attempt <= GeneralMaxAttempts + 1

\* A claim or a run always ends, whoever crashes: the reaper frees the user's
\* queue (reap_stuck_job_rows).
ExecutionEnds ==
  \A j \in Ids : jobs[j].status \in Executing ~> jobs[j].status \notin Executing
=============================================================================
