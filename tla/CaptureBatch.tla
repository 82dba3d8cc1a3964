---------------------------- MODULE CaptureBatch ----------------------------
(***************************************************************************)
(* The durable capture protocol of one Runtime V2 user: memory cards are   *)
(* distilled from the messages after a frontier, journalled as a prepared  *)
(* batch (v2_capture_batches) and committed together with the frontier.    *)
(*                                                                         *)
(* Messages are sequence numbers.  A window is a pair (after, through].    *)
(* A worker reads the frontier and the messages without a lock, runs the   *)
(* provider call inside every revocation fence, journals its action list   *)
(* and commits; each of those is a transaction of its own, and the user,   *)
(* the operator, the reaper and the scheduler act in between.              *)
(*                                                                         *)
(* Action lists are "add" (a new card) and "sup" (a new card that retires  *)
(* the one older card the model knows).  Time is reduced to the outcomes   *)
(* of the code's comparisons: a lease is valid or lapsed, the failure      *)
(* backoff armed or over, the account clock running, reset or expired.     *)
(***************************************************************************)
EXTENDS Integers, Sequences, FiniteSets

CONSTANTS
    Workers,        \* worker slots that claim capture jobs
    MaxSeq,         \* messages ever sent
    Window,         \* messages one capture window holds
    Kinds,          \* provider failures: "parse", "account", "other"
    PoisonAfter,    \* CAPTURE_POISON_SKIP_AFTER: parse failures in a row
    TransientAfter, \* CAPTURE_TRANSIENT_SKIP_AFTER: failures of one window
    MaxAttempts,    \* GENERAL_LEASE_REQUEUE_MAX_ATTEMPTS
    Faults,         \* the disturbances this instance allows
    MaxFaults,      \* how many of them happen
    MaxFails        \* failures of one window the history remembers

ASSUME BoundsAssumption ==
    /\ {MaxSeq, Window, PoisonAfter, TransientAfter} \subseteq Nat \ {0}
    /\ {MaxAttempts, MaxFaults, MaxFails} \subseteq Nat

VARIABLES
    rt,       \* v2_runtime_state: [v2, gen]
    halted,   \* the fleet-wide turn halt (D4)
    enabled,  \* proactive_settings.capture_enabled
    chat,     \* messages: [base, top], the live ones are base+1 .. top
    cap,      \* the capture_state blob: frontier and failure sub-state
    batches,  \* v2_capture_batches
    job,      \* the user's capture job (single flight)
    due,      \* a scheduler tick that has passed its gates
    wk,       \* worker slots
    v1,       \* a resident capture job still out: set of at most one window
    old,      \* the older card: "active", "archived" or "superseded"
    hist,     \* history: who covered which message, failures of this window,
              \* whether the resident runtime was ever in charge
    left      \* disturbances still to come

vars == <<rt, halted, enabled, chat, cap, batches, job, due, wk, v1, old, hist, left>>

Seqs == 1..MaxSeq

NoJob == [st |-> "none", gen |-> 0, owner |-> {}, attempt |-> 0, lapsed |-> FALSE]

IdleWorker == [pc |-> "idle", after |-> 0, through |-> 0, act |-> "add", kind |-> "other"]

\* _state_doc of an absent capture_state blob
FreshCap == [front |-> 0, key |-> -1, parse |-> 0, count |-> 0, acct |-> FALSE, cool |-> FALSE]

NoHist == [v2 |-> [s \in Seqs |-> 0], skipped |-> {}, v1 |-> {}, fails |-> <<>>, why |-> <<>>, heirs |-> 0,
           moved |-> FALSE]

Init ==
    /\ rt = [v2 |-> TRUE, gen |-> 0]
    /\ halted = FALSE
    /\ enabled = TRUE
    /\ chat = [base |-> 0, top |-> 1]
    /\ cap = FreshCap
    /\ batches = {}
    /\ job = NoJob
    /\ due = FALSE
    /\ wk = [w \in Workers |-> IdleWorker]
    /\ v1 = {}
    /\ old = "active"
    /\ hist = NoHist
    /\ left = MaxFaults

-----------------------------------------------------------------------------
(***************************************************************************)
(* What the transactions share                                             *)
(***************************************************************************)

\* _capture_owned_job_on_cursor, under the runtime and job row locks
Owned(w) ==
    /\ rt.v2
    /\ job.st = "claimed"
    /\ job.owner = {w}
    /\ ~job.lapsed
    /\ job.gen = rt.gen

\* what mark_failed requires of its caller
OwnedAny(w) == job.st = "claimed" /\ job.owner = {w}

\* the provider call keeps the D4, chat, consent and runtime locks
FencesFree == \A w \in Workers : wk[w].pc # "calling"

\* SUCCESS_RESET_PATCH
Reset(c) == [c EXCEPT !.key = -1, !.parse = 0, !.count = 0, !.acct = FALSE, !.cool = FALSE]

\* windowless_failure_patch
Windowless(c, kind) ==
    [c EXCEPT !.cool = TRUE, !.parse = IF kind = "parse" THEN @ ELSE 0]

Least(a, b) == IF a < b THEN a ELSE b

ParseOf(c, after, kind) ==
    IF kind # "parse" THEN 0 ELSE 1 + (IF c.key = after THEN c.parse ELSE 0)

\* failures of this window that are not the account's, saturating at the threshold
CountOf(c, after, kind) ==
    Least(TransientAfter, (IF c.key = after THEN c.count ELSE 0)
                          + (IF kind = "account" THEN 0 ELSE 1))

\* the thresholds of capture_failure_patch; "exp" says the account clock ran out
Skips(c, after, through, kind, exp) ==
    /\ through > after
    /\ \/ exp
       \/ /\ kind # "account"
          /\ \/ ParseOf(c, after, kind) >= PoisonAfter
             \/ CountOf(c, after, kind) >= TransientAfter

\* Mutant: a window is known by its end, which moves with every new message.
WindowedByEnd(c, after, through, kind, since, exp) ==
    IF Skips(c, after, through, kind, exp)
    THEN [Reset(c) EXCEPT !.front = through]
    ELSE [c EXCEPT !.key = through,
                   !.parse = ParseOf(c, after, kind),
                   !.count = CountOf(c, after, kind),
                   !.acct = since \/ kind = "account",
                   !.cool = TRUE]
\* capture_failure_patch; "since" says the account clock was running and not reset
Windowed(c, after, through, kind, since, exp) ==
    IF Skips(c, after, through, kind, exp)
    THEN [Reset(c) EXCEPT !.front = through]
    ELSE [c EXCEPT !.key = after,
                   !.parse = ParseOf(c, after, kind),
                   !.count = CountOf(c, after, kind),
                   !.acct = since \/ kind = "account",
                   !.cool = TRUE]

\* seqs of a window that are still in the chat
Span(after, through) == {s \in Seqs : s > after /\ s > chat.base /\ s <= through}

JobGone == job' = NoJob

Note(h, kind) == IF Len(h) < MaxFails THEN Append(h, kind) ELSE h

\* _cancel_capture_on_cursor: journals of the generation go, no backoff
Cancelled ==
    /\ batches' = {b \in batches : b.gen # job.gen}
    /\ JobGone
    /\ UNCHANGED <<cap, hist>>

\* _capture_fail_on_cursor with a window: the skip deletes its journal too
FailedAt(after, through, kind, gone) ==
    \E gap, exp \in BOOLEAN :
        LET since == cap.key = after /\ cap.acct /\ ~gap
            skip  == Skips(cap, after, through, kind, exp)
        IN  /\ exp => kind = "account" /\ since
            /\ cap' = Windowed(cap, after, through, kind, since, exp)
            /\ hist' = [hist EXCEPT
                    !.skipped = IF skip THEN @ \cup Span(after, through) ELSE @,
                    !.fails = IF skip THEN <<>> ELSE Note(@, kind),
                    !.why = IF skip THEN Note(hist.fails, kind) ELSE @]
            /\ batches' = {b \in batches \ gone : ~(skip /\ b.after = after /\ b.gen = job.gen)}
            /\ JobGone

\* _capture_fail_on_cursor without a window
FailedWindowless(kind) ==
    /\ cap' = Windowless(cap, kind)
    /\ hist' = [hist EXCEPT !.fails = Note(@, kind)]
    /\ JobGone

\* the crash is accounted unless the job is of an older runtime or capture is off
Crashed ==
    /\ JobGone
    /\ IF rt.v2 /\ job.gen = rt.gen /\ enabled
       THEN /\ cap' = Windowless(cap, "crash")
            /\ hist' = [hist EXCEPT !.fails = Note(@, "crash")]
       ELSE UNCHANGED <<cap, hist>>

Charge(f) == /\ f \in Faults
             /\ left > 0
             /\ left' = left - 1

Goto(w, pc) == wk' = [wk EXCEPT ![w].pc = pc]

Done(w) == wk' = [wk EXCEPT ![w] = IdleWorker]

-----------------------------------------------------------------------------
(***************************************************************************)
(* The scheduler and the queue                                             *)
(***************************************************************************)

\* tick_quiet_capture: the gates, read without a lock
Look ==
    /\ ~due
    /\ rt.v2
    /\ enabled
    /\ ~cap.cool
    /\ chat.top > cap.front /\ chat.top > chat.base
    /\ due' = TRUE
    /\ UNCHANGED <<rt, halted, enabled, chat, cap, batches, job, wk, v1, old, hist, left>>

NewJob == [st |-> "pending", gen |-> IF rt.v2 THEN rt.gen ELSE -1, owner |-> {}, attempt |-> 0, lapsed |-> FALSE]

StaleJob == job.st # "none" /\ rt.v2 /\ job.gen # rt.gen

\* _enqueue_capture_once: an overdue claim is settled and nothing new made;
\* an active one coalesces; the backoff is judged again under the locks
Enqueue ==
    /\ due
    /\ due' = FALSE
    /\ \/ /\ job.st = "claimed" /\ ~StaleJob /\ job.lapsed
          /\ Crashed
       \/ /\ job.st # "none" /\ ~StaleJob /\ ~job.lapsed
          /\ UNCHANGED <<cap, hist, job>>
       \/ /\ job.st = "none" \/ StaleJob
          /\ job' = IF cap.cool THEN job ELSE NewJob
          /\ UNCHANGED <<cap, hist>>
    /\ UNCHANGED <<rt, halted, enabled, chat, batches, wk, v1, old, left>>

\* the backoff outlives the scheduler tick that is judged against it
BackoffOver ==
    /\ cap.cool /\ ~due
    /\ cap' = [cap EXCEPT !.cool = FALSE]
    /\ UNCHANGED <<rt, halted, enabled, chat, batches, job, due, wk, v1, old, hist, left>>

\* claim_next_jobs: a job of another runtime generation is superseded
Claim(w) ==
    /\ wk[w].pc = "idle"
    /\ job.st = "pending"
    /\ IF rt.v2 /\ job.gen = rt.gen
       THEN /\ job' = [job EXCEPT !.st = "claimed", !.owner = {w}]
            /\ wk' = [wk EXCEPT ![w] = [IdleWorker EXCEPT !.pc = "gate"]]
       ELSE JobGone /\ UNCHANGED wk
    /\ UNCHANGED <<rt, halted, enabled, chat, cap, batches, due, v1, old, hist, left>>

-----------------------------------------------------------------------------
(***************************************************************************)
(* The worker's turn                                                       *)
(***************************************************************************)

\* the uncached gates before the turn; _terminalize_extraction_gate cancels
Gate(w) ==
    /\ wk[w].pc = "gate"
    /\ IF halted \/ ~enabled
       THEN /\ Done(w)
            /\ IF Owned(w)
               THEN Cancelled
               ELSE /\ job' = IF OwnedAny(w) THEN NoJob ELSE job
                    /\ UNCHANGED <<cap, hist, batches>>
       ELSE Goto(w, "front") /\ UNCHANGED <<job, cap, hist, batches>>
    /\ UNCHANGED <<rt, halted, enabled, chat, due, v1, old, left>>

\* read_capture_state and frontier_seq, without a lock
ReadFrontier(w) ==
    /\ wk[w].pc = "front"
    /\ wk' = [wk EXCEPT ![w].pc = "adopt", ![w].after = cap.front, ![w].through = cap.front]
    /\ UNCHANGED <<rt, halted, enabled, chat, cap, batches, job, due, v1, old, hist, left>>

\* get_prepared_capture_batch: journals of any other place are deleted
Adopt(w) ==
    /\ wk[w].pc = "adopt"
    /\ IF ~Owned(w)
       THEN Goto(w, "tail") /\ UNCHANGED batches
       ELSE LET here == {b \in batches : b.gen = job.gen /\ b.after = wk[w].after}
            IN  /\ batches' = here
                /\ IF here = {}
                   THEN Goto(w, "tail")
                   ELSE \E b \in here :
                            wk' = [wk EXCEPT ![w].pc = "commit",
                                             ![w].through = b.through, ![w].act = b.act]
    /\ UNCHANGED <<rt, halted, enabled, chat, cap, job, due, v1, old, hist, left>>

\* the oldest messages after the frontier, without a lock
ReadTail(w) ==
    LET from == IF wk[w].after < chat.base THEN chat.base ELSE wk[w].after
    IN  /\ wk[w].pc = "tail"
        /\ IF chat.top <= from
           THEN Goto(w, "nowork")
           ELSE wk' = [wk EXCEPT ![w].pc = "call",
                                 ![w].through = Least(chat.top, from + Window)]
        /\ UNCHANGED <<rt, halted, enabled, chat, cap, batches, job, due, v1, old, hist, left>>

\* complete_capture_no_work
NoWork(w) ==
    /\ wk[w].pc = "nowork"
    /\ Done(w)
    /\ IF Owned(w)
       THEN /\ cap' = Reset(cap)
            /\ hist' = [hist EXCEPT !.fails = <<>>]
            /\ JobGone
       ELSE UNCHANGED <<cap, hist, job>>
    /\ UNCHANGED <<rt, halted, enabled, chat, batches, due, v1, old, left>>

\* authorize_capture_provider_call up to the call; the consent lock is exclusive
Authorize(w) ==
    /\ wk[w].pc = "call"
    /\ FencesFree
    /\ IF ~Owned(w)
       THEN Done(w) /\ UNCHANGED <<cap, hist, batches, job>>
       ELSE IF halted \/ ~enabled
            THEN Done(w) /\ Cancelled
            ELSE Goto(w, "calling") /\ UNCHANGED <<cap, hist, batches, job>>
    /\ UNCHANGED <<rt, halted, enabled, chat, due, v1, old, left>>

\* the provider answers; the owner is checked again before the answer is used
Answered(w) ==
    /\ wk[w].pc = "calling"
    /\ \/ ~Owned(w) /\ Done(w) /\ UNCHANGED left
       \/ /\ Owned(w)
          /\ \E a \in {"add", "sup"} :
                 wk' = [wk EXCEPT ![w].pc = "prepare", ![w].act = a]
          /\ UNCHANGED left
       \/ \E k \in Kinds :
             /\ wk' = [wk EXCEPT ![w].pc = "fail", ![w].kind = k]
             /\ IF k = "account" THEN Charge("account") ELSE UNCHANGED left
    /\ UNCHANGED <<rt, halted, enabled, chat, cap, batches, job, due, v1, old, hist>>

\* Mutant: neither the halt nor the consent is read again.
PrepareUnfenced(w) ==
    LET mine == [gen |-> job.gen, after |-> wk[w].after, through |-> wk[w].through, act |-> wk[w].act]
    IN  /\ wk[w].pc = "prepare"
        /\ IF ~Owned(w)
           THEN Done(w) /\ UNCHANGED <<batches>>
           ELSE batches' = batches \cup {mine} /\ Goto(w, "commit")
        /\ UNCHANGED <<rt, halted, enabled, chat, cap, hist, job, due, v1, old, left>>

\* the first journal of a frontier stays: ON CONFLICT DO NOTHING, then SELECT
Prepare(w) ==
    LET here == {b \in batches : b.gen = job.gen /\ b.after = wk[w].after}
        mine == [gen |-> job.gen, after |-> wk[w].after, through |-> wk[w].through, act |-> wk[w].act]
    IN  /\ wk[w].pc = "prepare"
        /\ FencesFree
        /\ IF ~Owned(w)
           THEN Done(w) /\ UNCHANGED <<cap, hist, batches, job>>
           ELSE IF halted \/ ~enabled
                THEN Done(w) /\ Cancelled
                ELSE \E b \in IF here = {} THEN {mine} ELSE here :
                       /\ batches' = batches \cup {b}
                       /\ wk' = [wk EXCEPT ![w].pc = "commit",
                                           ![w].through = b.through, ![w].act = b.act]
                       /\ UNCHANGED <<cap, hist, job>>
        /\ UNCHANGED <<rt, halted, enabled, chat, due, v1, old, left>>

\* the batch row the worker holds: its id, gone when the row was deleted
Held(w) == {b \in batches : /\ b.gen = job.gen /\ b.after = wk[w].after
                            /\ b.through = wk[w].through /\ b.act = wk[w].act}

\* Mutant: the frontier moves to the newest message, not to the journal's end.
LandAtTop(w, b) ==
    /\ cap' = [Reset(cap) EXCEPT !.front = chat.top]
    /\ old' = IF b.act = "sup" THEN "superseded" ELSE old
    /\ hist' = [hist EXCEPT
            !.v2 = [s \in Seqs |-> IF s \in Span(b.after, b.through) THEN @[s] + 1 ELSE @[s]],
            !.fails = <<>>,
            !.heirs = IF b.act = "sup" THEN @ + 1 ELSE @]
    /\ batches' = batches \ {b}
    /\ JobGone
\* every card, the frontier, the job and the journal in one transaction
Land(w, b) ==
    /\ cap' = [Reset(cap) EXCEPT !.front = b.through]
    /\ old' = IF b.act = "sup" THEN "superseded" ELSE old
    /\ hist' = [hist EXCEPT
            !.v2 = [s \in Seqs |-> IF s \in Span(b.after, b.through) THEN @[s] + 1 ELSE @[s]],
            !.fails = <<>>,
            !.heirs = IF b.act = "sup" THEN @ + 1 ELSE @]
    /\ batches' = batches \ {b}
    /\ JobGone

\* capture_supersede_target_inactive and its siblings
Rejected(b) == b.act = "sup" /\ old # "active"

\* commit_capture_batch
Commit(w) ==
    /\ wk[w].pc = "commit"
    /\ FencesFree
    /\ Done(w)
    /\ \/ ~Owned(w) /\ UNCHANGED <<cap, hist, batches, job, old>>
       \/ Owned(w) /\ (halted \/ ~enabled) /\ Cancelled /\ UNCHANGED old
       \/ /\ Owned(w) /\ ~halted /\ enabled
          /\ \/ /\ Held(w) = {}
                /\ FailedWindowless("batch_unavailable") /\ UNCHANGED <<batches, old>>
             \/ \E b \in Held(w) :
                   \/ /\ cap.front # b.after
                      /\ FailedWindowless("frontier_changed")
                      /\ batches' = batches \ {b} /\ UNCHANGED old
                   \/ /\ cap.front = b.after /\ Rejected(b)
                      /\ FailedAt(b.after, b.through, "other", {b}) /\ UNCHANGED old
                   \/ /\ cap.front = b.after /\ ~Rejected(b)
                      /\ Land(w, b)
    /\ UNCHANGED <<rt, halted, enabled, chat, due, v1, left>>

\* fail_capture_job with the window the worker knows
Fail(w) ==
    /\ wk[w].pc = "fail"
    /\ Done(w)
    /\ IF Owned(w)
       THEN FailedAt(wk[w].after, wk[w].through, wk[w].kind, {})
       ELSE UNCHANGED <<cap, hist, batches, job>>
    /\ UNCHANGED <<rt, halted, enabled, chat, due, v1, old, left>>

-----------------------------------------------------------------------------
(***************************************************************************)
(* Crashes, leases and recovery                                            *)
(***************************************************************************)

\* an exception outside the provider call, reported with the window known so far
Stumble(w) ==
    /\ wk[w].pc \in {"adopt", "tail", "prepare", "commit"}
    /\ Charge("stumble")
    /\ wk' = [wk EXCEPT ![w].pc = "fail", ![w].kind = "other"]
    /\ UNCHANGED <<rt, halted, enabled, chat, cap, batches, job, due, v1, old, hist>>

\* the slot's process dies; its locks go with its connection
Die(w) ==
    /\ wk[w].pc \notin {"idle", "dead"}
    /\ Charge("crash")
    /\ Goto(w, "dead")
    /\ UNCHANGED <<rt, halted, enabled, chat, cap, batches, job, due, v1, old, hist>>

\* recover_killed_job, before the slot gets a new process
RecoverKilled(w) ==
    /\ wk[w].pc = "dead"
    /\ Done(w)
    /\ IF OwnedAny(w)
       THEN IF job.attempt < MaxAttempts
            THEN /\ job' = [job EXCEPT !.st = "pending", !.owner = {}, !.lapsed = FALSE,
                                       !.attempt = @ + 1]
                 /\ UNCHANGED <<cap, hist>>
            ELSE Crashed
       ELSE UNCHANGED <<job, cap, hist>>
    /\ UNCHANGED <<rt, halted, enabled, chat, batches, due, v1, old, left>>

\* the keepalive stops: a stalled worker, a dead one, or one that gave up the job
Lapse ==
    /\ job.st = "claimed" /\ ~job.lapsed
    /\ \/ Charge("lapse")
       \/ (\A w \in Workers : job.owner = {w} => wk[w].pc \in {"idle", "dead"}) /\ UNCHANGED left
    /\ job' = [job EXCEPT !.lapsed = TRUE]
    /\ UNCHANGED <<rt, halted, enabled, chat, cap, batches, due, wk, v1, old, hist>>

\* _recover_capture_claim in lease mode
Reap ==
    /\ job.st = "claimed" /\ job.lapsed
    /\ Crashed
    /\ UNCHANGED <<rt, halted, enabled, chat, batches, due, wk, v1, old, left>>

\* the reaper's journal GC: other generations, and what is a day old
Collect ==
    /\ \E b \in batches :
          /\ batches' = batches \ {b}
          /\ IF b.gen # rt.gen THEN UNCHANGED left ELSE Charge("age")
    /\ UNCHANGED <<rt, halted, enabled, chat, cap, job, due, wk, v1, old, hist>>

-----------------------------------------------------------------------------
(***************************************************************************)
(* The user and the operator                                               *)
(***************************************************************************)

\* a chat send preempts the capture job: an overdue or ownerless claim is a crash
Send ==
    /\ chat.top < MaxSeq
    /\ chat' = [chat EXCEPT !.top = @ + 1]
    /\ \/ job.st # "claimed" /\ UNCHANGED <<job, cap, hist>>
       \/ /\ job.st = "claimed"
          /\ job.lapsed \/ \E w \in Workers : job.owner = {w} /\ wk[w].pc = "dead"
          /\ Crashed
       \/ /\ job.st = "claimed" /\ ~job.lapsed
          /\ job' = [job EXCEPT !.st = "pending", !.owner = {}]
          /\ UNCHANGED <<cap, hist>>
    /\ UNCHANGED <<rt, halted, enabled, batches, due, wk, v1, old, left>>

\* Mutant: the settings write does not wait for the consent lock.
ToggleAtOnce ==
    /\ Charge("optout")
    /\ enabled' = ~enabled
    /\ batches' = IF enabled THEN {} ELSE batches
    /\ UNCHANGED <<rt, halted, chat, cap, job, due, wk, v1, old, hist>>

\* patch_proactive_settings_strict: opting out erases the journals
Toggle ==
    /\ FencesFree
    /\ Charge("optout")
    /\ enabled' = ~enabled
    /\ batches' = IF enabled THEN {} ELSE batches
    /\ UNCHANGED <<rt, halted, chat, cap, job, due, wk, v1, old, hist>>

\* the operator's halt waits for the D4 row
Halt ==
    /\ FencesFree
    /\ Charge("halt")
    /\ halted' = ~halted
    /\ UNCHANGED <<rt, enabled, chat, cap, batches, job, due, wk, v1, old, hist>>

\* db.chat_clear, what it does to capture
Clear ==
    /\ FencesFree
    /\ Charge("clear")
    /\ rt' = [rt EXCEPT !.gen = @ + 1]
    /\ chat' = [chat EXCEPT !.base = chat.top]
    /\ cap' = FreshCap
    /\ hist' = [hist EXCEPT !.fails = <<>>]
    /\ batches' = {}
    /\ JobGone
    /\ UNCHANGED <<halted, enabled, due, wk, v1, old>>

\* the runtime row moves to or from the resident runtime
Cutover ==
    /\ FencesFree
    /\ Charge("cutover")
    /\ rt' = [v2 |-> ~rt.v2, gen |-> rt.gen + 1]
    /\ hist' = [hist EXCEPT !.moved = TRUE]
    /\ UNCHANGED <<halted, enabled, chat, cap, batches, job, due, wk, v1, old>>

\* the user archives the older card in the Garden
Retire ==
    /\ old = "active"
    /\ Charge("retire")
    /\ old' = "archived"
    /\ UNCHANGED <<rt, halted, enabled, chat, cap, batches, job, due, wk, v1, hist>>

-----------------------------------------------------------------------------
(***************************************************************************)
(* The resident runtime's capture job and its completion report            *)
(***************************************************************************)

ResidentStart ==
    /\ ~rt.v2 /\ enabled
    /\ v1 = {}
    /\ chat.top > cap.front
    /\ v1' = {[after |-> cap.front, through |-> chat.top, seen |-> {}]}
    /\ UNCHANGED <<rt, halted, enabled, chat, cap, batches, job, due, wk, old, hist, left>>

\* record_capture_job_status: load_capture_state ...
ResidentLoad ==
    /\ \E j \in v1 : j.seen = {} /\ v1' = {[j EXCEPT !.seen = {cap}]}
    /\ UNCHANGED <<rt, halted, enabled, chat, cap, batches, job, due, wk, old, hist, left>>

\* ... and save_capture_state, the whole document
ResidentSave ==
    /\ \E j \in v1, c \in UNION {i.seen : i \in v1} :
          /\ cap' = [Reset(c) EXCEPT !.front = IF j.through > @ THEN j.through ELSE @]
          /\ hist' = [hist EXCEPT !.v1 = @ \cup Span(j.after, j.through), !.fails = <<>>]
    /\ v1' = {}
    /\ UNCHANGED <<rt, halted, enabled, chat, batches, job, due, wk, old, left>>

-----------------------------------------------------------------------------
Turn(w) ==
    \/ Claim(w) \/ Gate(w) \/ ReadFrontier(w) \/ Adopt(w) \/ ReadTail(w) \/ NoWork(w)
    \/ Authorize(w) \/ Answered(w) \/ Prepare(w) \/ Commit(w) \/ Fail(w) \/ RecoverKilled(w)

Next ==
    \/ \E w \in Workers : Turn(w) \/ Stumble(w) \/ Die(w)
    \/ Look \/ Enqueue \/ BackoffOver \/ Lapse \/ Reap \/ Collect
    \/ Send \/ Toggle \/ Halt \/ Clear \/ Cutover \/ Retire
    \/ ResidentStart \/ ResidentLoad \/ ResidentSave

Spec == Init /\ [][Next]_vars

\* the scheduler ticks, live workers run, leases lapse by the clock, the reaper loops
FairSpec ==
    /\ Spec
    /\ \A w \in Workers : WF_vars(Turn(w))
    /\ WF_vars(Look) /\ WF_vars(Enqueue) /\ WF_vars(BackoffOver)
    /\ WF_vars(Lapse) /\ WF_vars(Reap)

-----------------------------------------------------------------------------
(***************************************************************************)
(* Properties                                                              *)
(***************************************************************************)

Pcs == {"idle", "gate", "front", "adopt", "tail", "nowork", "call", "calling", "prepare",
        "commit", "fail", "dead"}
CapType == [front : 0..MaxSeq, key : -1..MaxSeq, parse : Nat, count : 0..TransientAfter,
            acct : BOOLEAN, cool : BOOLEAN]
BatchType == [gen : 0..MaxFaults, after : 0..MaxSeq, through : 0..MaxSeq, act : {"add", "sup"}]
JobType == [st : {"none", "pending", "claimed"}, gen : -1..MaxFaults,
            owner : {{}} \cup {{w} : w \in Workers}, attempt : Nat, lapsed : BOOLEAN]
WorkerType == [pc : Pcs, after : 0..MaxSeq, through : 0..MaxSeq, act : {"add", "sup"},
               kind : Kinds \cup {"other"}]
Causes == Kinds \cup {"other", "crash", "batch_unavailable", "frontier_changed"}
ResidentType == [after : 0..MaxSeq, through : 0..MaxSeq, seen : SUBSET CapType]
HistType == [v2 : [Seqs -> Nat], skipped : SUBSET Seqs, v1 : SUBSET Seqs,
             fails : Seq(Causes), why : Seq(Causes), heirs : Nat, moved : BOOLEAN]

\* Types, and the shape single flight gives the state: a claimed job has one
\* owner, a journal covers a window that moves the frontier.
TypeOK ==
    /\ rt \in [v2 : BOOLEAN, gen : 0..MaxFaults]
    /\ halted \in BOOLEAN /\ enabled \in BOOLEAN /\ due \in BOOLEAN
    /\ chat \in [base : 0..MaxSeq, top : Seqs] /\ chat.base <= chat.top
    /\ cap \in CapType
    /\ batches \subseteq BatchType
    /\ \A b \in batches : b.after < b.through /\ b.through <= chat.top
    /\ job \in JobType /\ (job.owner = {} <=> job.st # "claimed")
    /\ wk \in [Workers -> WorkerType]
    /\ v1 \subseteq ResidentType
    /\ old \in {"active", "archived", "superseded"}
    /\ hist \in HistType
    /\ left \in 0..MaxFaults

\* commit_capture_batch applies the cards and moves the frontier in one
\* transaction, and a skip is the only other way forward: whatever crashes,
\* preemptions, zombie workers and retries happened, every live message behind
\* the frontier was captured by exactly one commit or explicitly skipped, and
\* no message in front of it was.  This is promised to a user who has never
\* been moved to the resident runtime, which keeps a frontier of its own.
CapturedOnce ==
    ~hist.moved => \A s \in DOMAIN hist.v2 : s > chat.base =>
        IF s <= cap.front
        THEN hist.v2[s] + (IF s \in hist.skipped THEN 1 ELSE 0) = 1
        ELSE hist.v2[s] = 0

\* authorize_capture_provider_call holds every revocation fence for the whole
\* call: while messages are with the provider capture is on, turns are not
\* halted and the messages have not been cleared.
DisclosureFenced ==
    \A w \in DOMAIN wk : wk[w].pc = "calling" =>
        /\ enabled /\ ~halted /\ rt.v2
        /\ wk[w].through > chat.base

\* Opt-out and Clear are erasure boundaries for the encrypted journal: no
\* prepared batch survives them or is created behind them.
ErasedStaysErased ==
    /\ ~enabled => batches = {}
    /\ \A b \in batches : b.through > chat.base

\* A card lands only while the user has capture on and the operator has not
\* halted turns, whatever was read before.
LandsWithConsent ==
    [][hist'.v2 # hist.v2 => enabled /\ ~halted /\ rt.v2]_vars

\* Re-checking the supersede target under its row lock: the older card never
\* gets two successors, and a card the user archived gets none.
OneHeir ==
    /\ hist.heirs <= 1
    /\ hist.heirs = 1 => old = "superseded"

Counted(h) == {i \in DOMAIN h : h[i] \in {"parse", "other"}}

\* A crash loop always backs off: no job is created between a recorded failure
\* and the end of its backoff, although the scheduler judged the backoff
\* before it took the locks.
NoJobInBackoff ==
    [][job.st = "none" /\ job'.st = "pending" => ~cap.cool]_vars

\* The frontier of a user who has never been moved to the resident runtime only
\* moves forward; Clear alone resets it, and with it the live messages.
FrontierNeverBack ==
    [][~hist'.moved /\ chat'.base = chat.base => cap'.front >= cap.front]_vars

\* The escape valve: a message that stays in the chat of a V2 user with capture
\* on is captured or given up, however often its window fails.
NothingStuck ==
    \A s \in Seqs :
        (chat.top >= s) ~> (cap.front >= s \/ chat.base >= s \/ ~enabled \/ halted \/ ~rt.v2)

=============================================================================
