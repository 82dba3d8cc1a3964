------------------------------ MODULE ChatReply ------------------------------
(***************************************************************************)
(* How one user's messages get answered: the chat lane of Runtime V2, from *)
(* the sender's transaction to the reply, the reply cursor, the failure    *)
(* notices, the sweepers and the hand-over to and from the resident        *)
(* runtime.                                                                *)
(*                                                                         *)
(* One action is one database transaction, or one unlocked read whose      *)
(* result a later step uses.  Claiming is atomic here; module JobQueue     *)
(* splits it and shows that at most one job of the user executes.  A chat  *)
(* job runs at most once (watchdog and reaper end it, nothing requeues     *)
(* it), so its turn, its final-reply effect and its failure marker are     *)
(* indexed by the job id.                                                  *)
(*                                                                         *)
(* Messages are numbered by their sequence number.  overdue is the queue   *)
(* deadline of a pending job and the lease of a running one.               *)
(***************************************************************************)
EXTENDS Naturals, FiniteSets, FiniteSetsExt

CONSTANTS
  Reconcilers,  \* concurrent callers of reconcile_terminal_failure_outbox
  MaxMsgs,      \* bound: messages the user sends
  MaxJobs,      \* bound: chat jobs
  MaxGen,       \* bound: runtime_generation
  MaxCrashes    \* bound: worker processes that die in a turn

ASSUME BoundsAssumption ==
  {MaxMsgs, MaxJobs, MaxCrashes} \subseteq Nat /\ MaxGen \in Nat \ {0}

VARIABLES
  rtState,   \* v2_runtime_state.hosted_runtime_state
  rtGen,     \* v2_runtime_state.runtime_generation
  sent,      \* number of user messages ever sent
  msgs,      \* the user rows of chat_messages, by their reply marker
  cursor,    \* v2_reply_cursor_seq
  jobs,      \* the chat rows of agent_jobs
  turns,     \* the turn of each job
  effects,   \* final replies pending in v2_effect_outbox: <<job, through_seq>>
  outbox,    \* v2_terminal_failure_outbox, reply sink
  sinks,     \* deliveries in progress, one per reconciler
  sweep,     \* what the fleet sweeper has read and not yet enqueued
  bubbles,   \* assistant rows: [kind, parent, job]
  wrote      \* v2_mcp_mutation_attempts: <<job, input frontier>>

runtime == <<rtState, rtGen>>
chat == <<sent, msgs, cursor, bubbles>>
turn == <<turns, effects, wrote>>
vars == <<runtime, chat, jobs, turn, outbox, sinks, sweep>>

Seqs == 1 .. MaxMsgs
Ids == 1 .. MaxJobs
Active == {"pending", "running"}

NoJob == [status |-> "absent", gen |-> 0, input |-> 0, overdue |-> FALSE,
          reason |-> "none", trace |-> 0]
NoTurn == [pc |-> "none", since |-> 0, observed |-> 0, target |-> 0, barrier |-> FALSE]
Over == [NoTurn EXCEPT !.pc = "over"]
NoFailure == [state |-> "none", frontier |-> 0]
NoDelivery == [job |-> 0, frontier |-> 0, pc |-> "idle"]
NoSweep == [trace |-> 0, gen |-> 0, reason |-> "none"]

Init ==
  /\ rtState = "v2" /\ rtGen = 1
  /\ sent = 0 /\ msgs = [m \in Seqs |-> "absent"] /\ cursor = 0 /\ bubbles = {}
  /\ jobs = [j \in Ids |-> NoJob]
  /\ turns = [j \in Ids |-> NoTurn] /\ effects = {} /\ wrote = {}
  /\ outbox = [j \in Ids |-> NoFailure]
  /\ sinks = [r \in Reconcilers |-> NoDelivery]
  /\ sweep = NoSweep

-----------------------------------------------------------------------------
(* Rows.                                                                   *)

Live(M) == {m \in DOMAIN M : M[m] \notin {"absent", "cleared"}}
Open(M) == {m \in Live(M) : M[m] = "open"}
Answered(M) == Live(M) \ Open(M)
Newest(S) == Max(S \cup {0})
ActiveJobs == {j \in DOMAIN jobs : jobs[j].status \in Active}
NextId == 1 + Newest({j \in DOMAIN jobs : jobs[j].status # "absent"})
CurrentGen == IF rtState = "v2" THEN rtGen ELSE 0
\* What a terminal row keeps that a later transaction reads.
Ended(r, status) == [r EXCEPT !.status = status, !.input = 0, !.overdue = FALSE]
NewJob(g, reason, trace) ==
  [NoJob EXCEPT !.status = "pending", !.gen = g, !.reason = reason, !.trace = trace]

\* _queue_terminal_failure_on_cursor for the jobs S: the frontier is the newest
\* user row of that transaction, the messages M; an existing marker stays.
QueueFailures(O, S, M) ==
  [j \in Ids |-> IF j \in S /\ O[j].state = "none"
                 THEN [state |-> "due", frontier |-> Newest(Live(M))] ELSE O[j]]

\* coalesce_or_insert_on_cursor on the chat lane, M being the messages its
\* transaction sees.
GenStale(j, g) == g # 0 /\ jobs[j].gen # g
Absorbing(g) == {j \in ActiveJobs : ~jobs[j].overdue /\ ~GenStale(j, g)}
CoalesceOrInsert(M, g, reason, trace) ==
  LET timedOut == {j \in ActiveJobs : ~GenStale(j, g)}
      retired == [j \in Ids |->
                    IF j \notin ActiveJobs THEN jobs[j]
                    ELSE Ended(jobs[j], IF j \in timedOut THEN "expired" ELSE "superseded")]
  IN  \/ /\ Absorbing(g) # {}
         /\ jobs' = [j \in Ids |-> IF j \in Absorbing(g)
                                    THEN [jobs[j] EXCEPT !.input = @ + 1] ELSE jobs[j]]
         /\ UNCHANGED outbox
      \/ /\ Absorbing(g) = {} /\ NextId \in Ids
         /\ jobs' = [retired EXCEPT ![NextId] = NewJob(g, reason, trace)]
         /\ outbox' = QueueFailures(outbox, timedOut, M)

\* The sweeper's and the turn's replay barrier: an older chat job has recorded a
\* mutation for input the cursor has not covered.
\* Mutant: off by one at the cursor.
BarrierPastNext(after, self) == \E w \in wrote : w[1] # self /\ w[2] > after + 1
Barrier(after, self) == \E w \in wrote : w[1] # self /\ w[2] > after

-----------------------------------------------------------------------------
(* Sending.                                                                *)

\* chat_append_and_enqueue: the message, then its job, in one transaction.
Send ==
  LET m == sent + 1
      M == [msgs EXCEPT ![m] = "open"]
  IN  /\ rtState = "v2" /\ sent < MaxMsgs
      /\ CoalesceOrInsert(M, rtGen, "chat_send", m)
      /\ sent' = m /\ msgs' = M
      /\ UNCHANGED <<runtime, cursor, bubbles, turn, sinks, sweep>>

\* chat_append_idempotent (/v1/chat/message): the message alone, in any runtime.
Append ==
  LET m == sent + 1
  IN  /\ sent < MaxMsgs
      /\ sent' = m /\ msgs' = [msgs EXCEPT ![m] = "open"]
      /\ UNCHANGED <<runtime, cursor, bubbles, jobs, turn, outbox, sinks, sweep>>

-----------------------------------------------------------------------------
(* Catching up on messages that have no job.                               *)

Waiting == {m \in Open(msgs) : m > cursor}
Latest == Newest(Waiting)
Marked(reason) ==
  \E j \in Ids : jobs[j].reason = reason /\ jobs[j].trace = Latest
                   /\ jobs[j].status # "superseded"

\* reconcile_unenqueued_v2_messages: read the newest waiting message and the
\* generation; enqueue for them in a later transaction.
SweepRead ==
  LET recovery == Barrier(cursor, 0)
  IN  /\ sweep = NoSweep /\ rtState = "v2"
      /\ Waiting # {} /\ ActiveJobs = {}
      /\ ~Marked("mutation_recovery") /\ (recovery \/ ~Marked("reconcile"))
      /\ sweep' = [trace |-> Latest, gen |-> rtGen,
                   reason |-> IF recovery THEN "mutation_recovery" ELSE "reconcile"]
      /\ UNCHANGED <<runtime, chat, jobs, turn, outbox, sinks>>
SweepEnqueue ==
  /\ sweep # NoSweep
  /\ CoalesceOrInsert(msgs, sweep.gen, sweep.reason, sweep.trace)
  /\ sweep' = NoSweep
  /\ UNCHANGED <<runtime, chat, turn, sinks>>

\* reconcile_unenqueued_v2_message_for_user, with the runtime row locked: called
\* after a cutover and after an append outside chat/send.
Recover ==
  LET current(j) == jobs[j].status \in Active /\ jobs[j].gen = rtGen
      tried(j) == /\ jobs[j].trace = Latest
                  /\ jobs[j].status \in {"completed", "failed", "expired"} \/ current(j)
  IN  /\ rtState = "v2" /\ Waiting # {}
      /\ \A j \in Ids : ~current(j) /\ ~tried(j)
      /\ CoalesceOrInsert(msgs, rtGen, "runtime_cutover_recovery", Latest)
      /\ UNCHANGED <<runtime, chat, turn, sinks, sweep>>

-----------------------------------------------------------------------------
(* The turn.                                                               *)

\* claim_next_job and mark_running.
Claim(j) ==
  /\ jobs[j].status = "pending" /\ ~jobs[j].overdue
  /\ \A i \in Ids : jobs[i].status # "running"
  /\ \/ /\ rtState = "v2" /\ jobs[j].gen \in {0, rtGen}
        /\ jobs' = [jobs EXCEPT ![j].status = "running", ![j].gen = rtGen]
        /\ turns' = [turns EXCEPT ![j].pc = "started"]
     \/ /\ ~(rtState = "v2" /\ jobs[j].gen \in {0, rtGen})
        /\ jobs' = [jobs EXCEPT ![j] = Ended(@, "superseded")]
        /\ UNCHANGED turns
  /\ UNCHANGED <<runtime, chat, effects, wrote, outbox, sinks, sweep>>

Owned(j) == jobs[j].status = "running" /\ ~jobs[j].overdue
OwnedNow(j) == Owned(j) /\ rtState = "v2" /\ jobs[j].gen = rtGen

\* The turn's first reads: v2_cursor.load_seq, then the barrier after that cursor
\* and get_input_generation, which is refused when the job is no longer owned.
LoadCursor(j) ==
  /\ turns[j].pc = "started"
  /\ turns' = [turns EXCEPT ![j] =
       IF jobs[j].status = "running"
       THEN [pc |-> "loaded", since |-> cursor, observed |-> jobs[j].input,
             target |-> 0, barrier |-> Barrier(cursor, j)]
       ELSE Over]
  /\ UNCHANGED <<runtime, chat, jobs, effects, wrote, outbox, sinks, sweep>>

\* _coalesce_inputs reads every user row beyond the cursor, answered or not; the
\* turn is pinned to the oldest.
Pin(j) ==
  LET input == {m \in Live(msgs) : m > turns[j].since}
  IN  /\ turns[j].pc = "loaded"
      /\ turns' = [turns EXCEPT ![j].pc = "pinned",
                                ![j].target = IF input = {} THEN 0 ELSE Min(input)]
      /\ UNCHANGED <<runtime, chat, jobs, effects, wrote, outbox, sinks, sweep>>

\* finish_chat_job for a turn without input; late input gets a successor.
FinishEmpty(j) ==
  LET done == [jobs EXCEPT ![j] = Ended(@, "completed")]
  IN  /\ turns[j].pc = "pinned" /\ turns[j].target = 0 /\ OwnedNow(j)
      /\ \/ jobs[j].input <= turns[j].observed /\ jobs' = done
         \/ /\ jobs[j].input > turns[j].observed /\ NextId \in Ids
            /\ jobs' = [done EXCEPT ![NextId] = NewJob(rtGen, "coalesced_followup", 0)]
      /\ turns' = [turns EXCEPT ![j] = Over]
      /\ UNCHANGED <<runtime, chat, effects, wrote, outbox, sinks, sweep>>

Working(j) == turns[j].pc = "pinned" /\ turns[j].target # 0

\* start_mcp_mutation_attempt, before the remote call leaves the worker; a turn
\* behind the barrier is offered no mutating tool.
Write(j) ==
  /\ Working(j) /\ ~turns[j].barrier /\ Owned(j)
  /\ wrote' = wrote \cup {<<j, turns[j].target>>}
  /\ UNCHANGED <<runtime, chat, jobs, turns, effects, outbox, sinks, sweep>>

\* effect_enqueue of the final reply.
EnqueueReply(j) ==
  /\ Working(j)
  /\ effects' = effects \cup {<<j, turns[j].target>>}
  /\ turns' = [turns EXCEPT ![j].pc = "offered"]
  /\ UNCHANGED <<runtime, chat, jobs, wrote, outbox, sinks, sweep>>

\* chat_append_effect_with_cursor: the bubble, the marks of the messages it
\* consumes and the cursor, together.  It aborts when one of those messages has
\* been answered already.
Consumed(through) == {m \in Live(msgs) : cursor < m /\ m <= through}
\* Mutant: only the parent message is marked.
MarksParent(through, mark) ==
  [m \in Seqs |-> IF m = through /\ m \in Consumed(through) THEN mark ELSE msgs[m]]
Marks(through, mark) ==
  [m \in Seqs |-> IF m \in Consumed(through) THEN mark ELSE msgs[m]]
AppendWithCursor(bubble, through, marks) ==
  /\ Consumed(through) \subseteq Open(msgs)
  /\ msgs' = marks
  /\ cursor' = Newest({cursor, through})
  /\ bubbles' = bubbles \cup {bubble}
  /\ UNCHANGED sent

\* A real reply also replaces the failure mark of the message it answers.
\* Mutant: a failure mark stays.
ReplyMarksOpenOnly(m) == Marks(m, "reply")
ReplyMarks(m) ==
  [Marks(m, "reply") EXCEPT ![m] = IF msgs[m] = "failure" THEN "reply" ELSE @]

\* apply_pending_effects on the final reply of job j, by the worker or by any
\* sweeper: discarded unless the job still runs in the current generation,
\* else published while the job completes.
\* Mutant: the generation fence is dropped.
PublishUnfenced(j) == Owned(j)
PublishOpen(j) == OwnedNow(j)
ApplyReply(j, m) ==
  /\ <<j, m>> \in effects
  /\ \/ ~PublishOpen(j) /\ UNCHANGED <<chat, jobs, turns>>
     \/ /\ PublishOpen(j)
        /\ AppendWithCursor([kind |-> "reply", parent |-> m, job |-> j], m, ReplyMarks(m))
        /\ jobs' = [jobs EXCEPT ![j] = Ended(@, "completed")]
        /\ turns' = [turns EXCEPT ![j].pc = IF @ = "offered" THEN "replied" ELSE @]
  /\ effects' = effects \ {<<j, m>>}
  /\ UNCHANGED <<runtime, wrote, outbox, sinks, sweep>>

\* After the commit the live worker looks for newer user rows and enqueues a
\* job for them.
OrderedFollowup(j) ==
  /\ turns[j].pc = "replied"
  /\ \/ /\ \E m \in Live(msgs) : m > turns[j].target
        /\ CoalesceOrInsert(msgs, CurrentGen, "ordered_followup", 0)
     \/ /\ \A m \in Live(msgs) : m <= turns[j].target
        /\ UNCHANGED <<jobs, outbox>>
  /\ turns' = [turns EXCEPT ![j] = [NoTurn EXCEPT !.pc = "ending"]]
  /\ UNCHANGED <<runtime, chat, effects, wrote, sinks, sweep>>

\* ensure_terminal_failure_outbox: the drain at the end of the turn could not
\* confirm an effect, although the reply is out.
SurfaceFailure(j) ==
  /\ turns[j].pc = "ending" /\ rtState = "v2" /\ jobs[j].gen = rtGen
  /\ outbox' = QueueFailures(outbox, {j}, msgs)
  /\ turns' = [turns EXCEPT ![j] = Over]
  /\ UNCHANGED <<runtime, chat, jobs, effects, wrote, sinks, sweep>>

\* mark_failed: the turn raised while the job was still its own.
InTurn(j) == turns[j].pc \in {"started", "loaded", "pinned", "offered"}
MarkFailed(j) ==
  /\ InTurn(j) /\ Owned(j)
  /\ jobs' = [jobs EXCEPT ![j] = Ended(@, "failed")]
  /\ outbox' = QueueFailures(outbox, {j}, msgs)
  /\ turns' = [turns EXCEPT ![j] = Over]
  /\ UNCHANGED <<runtime, chat, effects, wrote, sinks, sweep>>

-----------------------------------------------------------------------------
(* Crashes, the watchdog and the reaper.                                   *)

Crash(j) ==
  /\ InTurn(j) \/ turns[j].pc = "replied"
  /\ Cardinality({i \in Ids : turns[i].pc = "dead"}) < MaxCrashes
  /\ turns' = [turns EXCEPT ![j] = [NoTurn EXCEPT !.pc = "dead"]]
  /\ UNCHANGED <<runtime, chat, jobs, effects, wrote, outbox, sinks, sweep>>

\* The queue deadline of a pending job, or the lease of a running one, passes.
Overdue(j) ==
  /\ jobs[j].status \in Active /\ ~jobs[j].overdue
  /\ jobs' = [jobs EXCEPT ![j].overdue = TRUE]
  /\ UNCHANGED <<runtime, chat, turn, outbox, sinks, sweep>>

\* reap_stuck_job_rows for an overdue job, recover_killed_job for a dead one.
\* Mutant: the job is closed without queueing its failure.
ReapSilently(j) ==
  /\ jobs[j].status \in Active
  /\ jobs[j].overdue \/ turns[j].pc = "dead"
  /\ jobs' = [jobs EXCEPT ![j] = Ended(@, "expired")]
  /\ UNCHANGED <<runtime, chat, turn, outbox, sinks, sweep>>
Reap(j) ==
  /\ jobs[j].status \in Active
  /\ jobs[j].overdue \/ turns[j].pc = "dead"
  /\ jobs' = [jobs EXCEPT ![j] = Ended(@, "expired")]
  /\ outbox' = QueueFailures(outbox, {j}, msgs)
  /\ UNCHANGED <<runtime, chat, turn, sinks, sweep>>

-----------------------------------------------------------------------------
(* The reply sink of the terminal-failure outbox.                          *)

\* _deliver_terminal_failure_reply up to the write: nothing to say, said
\* already, or the message has a real reply by now; else the notice is built.
Moot(j) ==
  LET f == outbox[j].frontier
  IN  \/ f = 0
      \/ \E b \in bubbles : b.kind = "failure" /\ b.job = j
      \/ f # 0 /\ msgs[f] \in {"reply", "resident"}
DeliverRead(r, j) ==
  /\ sinks[r] = NoDelivery /\ outbox[j].state = "due"
  /\ \/ /\ Moot(j)
        /\ outbox' = [outbox EXCEPT ![j].state = "done"] /\ UNCHANGED sinks
     \/ /\ ~Moot(j)
        /\ sinks' = [sinks EXCEPT ![r] = [job |-> j, frontier |-> outbox[j].frontier,
                                          pc |-> "built"]]
        /\ UNCHANGED outbox
  /\ UNCHANGED <<runtime, chat, jobs, turn, sweep>>

\* chat_append_effect_with_cursor(require_cursor_advance): suppressed when the
\* cursor has passed the frontier, deferred when part of it is answered.
DeliverWrite(r) ==
  LET f == sinks[r].frontier
      to(pc) == sinks' = [sinks EXCEPT ![r].pc = pc]
  IN  /\ sinks[r].pc = "built"
      /\ \/ f <= cursor /\ to("written") /\ UNCHANGED chat
         \/ /\ f > cursor
            /\ AppendWithCursor([kind |-> "failure", parent |-> f, job |-> sinks[r].job],
                                f, Marks(f, "failure"))
            /\ to("written")
         \/ /\ f > cursor /\ ~(Consumed(f) \subseteq Open(msgs))
            /\ sinks' = [sinks EXCEPT ![r] = NoDelivery] /\ UNCHANGED chat
      /\ UNCHANGED <<runtime, jobs, turn, outbox, sweep>>

\* _ack_terminal_failure_reply, a transaction of its own.
DeliverAck(r) ==
  LET j == sinks[r].job
  IN  /\ sinks[r].pc = "written"
      /\ outbox' = [outbox EXCEPT ![j].state = IF @ = "due" THEN "done" ELSE @]
      /\ sinks' = [sinks EXCEPT ![r] = NoDelivery]
      /\ UNCHANGED <<runtime, chat, jobs, turn, sweep>>

\* The reconciler's process dies between two of its transactions.
DeliveryLost(r) ==
  /\ sinks[r] # NoDelivery
  /\ sinks' = [sinks EXCEPT ![r] = NoDelivery]
  /\ UNCHANGED <<runtime, chat, jobs, turn, outbox, sweep>>

-----------------------------------------------------------------------------
(* The resident runtime, cutovers and Chat Clear.                          *)

\* chat_append_resident_reply
ResidentReply(m) ==
  /\ rtState = "resident" /\ m \in Open(msgs)
  /\ msgs' = [msgs EXCEPT ![m] = "resident"]
  /\ bubbles' = bubbles \cup {[kind |-> "resident", parent |-> m, job |-> 0]}
  /\ UNCHANGED <<runtime, sent, cursor, jobs, turn, outbox, sinks, sweep>>

Cutover(target) ==
  /\ rtState # target => rtGen + 2 <= MaxGen
  /\ rtState' = target
  /\ rtGen' = IF rtState = target THEN rtGen ELSE rtGen + 2
  /\ \/ /\ target = "v2"
        /\ cursor' = Newest({cursor} \cup Answered(msgs)) /\ UNCHANGED msgs
     \/ /\ target = "resident" /\ UNCHANGED cursor
        /\ msgs' = [m \in Seqs |-> IF m \in Open(msgs) /\ m <= cursor
                                    THEN "bridge" ELSE msgs[m]]
  /\ UNCHANGED <<sent, bubbles, jobs, turn, outbox, sinks, sweep>>

ChatClear ==
  /\ rtGen < MaxGen /\ rtGen' = rtGen + 1
  /\ msgs' = [m \in Seqs |-> IF m \in Live(msgs) THEN "cleared" ELSE msgs[m]]
  /\ jobs' = [j \in Ids |-> IF j \in ActiveJobs
                             THEN Ended(jobs[j], "superseded") ELSE jobs[j]]
  /\ cursor' = 0 /\ bubbles' = {} /\ effects' = {} /\ wrote' = {}
  /\ outbox' = [j \in Ids |-> NoFailure]
  /\ UNCHANGED <<rtState, sent, turns, sinks, sweep>>

-----------------------------------------------------------------------------
Turn(j) ==
  \/ LoadCursor(j) \/ Pin(j) \/ FinishEmpty(j)
  \/ Write(j) \/ EnqueueReply(j) \/ OrderedFollowup(j)
  \/ SurfaceFailure(j) \/ MarkFailed(j)
Next ==
  \/ Send \/ Append \/ SweepRead \/ SweepEnqueue \/ Recover \/ ChatClear
  \/ \E j \in Ids : Claim(j) \/ Turn(j)
  \/ \E j \in Ids : Crash(j) \/ Overdue(j) \/ Reap(j)
  \/ \E r \in Reconcilers : DeliverWrite(r) \/ DeliverAck(r) \/ DeliveryLost(r)
  \/ \E r \in Reconcilers, j \in Ids : DeliverRead(r, j)
  \/ \E j \in Ids, m \in Seqs : ApplyReply(j, m)
  \/ \E m \in Seqs : ResidentReply(m)
  \/ \E target \in {"resident", "v2"} : Cutover(target)

Spec == Init /\ [][Next]_vars

\* The parent processes' sweeper, reaper and reconciler loops run for ever and a
\* deadline passes; a reconciler that dies is restarted and does not die each
\* time at the same step.  Nothing makes a worker claim or take its turn's next
\* step, the runtime change, a process crash or the user send.
FairSpec ==
  /\ Spec
  /\ WF_vars(SweepRead \/ SweepEnqueue)
  /\ \A j \in Ids : WF_vars(Overdue(j) \/ Reap(j))
  /\ \A r \in Reconcilers :
       /\ WF_vars(\E j \in Ids : DeliverRead(r, j))
       /\ SF_vars(DeliverWrite(r) \/ DeliverAck(r))

-----------------------------------------------------------------------------
(* Properties.                                                             *)

MarkType == {"absent", "open", "reply", "resident", "failure", "bridge", "cleared"}
Terminal == {"completed", "failed", "expired", "superseded"}
Reasons == {"none", "chat_send", "reconcile", "mutation_recovery",
            "runtime_cutover_recovery", "coalesced_followup", "ordered_followup"}
JobType == [status : {"absent"} \cup Active \cup Terminal, gen : Nat, input : Nat,
            overdue : BOOLEAN, reason : Reasons, trace : 0 .. MaxMsgs]
TurnType == [pc : {"none", "started", "loaded", "pinned", "offered", "replied", "ending",
                   "over", "dead"},
             since : 0 .. MaxMsgs, observed : Nat, target : 0 .. MaxMsgs, barrier : BOOLEAN]
FailureType == [state : {"none", "due", "done"}, frontier : 0 .. MaxMsgs]
DeliveryType == [job : 0 .. MaxJobs, frontier : 0 .. MaxMsgs, pc : {"idle", "built", "written"}]
SweepType == [trace : 0 .. MaxMsgs, gen : Nat, reason : Reasons]
BubbleType == [kind : {"reply", "failure", "resident"}, parent : Seqs, job : 0 .. MaxJobs]

\* The columns hold the values the code writes into them.
TypeOK ==
  /\ rtState \in {"resident", "v2"} /\ rtGen \in 1 .. MaxGen
  /\ sent \in 0 .. MaxMsgs /\ cursor \in 0 .. MaxMsgs
  /\ msgs \in [Seqs -> MarkType]
  /\ bubbles \subseteq BubbleType
  /\ jobs \in [Ids -> JobType]
  /\ turns \in [Ids -> TurnType]
  /\ effects \subseteq Ids \X Seqs /\ wrote \subseteq Ids \X Seqs
  /\ outbox \in [Ids -> FailureType]
  /\ sinks \in [Reconcilers -> DeliveryType]
  /\ sweep \in SweepType

Replies(m) == {b \in bubbles : b.parent = m /\ b.kind # "failure"}

\* No message gets two real replies, whichever of the V2 turns, their outbox
\* sweepers and the resident runtime answer it across crashes and cutovers
\* (_reply_fence_matches, chat_append_resident_reply, patch_blob_strict).
AnsweredOnce == \A m \in Seqs : \A b, c \in Replies(m) : b = c

\* A message that got a real reply never ends up marked as failed, in whichever
\* order the reply and the failure notice of its turn commit
\* (chat_append_effect_with_cursor, _deliver_terminal_failure_reply).
RealReplyWins ==
  \A m \in Live(msgs) : Replies(m) # {} => msgs[m] \in {"reply", "resident"}

\* Under V2 ownership no message beyond the reply cursor is answered, so a turn
\* never pins an answered message and the "already answered by another runtime"
\* abort of chat_append_effect_with_cursor never refuses its reply.
CursorCoversMarks == rtState = "v2" => \A m \in Answered(msgs) : m <= cursor

\* The cursor passes an unanswered message only where the cutover to V2 adopts
\* a later resident reply; elsewhere what it passes is marked in the same
\* transaction (chat_append_effect_with_cursor, patch_blob_strict).
NothingSkipped ==
  \A m \in Open(msgs) : m <= cursor => \E n \in Answered(msgs) : n > m /\ msgs[n] = "resident"

\* Remote mutations for one input come from one turn, although crashes, lease
\* losses and sweepers replay the input: a later turn sees the older turn's
\* record and runs without mutating tools, and the older process is fenced out
\* (get_chat_mutation_recovery_barrier, start_mcp_mutation_attempt).
MutatesOnce == \A v, w \in wrote : v[2] = w[2] => v[1] = w[1]

\* Nothing of a cleared conversation is published after Chat Clear (chat_clear).
ClearIsFinal == \A b \in bubbles : msgs[b.parent] # "cleared"

\* Every message of a user V2 owns is answered, by a reply or a failure notice,
\* even if every worker stops for ever at any step of any turn (until the bound
\* on jobs is spent).  The exception is a message whose one catch-up answered an
\* older message while the worker died before the ordered follow-up
\* (reconcile_unenqueued_v2_messages, reap_stuck_job_rows,
\* reconcile_terminal_failure_outbox).
CatchUpSpent(m) ==
  \E j \in DOMAIN jobs :
    /\ jobs[j].reason \in {"reconcile", "mutation_recovery"}
    /\ jobs[j].trace = m /\ jobs[j].status = "completed"
EveryMessageSettles ==
  \A m \in Seqs : m \in Open(msgs)
                   ~> m \notin Open(msgs) \/ NextId > MaxJobs \/ CatchUpSpent(m)
=============================================================================
