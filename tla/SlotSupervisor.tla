--------------------------- MODULE SlotSupervisor ---------------------------
(***************************************************************************)
(* One Runtime V2 slot: the child process that claims and runs jobs, the   *)
(* parent's ChildSupervisor that tracks it through a progress pipe, and    *)
(* the four parties that may replace it at the same time: the watchdog,    *)
(* the exact-claim reconciler, the cancellation router and shutdown.       *)
(*                                                                         *)
(* Each of them calls the supervisor from a thread of its own, so a call   *)
(* waits for _lifecycle_lock while the world moves on, and a call of a     *)
(* cancelled asyncio task still runs.  A call holds the lock from its      *)
(* signal (Enter) to the outcome of the join (Leave); the operating system *)
(* may take longer than the join to end the process.                       *)
(***************************************************************************)
EXTENDS Naturals, FiniteSets, Sequences

CONSTANTS
  Jobs,          \* jobs of agent_jobs this slot can claim
  Requeues,      \* those recovery puts back to pending (the rest expire)
  MaxGens,       \* generations, that is child processes, of the slot
  MaxMsgs,       \* progress messages of one child
  MaxFaults,     \* watchdog kills, self-exits, failed recoveries, lost notices
  Watched,       \* whether the watchdog runs
  NoJob

ASSUME SlotAssumption ==
  /\ Requeues \subseteq Jobs /\ NoJob \notin Jobs
  /\ MaxGens \in Nat \ {0} /\ MaxMsgs \in Nat /\ MaxFaults \in Nat
  /\ Watched \in BOOLEAN

VARIABLES
  job,      \* [Jobs -> [st, by]], the rows of agent_jobs
  proc,     \* [Gens -> {"unborn", "up", "killed", "dead"}]
  work,     \* [Gens -> [on, n, ended]], what each child is really doing
  tracked,  \* _proc: the generation of the tracked process, 0 for None
  gen,      \* _slot_generation, 0 for an id no process has
  snap,     \* _snapshot
  pipe,     \* progress the reader thread has not read
  lock,     \* holder of _lifecycle_lock, or "free"
  call,     \* [Actors -> the supervisor call the actor's thread is in]
  wd,       \* the watchdog's local state
  rec,      \* the snapshot the reconciler is checking
  retries,  \* ClaimRecoveryQueue: claims to recover later
  notices,  \* committed cancellations not yet routed
  stopped,  \* stop has returned
  left      \* faults still allowed

vars == <<job, proc, work, tracked, gen, snap, pipe, lock, call, wd, rec, retries,
          notices, stopped, left>>

Gens == 1..MaxGens
Actors == {"watchdog", "reconciler", "router", "shutdown"}
NoSnap == [gen |-> 0, on |-> NoJob, n |-> 0, ending |-> FALSE]
NoCall == [op |-> "none", exp |-> NoSnap]
NoClaim == [on |-> NoJob, by |-> 0]
IdleDog == [pc |-> "poll", claim |-> NoClaim]
Claims == [on : Jobs \union {NoJob}, by : 0..MaxGens]
Snaps == [gen : 0..MaxGens, on : Jobs \union {NoJob}, n : 0..MaxMsgs, ending : BOOLEAN]
Messages == [gen : Gens, on : Jobs \union {NoJob}, n : 0..MaxMsgs, ending : BOOLEAN]
RowType == [st : {"pending", "claimed", "done", "cancelled", "expired"}, by : 0..MaxGens]
WorkType == [on : Jobs \union {NoJob}, n : 0..MaxMsgs, ended : BOOLEAN]
CallType == [op : {"none", "kill", "restart", "start", "stop"}, exp : Snaps]

TypeOK ==
  /\ job \in [Jobs -> RowType]
  /\ proc \in [Gens -> {"unborn", "up", "killed", "dead"}]
  /\ work \in [Gens -> WorkType]
  /\ tracked \in 0..MaxGens /\ gen \in {0, tracked}
  /\ snap \in Snaps /\ snap.gen \in {0, gen} /\ pipe \in Seq(Messages)
  /\ lock \in Actors \union {"free"}
  /\ call \in [Actors -> CallType]
  /\ wd \in [pc : {"poll", "beat", "killing", "recover", "starting", "over"}, claim : Claims]
  /\ rec \in Snaps /\ retries \subseteq Claims /\ notices \subseteq [on : Jobs, by : 0..MaxGens]
  /\ stopped \in BOOLEAN /\ left \in 0..MaxFaults

\* fleet.start_all has started the first generation.
Init ==
  /\ job = [j \in Jobs |-> [st |-> "pending", by |-> 0]]
  /\ proc = [g \in Gens |-> IF g = 1 THEN "up" ELSE "unborn"]
  /\ work = [g \in Gens |-> [on |-> NoJob, n |-> 0, ended |-> FALSE]]
  /\ tracked = 1 /\ gen = 1 /\ snap = NoSnap /\ pipe = <<>>
  /\ lock = "free" /\ call = [a \in Actors |-> NoCall]
  /\ wd = IF Watched THEN IdleDog ELSE [IdleDog EXCEPT !.pc = "over"]
  /\ rec = NoSnap /\ retries = {} /\ notices = {}
  /\ stopped = FALSE /\ left = MaxFaults

Parent == <<tracked, gen, snap, lock, call, wd, rec, retries, stopped>>
ActiveClaim(s) == IF s.on = NoJob THEN NoClaim ELSE [on |-> s.on, by |-> s.gen]
Spend == left > 0 /\ left' = left - 1

----------------------------------------------------------------------------
(* The child: worker._slot_loop in turn_child._run.  Its progress message  *)
(* carries a timestamp, here its number, so no two are equal.              *)

Report(g, j, n, ending) ==
  IF g = tracked THEN pipe' = Append(pipe, [gen |-> g, on |-> j, n |-> n, ending |-> ending])
  ELSE UNCHANGED pipe

\* claim_next_job commits the claim, then the child reports it.
Claim(g, j) ==
  /\ proc[g] = "up" /\ work[g].on = NoJob /\ work[g].n < MaxMsgs
  /\ job[j].st = "pending"
  /\ job' = [job EXCEPT ![j] = [st |-> "claimed", by |-> g]]
  /\ work' = [work EXCEPT ![g] = [on |-> j, n |-> @.n + 1, ended |-> FALSE]]
  /\ Report(g, j, work[g].n + 1, FALSE)
  /\ UNCHANGED <<proc, notices, left, Parent>>

\* The turn's terminal transaction, fenced on the exact claim.
Finish(g) ==
  /\ proc[g] = "up" /\ work[g].on # NoJob /\ ~work[g].ended
  /\ LET j == work[g].on IN
       job' = IF job[j] = [st |-> "claimed", by |-> g]
              THEN [job EXCEPT ![j].st = "done"] ELSE job
  /\ work' = [work EXCEPT ![g].ended = TRUE]
  /\ UNCHANGED <<proc, pipe, notices, left, Parent>>

\* durable_completion, then idle: two messages.
Idle(g) ==
  /\ proc[g] = "up" /\ work[g].on # NoJob /\ work[g].ended /\ work[g].n + 2 <= MaxMsgs
  /\ LET n == work[g].n
         said == <<[gen |-> g, on |-> work[g].on, n |-> n + 1, ending |-> TRUE],
                   [gen |-> g, on |-> NoJob, n |-> n + 2, ending |-> FALSE]>>
     IN  /\ pipe' = IF g = tracked THEN pipe \o said ELSE pipe
         /\ work' = [work EXCEPT ![g] = [on |-> NoJob, n |-> n + 2, ended |-> FALSE]]
  /\ UNCHANGED <<job, proc, notices, left, Parent>>

\* The child exits by itself, or a killed process is finally reaped.
Exit(g) ==
  /\ \/ proc[g] = "up" /\ Spend
     \/ proc[g] = "killed" /\ UNCHANGED left
  /\ proc' = [proc EXCEPT ![g] = "dead"]
  /\ UNCHANGED <<job, work, pipe, notices, Parent>>

----------------------------------------------------------------------------
(* The rest of the world.                                                  *)

\* Chat Clear or a newer message cancels a claimed job; its NOTIFY may be lost.
CancelJob(j) ==
  /\ job[j].st = "claimed"
  /\ job' = [job EXCEPT ![j].st = "cancelled"]
  /\ \/ notices' = notices \union {[on |-> j, by |-> job[j].by]} /\ UNCHANGED left
     \/ Spend /\ UNCHANGED notices
  /\ UNCHANGED <<proc, work, pipe, Parent>>

Recovered(j) ==
  [job EXCEPT ![j] = [st |-> IF j \in Requeues THEN "pending" ELSE "expired", by |-> 0]]

\* The lease reaper: the lease ran out, of a dead child's claim in the end or
\* of a live one whose renewal came late.
Reap(j) ==
  /\ job[j].st = "claimed"
  /\ proc[job[j].by] = "up" => left > 0
  /\ left' = IF proc[job[j].by] = "up" THEN left - 1 ELSE left
  /\ job' = Recovered(j)
  /\ UNCHANGED <<proc, work, pipe, notices, Parent>>

\* The reader thread handles one message: only the current generation counts.
Drain ==
  /\ pipe # <<>> /\ tracked # 0
  /\ pipe' = Tail(pipe)
  /\ snap' = IF Head(pipe).gen = gen THEN Head(pipe) ELSE snap
  /\ UNCHANGED <<job, proc, work, notices, left, tracked, gen, lock, call, wd, rec,
                 retries, stopped>>

----------------------------------------------------------------------------
(* Calls of the supervisor.  Ask hands one to a thread.                    *)

Ask(a, op, exp) == call' = [call EXCEPT ![a] = [op |-> op, exp |-> exp]]
Ret(a) == call' = [call EXCEPT ![a] = NoCall]
Alive(g) == g # 0 /\ proc[g] \in {"up", "killed"}
Kill(g) == IF g # 0 /\ proc[g] = "up" THEN [proc EXCEPT ![g] = "killed"] ELSE proc

\* _start_locked: a live child makes it a no-op; a dead one is reaped first.
\* The pipe of the new child is empty.
Start(t) ==
  IF Alive(t) THEN UNCHANGED <<proc, tracked, gen, snap, pipe>>
  ELSE \E g \in Gens :
         /\ proc[g] = "unborn" /\ \A h \in Gens : proc[h] = "unborn" => g <= h
         /\ proc' = [proc EXCEPT ![g] = "up"]
         /\ tracked' = g /\ gen' = g /\ snap' = NoSnap /\ pipe' = <<>>

\* Full equality of the two progress records.
Matches(exp) == snap = exp

\* The lock is taken and the call runs up to its join: kill and stop signal
\* the child; restart first compares, and a mismatch ends it; start is whole.
Enter(a) ==
  /\ lock = "free" /\ call[a].op # "none"
  /\ \/ /\ call[a].op \in {"kill", "stop"}
        /\ lock' = a /\ proc' = Kill(tracked) /\ pipe' = <<>>
        /\ wd' = IF a = "watchdog" /\ wd.pc = "killing"
                 THEN [wd EXCEPT !.claim = IF snap.on # NoJob THEN ActiveClaim(snap) ELSE @]
                 ELSE wd
        /\ UNCHANGED <<tracked, gen, snap, call>>
     \/ /\ call[a].op = "restart" /\ ~Matches(call[a].exp)
        /\ Ret(a) /\ UNCHANGED <<lock, proc, tracked, gen, snap, pipe, wd>>
     \/ /\ call[a].op = "restart" /\ Matches(call[a].exp)
        /\ lock' = a /\ proc' = Kill(tracked) /\ gen' = 0 /\ snap' = NoSnap
        /\ UNCHANGED <<tracked, pipe, call, wd>>
     \/ /\ call[a].op = "start"
        /\ Start(tracked) /\ Ret(a) /\ UNCHANGED <<lock, wd>>
  /\ UNCHANGED <<job, work, rec, retries, notices, stopped, left>>

\* A replacement is started although the old process may still run.
RestartUnconfirmed(gone) == Start(0)

\* restart_if_snapshot after its join: no replacement for a child whose exit
\* is not confirmed.
AfterRestart(gone) ==
  IF gone THEN Start(0) ELSE pipe' = <<>> /\ UNCHANGED <<proc, tracked, gen, snap>>

\* The claim is recovered whether or not the exit is confirmed.
KillRecovers(a, gone) ==
  /\ IF gone THEN tracked' = 0 /\ gen' = 0 /\ snap' = NoSnap
             ELSE UNCHANGED <<tracked, gen, snap>>
  /\ wd' = IF a = "watchdog" /\ wd.pc = "killing" THEN [wd EXCEPT !.pc = "recover"] ELSE wd

\* The watchdog ends after a kill it could not confirm.
KillGivesUp(a, gone) ==
  /\ IF gone THEN tracked' = 0 /\ gen' = 0 /\ snap' = NoSnap
             ELSE UNCHANGED <<tracked, gen, snap>>
  /\ wd' = IF a = "watchdog" /\ wd.pc = "killing"
           THEN IF gone THEN [wd EXCEPT !.pc = "recover"] ELSE [IdleDog EXCEPT !.pc = "over"]
           ELSE wd

\* kill after its join: an exit that is not confirmed keeps the process
\* tracked, with its snapshot, and the watchdog looks again later.
AfterKill(a, gone) ==
  /\ IF gone THEN tracked' = 0 /\ gen' = 0 /\ snap' = NoSnap
             ELSE UNCHANGED <<tracked, gen, snap>>
  /\ wd' = IF a = "watchdog" /\ wd.pc = "killing"
           THEN IF gone THEN [wd EXCEPT !.pc = "recover"] ELSE IdleDog
           ELSE wd

\* stop after its join: the generation is fenced whatever happened.
AfterStop(gone) ==
  tracked' = (IF gone THEN 0 ELSE tracked) /\ gen' = 0 /\ snap' = NoSnap /\ stopped' = TRUE

\* The join returns and the call gives the lock back.
Leave(a) ==
  /\ lock = a /\ lock' = "free" /\ Ret(a)
  /\ LET gone == ~Alive(tracked) IN
     \/ call[a].op = "kill" /\ AfterKill(a, gone) /\ UNCHANGED <<proc, pipe, stopped>>
     \/ call[a].op = "stop" /\ AfterStop(gone) /\ UNCHANGED <<proc, pipe, wd>>
     \/ call[a].op = "restart" /\ AfterRestart(gone) /\ UNCHANGED <<wd, stopped>>
  /\ UNCHANGED <<job, work, rec, retries, notices, left>>

----------------------------------------------------------------------------
(* The watchdog: _watchdog_loop and its _kill_child.                       *)

DogFrame == UNCHANGED <<job, proc, work, tracked, gen, snap, pipe, lock, rec, notices, stopped>>

\* should_kill: no live process, or a live one that stalled or overran.
\* The snapshot is taken before the capacity heartbeat is written.
Decide ==
  /\ wd.pc = "poll"
  /\ IF Alive(tracked) /\ proc[tracked] = "up" THEN Spend ELSE UNCHANGED left
  /\ wd' = [pc |-> "beat", claim |-> ActiveClaim(snap)]
  /\ UNCHANGED <<call, retries>> /\ DogFrame

\* The heartbeat was written, failed or timed out: kill_for_recovery.
KillForRecovery ==
  /\ wd.pc = "beat"
  /\ wd' = [wd EXCEPT !.pc = "killing"]
  /\ Ask("watchdog", "kill", NoSnap)
  /\ UNCHANGED <<retries, left>> /\ DogFrame

\* recover_killed_job touches the claim only where job and owner still match.
RecoverClaim(c) ==
  IF c.on # NoJob /\ job[c.on] = [st |-> "claimed", by |-> c.by]
  THEN job' = Recovered(c.on) ELSE UNCHANGED job

\* Exact recovery succeeds, or fails (a timed-out one may still commit) and is
\* queued; the replacement is started in either case.
Recover ==
  /\ wd.pc = "recover"
  /\ wd' = [pc |-> "starting", claim |-> NoClaim]
  /\ Ask("watchdog", "start", NoSnap)
  /\ \/ RecoverClaim(wd.claim) /\ UNCHANGED <<retries, left>>
     \/ /\ wd.claim # NoClaim /\ Spend
        /\ retries' = retries \union {wd.claim}
        /\ RecoverClaim(wd.claim) \/ UNCHANGED job
  /\ UNCHANGED <<proc, work, tracked, gen, snap, pipe, lock, rec, notices, stopped>>

\* start returned: back to polling.
Resume ==
  /\ wd.pc = "starting" /\ call["watchdog"] = NoCall
  /\ wd' = IdleDog
  /\ UNCHANGED <<call, retries, left>> /\ DogFrame

\* ClaimRecoveryQueue.run: a due retry succeeds, or its last attempt fails and
\* the lease reaper is left to it.
Retry(c) ==
  /\ c \in retries
  /\ retries' = retries \ {c}
  /\ \/ RecoverClaim(c) /\ UNCHANGED left
     \/ Spend /\ UNCHANGED job
  /\ UNCHANGED <<proc, work, tracked, gen, snap, pipe, lock, call, wd, rec, notices, stopped>>

----------------------------------------------------------------------------
(* The other callers.                                                      *)

CallerFrame == UNCHANGED <<job, proc, work, tracked, gen, snap, pipe, lock, wd, retries,
                           stopped, left>>

\* _JobCancelRouter.handle: the slot whose snapshot names the exact claim.
Route(c) ==
  /\ c \in notices /\ call["router"] = NoCall /\ call["shutdown"] = NoCall /\ ~stopped
  /\ notices' = notices \ {c}
  /\ IF snap.on = c.on /\ snap.gen = c.by THEN Ask("router", "restart", snap)
     ELSE UNCHANGED call
  /\ UNCHANGED rec /\ CallerFrame

\* _reconcile_fleet_claims_once: the snapshots first, ...
Look ==
  /\ rec = NoSnap /\ call["reconciler"] = NoCall /\ call["shutdown"] = NoCall /\ ~stopped
  /\ snap.on # NoJob /\ ~snap.ending
  /\ rec' = snap
  /\ UNCHANGED <<call, notices>> /\ CallerFrame

\* valid_reconcile_claims: a live claim, or a terminal row of the same owner.
Valid(s) == job[s.on].by = s.gen /\ job[s.on].st \in {"claimed", "done"}

\* ... then one query, then a restart of each slot whose claim is not valid.
CheckClaim ==
  /\ rec # NoSnap
  /\ rec' = NoSnap
  /\ IF Valid(rec) THEN UNCHANGED call ELSE Ask("reconciler", "restart", rec)
  /\ UNCHANGED notices /\ CallerFrame

\* _serve ends: the loops are cancelled, a call already in a thread goes on,
\* and stop_all runs once the tasks are gone.
Shutdown ==
  /\ call["shutdown"] = NoCall /\ ~stopped
  /\ wd' = [IdleDog EXCEPT !.pc = "over"] /\ rec' = NoSnap /\ notices' = {}
  /\ Ask("shutdown", "stop", NoSnap)
  /\ UNCHANGED <<job, proc, work, tracked, gen, snap, pipe, lock, retries, stopped, left>>

----------------------------------------------------------------------------
Next ==
  \/ \E g \in Gens : (\E j \in Jobs : Claim(g, j)) \/ Finish(g) \/ Idle(g) \/ Exit(g)
  \/ \E j \in Jobs : CancelJob(j) \/ Reap(j)
  \/ Drain
  \/ \E a \in Actors : Enter(a) \/ Leave(a)
  \/ Decide \/ KillForRecovery \/ Recover \/ Resume \/ (\E c \in retries : Retry(c))
  \/ (\E c \in notices : Route(c)) \/ Look \/ CheckClaim \/ Shutdown

\* The loops of the parent keep running, the lock is fair enough that a
\* waiting call gets in, a killed process is reaped in the end, and a lease
\* nobody renews runs out.
Fairness ==
  /\ \A a \in Actors : SF_vars(Enter(a)) /\ WF_vars(Leave(a) /\ ~Alive(tracked))
  /\ \A g \in Gens : WF_vars(proc[g] = "killed" /\ Exit(g))
  /\ \A j \in Jobs : WF_vars(Reap(j) /\ proc[job[j].by] = "dead")
  /\ WF_vars(Decide /\ ~(Alive(tracked) /\ proc[tracked] = "up"))
  /\ WF_vars(KillForRecovery) /\ WF_vars(Recover) /\ WF_vars(Resume)

Spec == Init /\ [][Next]_vars /\ Fairness

----------------------------------------------------------------------------
(* Properties.                                                             *)

\* However watchdog, reconciler, router and shutdown interleave, one slot
\* never has two child processes that may run: a replacement starts only
\* after the exit of its predecessor is confirmed.
OneChild == Cardinality({g \in DOMAIN proc : Alive(g)}) <= 1

\* Exact recovery, at once or retried later, takes a claim only from a child
\* that is dead, although the claim it names comes from a snapshot that may
\* lag behind the child or belong to an earlier generation.
RecoversOnlyTheDead ==
  [][\A j \in Jobs :
       (Recover \/ \E c \in retries : Retry(c)) /\ job'[j] # job[j] =>
         proc[job[j].by] = "dead"]_vars

\* "Shutdown is a lifecycle fence even when OS termination fails": no child
\* is started once stop has returned.
StopIsFinal == [][stopped => \A g \in Gens : proc[g] = "unborn" => proc'[g] = "unborn"]_vars
=============================================================================
