----------------------- MODULE SlotSupervisorProofs -----------------------
(***************************************************************************)
(* The safety of SlotSupervisor for any number of jobs, generations,       *)
(* messages and faults.                                                    *)
(*                                                                         *)
(* The inductive invariant says what the four callers rely on without      *)
(* looking: every process but the tracked one has ended (Ended), a claim   *)
(* the watchdog or its retry queue is about to recover was made by a       *)
(* process that has ended (Settled), and, where no watchdog can be caught  *)
(* in its start, nothing that still waits for the lock after stop can      *)
(* match the fenced snapshot (Fenced).                                     *)
(***************************************************************************)
EXTENDS SlotSupervisor, FiniteSetTheorems, TLAPS

(* Leaves are proved by Zenon unless they cite SMT.                        *)
USE Zenon

Ended ==
  /\ \A g \in Gens : g # tracked => proc[g] \in {"unborn", "dead"}
  /\ tracked # 0 => proc[tracked] # "unborn"

Born(c) == c.on # NoJob => c.by \in Gens /\ proc[c.by] # "unborn"
Over(c) == c.on # NoJob => c.by \in Gens /\ proc[c.by] = "dead"

Settled ==
  /\ snap.on # NoJob => snap.gen # 0
  /\ Born(wd.claim)
  /\ wd.pc = "recover" => Over(wd.claim)
  /\ \A c \in retries : Over(c)

Named(s) == s.on # NoJob

Fenced ==
  ~Watched =>
    /\ wd.pc = "over" /\ call["watchdog"].op = "none"
    /\ rec = NoSnap \/ Named(rec)
    /\ \A a \in {"reconciler", "router"} :
         call[a].op = "none" \/ (call[a].op = "restart" /\ Named(call[a].exp))
    /\ call["shutdown"].op \in {"none", "stop"}
    /\ stopped => snap = NoSnap /\ gen = 0 /\ lock = "free" /\ call["shutdown"].op = "none"

IInv == TypeOK /\ Ended /\ Settled /\ Fenced

-----------------------------------------------------------------------------
\* The types.

\* What SlotAssumption says of the numbers in use.
LEMMA Bounds ==
  /\ MaxGens \in Nat /\ 1 \in Gens /\ MaxMsgs \in Nat /\ MaxFaults \in Nat /\ Watched \in BOOLEAN
  /\ 0 \in 0..MaxGens /\ 0 \in 0..MaxMsgs /\ 0 \notin Gens /\ Gens \subseteq 0..MaxGens
  /\ 0..MaxGens = Gens \union {0}
BY SMT, SlotAssumption DEF Gens

\* The blank snapshot, claim and call have their types.
LEMMA Blanks ==
  /\ NoSnap \in Snaps /\ NoSnap.on = NoJob /\ NoSnap.gen = 0
  /\ NoClaim \in Claims /\ NoClaim.on = NoJob
  /\ NoCall.op = "none" /\ NoCall.exp = NoSnap
BY Bounds DEF NoSnap, Snaps, NoClaim, Claims, NoCall

\* Every message is a possible snapshot, and every snapshot names a claim.
LEMMA Named1 ==
  /\ Messages \subseteq Snaps
  /\ \A x \in Snaps : ActiveClaim(x) \in Claims
BY Bounds, Blanks DEF Messages, Snaps, Claims, ActiveClaim

\* A party's call of the supervisor is well formed.
LEMMA AskType ==
  ASSUME TypeOK, NEW a \in Actors, NEW op \in {"none", "kill", "restart", "start", "stop"},
         NEW exp \in Snaps, Ask(a, op, exp)
  PROVE  call' \in [Actors -> CallType]
<1>1. [op |-> op, exp |-> exp] \in CallType
  BY DEF CallType
<1> QED BY <1>1 DEF Ask, TypeOK

\* So is the state of a caller whose call has returned.
LEMMA RetType ==
  ASSUME TypeOK, NEW a \in Actors, Ret(a)
  PROVE  call' \in [Actors -> CallType]
<1>1. NoCall \in CallType
  BY Blanks DEF CallType, NoCall
<1> QED BY <1>1 DEF Ret, TypeOK

\* A child that has announced its end keeps the type of its work.
LEMMA EndedWorkType == \A w \in WorkType : [w EXCEPT !.ended = TRUE] \in WorkType
BY DEF WorkType

\* A fault takes one from those still allowed.
LEMMA SpendType == ASSUME TypeOK, Spend PROVE left' \in 0..MaxFaults
BY SMT, Bounds DEF TypeOK, Spend

\* recover_killed_job leaves well-formed rows.
LEMMA RecoveredType ==
  ASSUME TypeOK, NEW j \in Jobs
  PROVE  Recovered(j) \in [Jobs -> RowType]
<1>1. [st |-> IF j \in Requeues THEN "pending" ELSE "expired", by |-> 0]
        \in RowType
  BY Bounds DEF RowType
<1> QED BY <1>1 DEF TypeOK, Recovered

\* The types hold when the parent starts its first child.
LEMMA InitType == Init => TypeOK
<1> SUFFICES ASSUME Init PROVE TypeOK
  OBVIOUS
<1>1. /\ job \in [Jobs -> RowType]
      /\ proc \in [Gens -> {"unborn", "up", "killed", "dead"}]
  BY Bounds DEF Init, RowType
<1>2. work \in [Gens -> WorkType]
  BY Bounds DEF Init, WorkType
<1>3. /\ tracked \in 0..MaxGens /\ gen \in {0, tracked}
      /\ snap \in Snaps /\ snap.gen \in {0, gen} /\ pipe \in Seq(Messages)
  BY SMT, Bounds, Blanks DEF Init
<1>4. call \in [Actors -> CallType]
  BY Blanks DEF Init, NoCall, CallType
<1>5. wd \in [pc : {"poll", "beat", "killing", "recover", "starting", "over"}, claim : Claims]
  BY Blanks DEF Init, IdleDog
<1>6. /\ lock \in Actors \union {"free"} /\ rec \in Snaps /\ retries \subseteq Claims
      /\ notices \subseteq [on : Jobs, by : 0..MaxGens] /\ left \in 0..MaxFaults
  BY SMT, Bounds, Blanks DEF Init
<1>7. stopped \in BOOLEAN
  BY DEF Init
<1> QED BY <1>1, <1>2, <1>3, <1>4, <1>5, <1>6, <1>7 DEF TypeOK

\* The child and the database.
LEMMA ChildType ==
  ASSUME TypeOK, NEW g \in Gens, (\E j \in Jobs : Claim(g, j)) \/ Finish(g) \/ Idle(g) \/ Exit(g)
  PROVE  TypeOK'
<1> USE DEF TypeOK, Parent
<1>1. ASSUME NEW j \in Jobs, Claim(g, j) PROVE TypeOK'
  <2> DEFINE m == [gen |-> g, on |-> j, n |-> work[g].n + 1, ending |-> FALSE]
  <2>1. [st |-> "claimed", by |-> g] \in RowType
    BY Bounds DEF RowType
  <2>2. work[g].n + 1 \in 0..MaxMsgs
    BY SMT, <1>1, Bounds DEF Claim, WorkType
  <2>3. [on |-> j, n |-> work[g].n + 1, ended |-> FALSE] \in WorkType
    BY <2>2 DEF WorkType
  <2>4. job' \in [Jobs -> RowType] /\ work' \in [Gens -> WorkType]
    BY <1>1, <2>1, <2>3 DEF Claim
  <2>5. m \in Messages
    BY <2>2 DEF Messages
  <2>6. pipe' = IF g = tracked THEN Append(pipe, m) ELSE pipe
    BY <1>1 DEF Claim, Report
  <2> HIDE DEF m
  <2>7. pipe' \in Seq(Messages)
    BY SMT, <2>5, <2>6
  <2> QED BY <1>1, <2>4, <2>7 DEF Claim
<1>2. CASE Finish(g)
  <2>1. [work[g] EXCEPT !.ended = TRUE] \in WorkType
    BY EndedWorkType
  <2>2. \A j \in Jobs : [job[j] EXCEPT !.st = "done"] \in RowType
    BY DEF RowType
  <2>3. work[g].on \in Jobs
    BY <1>2 DEF Finish, WorkType
  <2>4. job' = job \/ job' = [job EXCEPT ![work[g].on].st = "done"]
    BY <1>2 DEF Finish
  <2>5. job' \in [Jobs -> RowType]
    BY <2>2, <2>3, <2>4
  <2>6. work' \in [Gens -> WorkType]
    BY <1>2, <2>1 DEF Finish
  <2> QED BY <1>2, <2>5, <2>6 DEF Finish
<1>3. CASE Idle(g)
  <2> DEFINE n == work[g].n
             m1 == [gen |-> g, on |-> work[g].on, n |-> n + 1, ending |-> TRUE]
             m2 == [gen |-> g, on |-> NoJob, n |-> n + 2, ending |-> FALSE]
  <2>1. n + 1 \in 0..MaxMsgs /\ n + 2 \in 0..MaxMsgs /\ work[g].on \in Jobs \union {NoJob}
    BY SMT, <1>3, Bounds DEF Idle, WorkType
  <2>2. m1 \in Messages /\ m2 \in Messages
    BY <2>1 DEF Messages
  <2>3. pipe' = (IF g = tracked THEN pipe \o <<m1, m2>> ELSE pipe)
    BY <1>3 DEF Idle
  <2>4. pipe' \in Seq(Messages)
    <3> HIDE DEF m1, m2
    <3>1. <<m1, m2>> \in Seq(Messages)
      BY SMT, <2>2
    <3> QED BY SMT, <2>3, <3>1
  <2>5. [on |-> NoJob, n |-> n + 2, ended |-> FALSE]
          \in WorkType
    BY <2>1 DEF WorkType
  <2>6. work' \in [Gens -> WorkType]
    BY <1>3, <2>5 DEF Idle
  <2> QED BY <1>3, <2>4, <2>6 DEF Idle
<1>4. CASE Exit(g)
  BY <1>4, SpendType DEF Exit
<1> QED BY <1>1, <1>2, <1>3, <1>4

\* Cancellations, the reaper and the reader thread keep the types.
LEMMA WorldType ==
  ASSUME TypeOK, (\E j \in Jobs : CancelJob(j) \/ Reap(j)) \/ Drain
  PROVE  TypeOK'
<1> USE DEF TypeOK, Parent
<1>1. ASSUME NEW j \in Jobs, CancelJob(j) PROVE TypeOK'
  <2>1. [on |-> j, by |-> job[j].by] \in [on : Jobs, by : 0..MaxGens]
    BY DEF RowType
  <2>2. notices' \subseteq [on : Jobs, by : 0..MaxGens] /\ left' \in 0..MaxFaults
    BY <1>1, <2>1, SpendType DEF CancelJob
  <2>3. [job[j] EXCEPT !.st = "cancelled"] \in RowType
    BY SMT DEF RowType
  <2>4. job' \in [Jobs -> RowType]
    BY <1>1, <2>3 DEF CancelJob
  <2> QED BY <1>1, <2>2, <2>4 DEF CancelJob
<1>2. ASSUME NEW j \in Jobs, Reap(j) PROVE TypeOK'
  <2>1. left' \in 0..MaxFaults
    BY SMT, <1>2, Bounds DEF Reap
  <2> QED BY <1>2, <2>1, RecoveredType DEF Reap
<1>3. CASE Drain
  <2>1. pipe' \in Seq(Messages) /\ Head(pipe) \in Messages
    BY SMT, <1>3 DEF Drain
  <2>2. snap' \in Snaps /\ snap'.gen \in {0, gen}
    BY <1>3, <2>1, Named1 DEF Drain
  <2> QED BY <1>3, <2>1, <2>2 DEF Drain
<1> QED BY <1>1, <1>2, <1>3

\* _start_locked: the tracked process is left alone, or one new generation
\* comes up and is tracked.
Begun(g) ==
  /\ proc[g] = "unborn" /\ proc' = [proc EXCEPT ![g] = "up"]
  /\ tracked' = g /\ gen' = g /\ snap' = NoSnap /\ pipe' = <<>>

\* _start_locked either finds its process alive or begins a new
\* generation.
LEMMA StartForms ==
  ASSUME NEW t, Start(t)
  PROVE  \/ Alive(t) /\ UNCHANGED <<proc, tracked, gen, snap, pipe>>
         \/ ~Alive(t) /\ \E g \in Gens : Begun(g)
BY DEF Start, Begun

SlotTypes ==
  /\ proc \in [Gens -> {"unborn", "up", "killed", "dead"}]
  /\ tracked \in 0..MaxGens /\ gen \in {0, tracked}
  /\ snap \in Snaps /\ snap.gen \in {0, gen} /\ pipe \in Seq(Messages)

\* Either way process, pipe and snapshot keep their types.
LEMMA StartType ==
  ASSUME TypeOK, NEW t, Start(t)
  PROVE  SlotTypes'
<1>1. CASE UNCHANGED <<proc, tracked, gen, snap, pipe>>
  BY <1>1 DEF TypeOK, SlotTypes
<1>2. ASSUME NEW g \in Gens, Begun(g) PROVE SlotTypes'
  BY SMT, <1>2, Bounds, Blanks DEF TypeOK, SlotTypes, Begun
<1> QED BY <1>1, <1>2, StartForms

\* A signal leaves every process in one of its states.
LEMMA KillType ==
  ASSUME TypeOK, proc' = Kill(tracked)
  PROVE  proc' \in [Gens -> {"unborn", "up", "killed", "dead"}]
BY Bounds DEF TypeOK, Kill

\* A call that takes the lifecycle lock keeps the types.
LEMMA EnterType ==
  ASSUME TypeOK, NEW a \in Actors, Enter(a)
  PROVE  TypeOK'
<1> USE DEF TypeOK
<1>a. UNCHANGED <<job, work, rec, retries, notices, stopped, left>>
  BY DEF Enter
<1>1. CASE /\ call[a].op \in {"kill", "stop"}
           /\ lock' = a /\ proc' = Kill(tracked) /\ pipe' = <<>>
           /\ wd' = IF a = "watchdog" /\ wd.pc = "killing"
                    THEN [wd EXCEPT !.claim = IF snap.on # NoJob THEN ActiveClaim(snap) ELSE @]
                    ELSE wd
           /\ UNCHANGED <<tracked, gen, snap, call>>
  <2>1. wd' \in [pc : {"poll", "beat", "killing", "recover", "starting", "over"}, claim : Claims]
    BY <1>1, Named1
  <2>2. proc' \in [Gens -> {"unborn", "up", "killed", "dead"}] /\ pipe' \in Seq(Messages)
    BY SMT, <1>1, KillType
  <2> QED BY <1>a, <1>1, <2>1, <2>2
<1>2. CASE /\ call[a].op = "restart" /\ ~Matches(call[a].exp)
           /\ Ret(a) /\ UNCHANGED <<lock, proc, tracked, gen, snap, pipe, wd>>
  BY <1>a, <1>2, RetType
<1>3. CASE /\ call[a].op = "restart" /\ Matches(call[a].exp)
           /\ lock' = a /\ proc' = Kill(tracked) /\ gen' = 0 /\ snap' = NoSnap
           /\ UNCHANGED <<tracked, pipe, call, wd>>
  BY <1>a, <1>3, KillType, Blanks
<1>4. CASE call[a].op = "start" /\ Start(tracked) /\ Ret(a) /\ UNCHANGED <<lock, wd>>
  <2>1. SlotTypes'
    BY <1>4, StartType
  <2> QED BY <1>a, <1>4, <2>1, RetType DEF SlotTypes
<1> QED BY <1>1, <1>2, <1>3, <1>4 DEF Enter

\* So does its return after the join.
LEMMA LeaveType ==
  ASSUME TypeOK, NEW a \in Actors, Leave(a)
  PROVE  TypeOK'
<1> USE DEF TypeOK
<1>a. UNCHANGED <<job, work, rec, retries, notices, left>> /\ lock' = "free" /\ Ret(a)
  BY DEF Leave
<1>b. call' \in [Actors -> CallType]
  BY <1>a, RetType
<1> DEFINE gone == ~Alive(tracked)
<1>1. CASE call[a].op = "kill" /\ AfterKill(a, gone) /\ UNCHANGED <<proc, pipe, stopped>>
  <2>1. wd' \in [pc : {"poll", "beat", "killing", "recover", "starting", "over"}, claim : Claims]
    BY <1>1, Blanks DEF AfterKill, IdleDog
  <2>2. SlotTypes'
    BY <1>1, Bounds, Blanks DEF AfterKill, SlotTypes
  <2> QED BY <1>a, <1>b, <1>1, <2>1, <2>2 DEF SlotTypes
<1>2. CASE call[a].op = "stop" /\ AfterStop(gone) /\ UNCHANGED <<proc, pipe, wd>>
  <2>1. SlotTypes'
    BY <1>2, Bounds, Blanks DEF AfterStop, SlotTypes
  <2>2. stopped' \in BOOLEAN
    BY <1>2 DEF AfterStop
  <2> QED BY <1>a, <1>b, <1>2, <2>1, <2>2 DEF SlotTypes
<1>3. CASE call[a].op = "restart" /\ AfterRestart(gone) /\ UNCHANGED <<wd, stopped>>
  <2>1. SlotTypes'
    <3>1. CASE gone
      BY <1>3, <3>1, StartType DEF AfterRestart
    <3>2. CASE ~gone
      BY SMT, <1>3, <3>2 DEF AfterRestart, SlotTypes
    <3> QED BY <3>1, <3>2
  <2> QED BY <1>a, <1>b, <1>3, <2>1 DEF SlotTypes
<1> QED BY <1>1, <1>2, <1>3 DEF Leave

\* The watchdog and its retry queue.
LEMMA DogType ==
  ASSUME TypeOK, Decide \/ KillForRecovery \/ Recover \/ Resume \/ \E c \in retries : Retry(c)
  PROVE  TypeOK'
<1> USE DEF TypeOK, DogFrame
<1>a. "watchdog" \in Actors
  BY DEF Actors
<1>b. ASSUME NEW c \in Claims, RecoverClaim(c) PROVE job' \in [Jobs -> RowType]
  BY SMT, <1>b, RecoveredType DEF RecoverClaim, Claims
<1>1. CASE Decide
  <2>1. left' \in 0..MaxFaults
    BY <1>1, SpendType DEF Decide
  <2>2. wd' \in [pc : {"poll", "beat", "killing", "recover", "starting", "over"}, claim : Claims]
    BY <1>1, Named1 DEF Decide
  <2> QED BY <1>1, <2>1, <2>2 DEF Decide
<1>2. CASE KillForRecovery
  <2>1. call' \in [Actors -> CallType]
    BY <1>2, <1>a, Blanks, AskType DEF KillForRecovery
  <2> QED BY <1>2, <2>1 DEF KillForRecovery
<1>3. CASE Recover
  <2>1. call' \in [Actors -> CallType]
    BY <1>3, <1>a, Blanks, AskType DEF Recover
  <2>2. wd.claim \in Claims
    OBVIOUS
  <2>3. job' \in [Jobs -> RowType] /\ retries' \subseteq Claims /\ left' \in 0..MaxFaults
    BY <1>3, <1>b, <2>2, SpendType DEF Recover
  <2>4. wd' \in [pc : {"poll", "beat", "killing", "recover", "starting", "over"}, claim : Claims]
    BY <1>3, Blanks DEF Recover
  <2> QED BY <1>3, <2>1, <2>3, <2>4 DEF Recover
<1>4. CASE Resume
  BY <1>4, Blanks DEF Resume, IdleDog
<1>5. ASSUME NEW c \in retries, Retry(c) PROVE TypeOK'
  <2>1. job' \in [Jobs -> RowType] /\ retries' \subseteq Claims /\ left' \in 0..MaxFaults
    BY <1>5, <1>b, SpendType DEF Retry
  <2> QED BY <1>5, <2>1 DEF Retry
<1> QED BY <1>1, <1>2, <1>3, <1>4, <1>5

\* The router, the reconciler and shutdown.
LEMMA CallerType ==
  ASSUME TypeOK, (\E c \in notices : Route(c)) \/ Look \/ CheckClaim \/ Shutdown
  PROVE  TypeOK'
<1> USE DEF TypeOK, CallerFrame
<1>a. {"router", "reconciler", "shutdown"} \subseteq Actors
  BY DEF Actors
<1>1. ASSUME NEW c \in notices, Route(c) PROVE TypeOK'
  <2>1. call' \in [Actors -> CallType]
    BY <1>1, <1>a, AskType DEF Route
  <2> QED BY <1>1, <2>1 DEF Route
<1>2. CASE Look
  BY <1>2 DEF Look
<1>3. CASE CheckClaim
  <2>1. call' \in [Actors -> CallType]
    BY <1>3, <1>a, AskType DEF CheckClaim
  <2> QED BY <1>3, <2>1, Blanks DEF CheckClaim
<1>4. CASE Shutdown
  <2>1. call' \in [Actors -> CallType]
    BY <1>4, <1>a, Blanks, AskType DEF Shutdown
  <2>2. wd' \in [pc : {"poll", "beat", "killing", "recover", "starting", "over"}, claim : Claims]
    BY <1>4, Blanks DEF Shutdown, IdleDog
  <2> QED BY <1>4, <2>1, <2>2, Blanks DEF Shutdown
<1> QED BY <1>1, <1>2, <1>3, <1>4

\* Every step keeps the types.
LEMMA NextType == TypeOK /\ [Next]_vars => TypeOK'
<1>1. ASSUME TypeOK, UNCHANGED vars PROVE TypeOK'
  BY <1>1 DEF TypeOK, vars
<1> QED BY <1>1, ChildType, WorldType, EnterType, LeaveType, DogType, CallerType
           DEF Next

-----------------------------------------------------------------------------
\* Processes and claims.

\* A process that was born stays born and one that ended stays ended.
Persists ==
  \A g \in Gens : /\ proc[g] # "unborn" => proc'[g] # "unborn"
                  /\ proc[g] = "dead" => proc'[g] = "dead"

\* Nothing starts: a process may only be signalled or end.
Calm == \A g \in Gens : \/ proc'[g] = proc[g]
                        \/ proc[g] \in {"up", "killed"} /\ proc'[g] \in {"killed", "dead"}

\* A step that revives no process persists what is known of claims.
LEMMA CalmPersists == Calm => Persists
BY DEF Calm, Persists

\* Without a new process, all but the tracked one stay ended.
LEMMA CalmEnded ==
  ASSUME TypeOK, Ended, Calm, tracked' = tracked \/ (tracked' = 0 /\ ~Alive(tracked))
  PROVE  Ended'
<1>1. tracked # 0 => tracked \in Gens
  BY Bounds DEF TypeOK
<1>2. ~Alive(tracked) /\ tracked # 0 => proc[tracked] \in {"unborn", "dead"}
  BY <1>1 DEF Alive, TypeOK
<1> QED BY <1>1, <1>2 DEF Ended, Calm

\* A claim of a process that was born, or has ended, stays one.
LEMMA PersistClaims ==
  ASSUME Persists, NEW c
  PROVE  (Born(c) => Born(c)') /\ (Over(c) => Over(c)')
BY DEF Persists, Born, Over

\* A signal revives no process.
LEMMA KillCalm == ASSUME TypeOK, proc' = Kill(tracked) PROVE Calm
BY Bounds DEF TypeOK, Kill, Calm

\* A new process is started only where the tracked one is not alive.
LEMMA BegunEnded ==
  ASSUME TypeOK, Ended, ~Alive(tracked), NEW g \in Gens, Begun(g)
  PROVE  Ended' /\ Persists /\ snap' = NoSnap
<1>1. tracked # 0 => tracked \in Gens /\ proc[tracked] = "dead"
  BY Bounds DEF TypeOK, Alive, Ended
<1>2. /\ tracked' = g /\ proc'[g] = "up" /\ snap' = NoSnap /\ proc[g] = "unborn"
      /\ \A h \in Gens : h # g => proc'[h] = proc[h]
  BY DEF Begun, TypeOK
<1>3. \A h \in Gens : h # g => proc'[h] \in {"unborn", "dead"}
  BY <1>1, <1>2, Bounds DEF Ended
<1>4. Persists
  BY <1>2 DEF Persists
<1>5. g # 0
  BY Bounds
<1> QED BY <1>2, <1>3, <1>4, <1>5 DEF Ended

\* What the snapshot names was made by the tracked process.
LEMMA SnapBorn ==
  ASSUME TypeOK, Ended, Settled
  PROVE  Born(ActiveClaim(snap))
<1>1. CASE snap.on = NoJob
  BY <1>1, Blanks DEF ActiveClaim, Born
<1>2. CASE snap.on # NoJob
  <2>1. snap.gen = tracked /\ tracked \in Gens
    BY <1>2, Bounds DEF TypeOK, Settled
  <2>2. ActiveClaim(snap).on = snap.on /\ ActiveClaim(snap).by = tracked
    BY <1>2, <2>1 DEF ActiveClaim
  <2> QED BY <2>1, <2>2, Bounds DEF Ended, Born
<1> QED BY <1>1, <1>2

\* What was born and is not alive is over, once the tracked process is gone.
LEMMA GoneOver ==
  ASSUME TypeOK, Ended, ~Alive(tracked), NEW c, Born(c)
  PROVE  Over(c)
<1> SUFFICES ASSUME c.on # NoJob PROVE c.by \in Gens /\ proc[c.by] = "dead"
  BY DEF Over
<1>1. c.by \in Gens /\ proc[c.by] # "unborn" /\ c.by # 0
  BY Bounds DEF Born
<1>2. CASE c.by = tracked
  BY <1>1, <1>2 DEF TypeOK, Alive
<1>3. CASE c.by # tracked
  BY <1>1, <1>3 DEF Ended
<1> QED BY <1>2, <1>3

\* A step that leaves watchdog and retry queue alone keeps Settled.
LEMMA SettledFrame ==
  ASSUME Settled, Persists, UNCHANGED <<wd, retries>>, UNCHANGED snap \/ snap' = NoSnap
  PROVE  Settled'
<1>1. Born(wd.claim)'
  BY PersistClaims DEF Settled, Born
<1>2. wd.pc = "recover" => Over(wd.claim)'
  BY PersistClaims DEF Settled, Over
<1>3. \A c \in retries : Over(c)'
  BY PersistClaims DEF Settled
<1> QED BY <1>1, <1>2, <1>3, Blanks DEF Settled

\* What the child does, and what happens to its rows, keeps Ended and
\* Settled.
LEMMA ChildSettled ==
  ASSUME TypeOK, Ended, Settled,
         \/ \E g \in Gens : (\E j \in Jobs : Claim(g, j)) \/ Finish(g) \/ Idle(g) \/ Exit(g)
         \/ \E j \in Jobs : CancelJob(j) \/ Reap(j)
  PROVE  Ended' /\ Settled'
<1>1. UNCHANGED Parent
  BY DEF Claim, Finish, Idle, Exit, CancelJob, Reap
<1>2. Calm
  BY DEF Claim, Finish, Idle, Exit, CancelJob, Reap, Calm, TypeOK
<1>3. UNCHANGED <<tracked, snap, wd, retries>>
  BY <1>1 DEF Parent
<1> QED BY <1>2, <1>3, CalmPersists, CalmEnded, SettledFrame

\* The reader thread keeps them: a message names a generation that was
\* born.
LEMMA DrainSettled ==
  ASSUME TypeOK, Ended, Settled, Drain
  PROVE  Ended' /\ Settled'
<1>1. UNCHANGED <<proc, tracked, wd, retries>> /\ Calm
  BY DEF Drain, Calm
<1>2. Head(pipe) \in Messages
  BY SMT DEF Drain, TypeOK
<1>3. snap' = snap \/ snap' = Head(pipe)
  BY DEF Drain
<1>4. snap'.on # NoJob => snap'.gen # 0
  BY <1>2, <1>3, Bounds DEF Messages, Settled
<1>5. Ended'
  BY <1>1, CalmEnded
<1>6. Born(wd.claim)' /\ (wd.pc = "recover" => Over(wd.claim)') /\ \A c \in retries : Over(c)'
  BY <1>1 DEF Settled, Born, Over
<1> QED BY <1>1, <1>4, <1>5, <1>6 DEF Settled

\* A call that signals or starts under the lock keeps them.
LEMMA EnterSettled ==
  ASSUME TypeOK, Ended, Settled, NEW a \in Actors, Enter(a)
  PROVE  Ended' /\ Settled'
<1>a. UNCHANGED retries
  BY DEF Enter
<1>1. CASE /\ call[a].op \in {"kill", "stop"}
           /\ lock' = a /\ proc' = Kill(tracked) /\ pipe' = <<>>
           /\ wd' = IF a = "watchdog" /\ wd.pc = "killing"
                    THEN [wd EXCEPT !.claim = IF snap.on # NoJob THEN ActiveClaim(snap) ELSE @]
                    ELSE wd
           /\ UNCHANGED <<tracked, gen, snap, call>>
  <2>1. Calm /\ Persists
    BY <1>1, KillCalm, CalmPersists
  <2>2. Ended'
    BY <1>1, <2>1, CalmEnded
  <2>3. CASE wd' = wd
    BY <1>a, <1>1, <2>1, <2>2, <2>3, SettledFrame
  <2>4. CASE wd' # wd
    <3>1. wd'.claim = ActiveClaim(snap) /\ wd'.pc = "killing"
      BY <1>1, <2>4 DEF TypeOK
    <3>2. Born(ActiveClaim(snap))
      BY SnapBorn
    <3>3. Born(wd.claim)'
      BY <2>1, <3>1, <3>2 DEF Persists, Born
    <3>4. \A c \in retries : Over(c)'
      BY <2>1, PersistClaims DEF Settled
    <3> QED BY <1>a, <1>1, <2>2, <3>1, <3>3, <3>4 DEF Settled
  <2> QED BY <2>3, <2>4
<1>2. CASE /\ call[a].op = "restart" /\ ~Matches(call[a].exp)
           /\ Ret(a) /\ UNCHANGED <<lock, proc, tracked, gen, snap, pipe, wd>>
  <2>1. Calm
    BY <1>2 DEF Calm
  <2> QED BY <1>a, <1>2, <2>1, CalmPersists, CalmEnded, SettledFrame
<1>3. CASE /\ call[a].op = "restart" /\ Matches(call[a].exp)
           /\ lock' = a /\ proc' = Kill(tracked) /\ gen' = 0 /\ snap' = NoSnap
           /\ UNCHANGED <<tracked, pipe, call, wd>>
  BY <1>a, <1>3, KillCalm, CalmPersists, CalmEnded, SettledFrame
<1>4. CASE call[a].op = "start" /\ Start(tracked) /\ Ret(a) /\ UNCHANGED <<lock, wd>>
  <2>1. CASE UNCHANGED <<proc, tracked, gen, snap, pipe>>
    <3>1. Calm
      BY <2>1 DEF Calm
    <3> QED BY <1>a, <1>4, <2>1, <3>1, CalmPersists, CalmEnded, SettledFrame
  <2>2. CASE ~Alive(tracked) /\ \E g \in Gens : Begun(g)
    BY <1>a, <1>4, <2>2, BegunEnded, SettledFrame
  <2> QED BY <1>4, <2>1, <2>2, StartForms
<1> QED BY <1>1, <1>2, <1>3, <1>4 DEF Enter

\* A join keeps them: only a process seen dead stops being tracked.
LEMMA LeaveSettled ==
  ASSUME TypeOK, Ended, Settled, NEW a \in Actors, Leave(a)
  PROVE  Ended' /\ Settled'
<1>a. UNCHANGED retries
  BY DEF Leave
<1> DEFINE gone == ~Alive(tracked)
<1>1. CASE call[a].op = "kill" /\ AfterKill(a, gone) /\ UNCHANGED <<proc, pipe, stopped>>
  <2>1. Calm /\ Persists
    BY <1>1, CalmPersists DEF Calm
  <2>2. (tracked' = tracked \/ (tracked' = 0 /\ gone)) /\ (UNCHANGED snap \/ snap' = NoSnap)
    BY <1>1 DEF AfterKill
  <2>3. Ended'
    BY <2>1, <2>2, CalmEnded
  <2>4. CASE wd' = wd
    BY <1>a, <2>1, <2>2, <2>3, <2>4, SettledFrame
  <2>5. CASE wd' # wd
    <3>1. \/ wd' = IdleDog
          \/ gone /\ wd'.pc = "recover" /\ wd'.claim = wd.claim
      BY <1>1, <2>5 DEF AfterKill, TypeOK
    <3>2. gone => Over(wd.claim)
      BY GoneOver DEF Settled
    <3>3. Born(wd.claim)' /\ (wd'.pc = "recover" => Over(wd.claim)')
      <4>1. CASE wd' = IdleDog
        BY <4>1, Blanks DEF IdleDog, Born
      <4>2. CASE gone /\ wd'.pc = "recover" /\ wd'.claim = wd.claim
        BY <1>1, <3>2, <4>2 DEF Over, Born
      <4> QED BY <3>1, <4>1, <4>2
    <3>4. \A c \in retries : Over(c)'
      BY <2>1, PersistClaims DEF Settled
    <3>5. snap'.on # NoJob => snap'.gen # 0
      BY <2>2, Blanks DEF Settled
    <3> QED BY <1>a, <2>3, <3>3, <3>4, <3>5 DEF Settled
  <2> QED BY <2>4, <2>5
<1>2. CASE call[a].op = "stop" /\ AfterStop(gone) /\ UNCHANGED <<proc, pipe, wd>>
  <2>1. Calm
    BY <1>2 DEF Calm
  <2>2. (tracked' = tracked \/ (tracked' = 0 /\ gone)) /\ snap' = NoSnap
    BY <1>2 DEF AfterStop
  <2> QED BY <1>a, <1>2, <2>1, <2>2, CalmPersists, CalmEnded, SettledFrame
<1>3. CASE call[a].op = "restart" /\ AfterRestart(gone) /\ UNCHANGED <<wd, stopped>>
  <2>1. CASE gone
    <3>1. ~Alive(0)
      BY DEF Alive
    <3>2. \E g \in Gens : Begun(g)
      BY <1>3, <2>1, <3>1, StartForms DEF AfterRestart
    <3> QED BY <1>a, <1>3, <2>1, <3>2, BegunEnded, SettledFrame
  <2>2. CASE ~gone
    <3>1. UNCHANGED <<proc, tracked, snap>>
      BY <1>3, <2>2 DEF AfterRestart
    <3>2. Calm
      BY <3>1 DEF Calm
    <3> QED BY <1>a, <1>3, <3>1, <3>2, CalmPersists, CalmEnded, SettledFrame
  <2> QED BY <2>1, <2>2
<1> QED BY <1>1, <1>2, <1>3 DEF Leave

\* The watchdog and the retry queue keep them.
LEMMA DogSettled ==
  ASSUME TypeOK, Ended, Settled,
         Decide \/ KillForRecovery \/ Recover \/ Resume \/ \E c \in retries : Retry(c)
  PROVE  Ended' /\ Settled'
<1>a. UNCHANGED <<proc, tracked, snap>>
  BY DEF Decide, KillForRecovery, Recover, Resume, Retry, DogFrame
<1>b. Calm /\ Persists /\ Ended'
  BY <1>a, CalmPersists, CalmEnded DEF Calm
<1>c. \A c : (Born(c) <=> Born(c)') /\ (Over(c) <=> Over(c)')
  BY <1>a DEF Born, Over
<1>1. CASE Decide
  <2>1. wd'.claim = ActiveClaim(snap) /\ wd'.pc = "beat" /\ retries' = retries
    BY <1>1 DEF Decide
  <2> QED BY <1>a, <1>b, <2>1, SnapBorn DEF Settled, Born, Over
<1>2. CASE KillForRecovery
  <2>1. wd'.claim = wd.claim /\ wd'.pc = "killing" /\ retries' = retries
    BY <1>2 DEF KillForRecovery, TypeOK
  <2> QED BY <1>a, <1>b, <2>1 DEF Settled, Born, Over
<1>3. CASE Recover
  <2>1. /\ wd'.claim.on = NoJob /\ wd'.pc = "starting" /\ retries' \subseteq retries \union {wd.claim}
        /\ wd.pc = "recover"
    BY <1>3, Blanks DEF Recover
  <2>2. \A c \in retries' : Over(c)
    BY <2>1 DEF Settled
  <2> QED BY <1>a, <1>b, <2>1, <2>2 DEF Settled, Born, Over
<1>4. CASE Resume
  <2>1. wd'.claim.on = NoJob /\ wd'.pc = "poll" /\ retries' = retries
    BY <1>4, Blanks DEF Resume, IdleDog
  <2> QED BY <1>a, <1>b, <2>1 DEF Settled, Born, Over
<1>5. CASE \E c \in retries : Retry(c)
  <2>1. wd' = wd /\ retries' \subseteq retries
    BY <1>5 DEF Retry
  <2> QED BY <1>a, <1>b, <2>1 DEF Settled, Born, Over
<1> QED BY <1>1, <1>2, <1>3, <1>4, <1>5

\* Router, reconciler and shutdown keep them while they only decide.
LEMMA CallerSettled ==
  ASSUME TypeOK, Ended, Settled, (\E c \in notices : Route(c)) \/ Look \/ CheckClaim \/ Shutdown
  PROVE  Ended' /\ Settled'
<1>a. UNCHANGED <<proc, tracked, snap, retries>>
  BY DEF Route, Look, CheckClaim, Shutdown, CallerFrame
<1>b. Calm /\ Persists /\ Ended'
  BY <1>a, CalmPersists, CalmEnded DEF Calm
<1>1. CASE wd' = wd
  BY <1>a, <1>b, <1>1, SettledFrame
<1>2. CASE Shutdown
  <2>1. wd'.claim.on = NoJob /\ wd'.pc = "over"
    BY <1>2, Blanks DEF Shutdown, IdleDog
  <2> QED BY <1>a, <1>b, <2>1 DEF Settled, Born, Over
<1> QED BY <1>1, <1>2 DEF Route, Look, CheckClaim, CallerFrame

\* Every step keeps Ended and Settled.
LEMMA ClaimsInv == TypeOK /\ Ended /\ Settled /\ [Next]_vars => Ended' /\ Settled'
<1>1. ASSUME TypeOK, Ended, Settled, UNCHANGED vars PROVE Ended' /\ Settled'
  <2>1. UNCHANGED <<proc, tracked, snap, wd, retries>> /\ Calm
    BY <1>1 DEF vars, Calm
  <2> QED BY <1>1, <2>1, CalmPersists, CalmEnded, SettledFrame
<1> QED BY <1>1, ChildSettled, DrainSettled, EnterSettled, LeaveSettled, DogSettled, CallerSettled
        DEF Next

-----------------------------------------------------------------------------
\* The fence of stop, where no watchdog runs.

\* The state the fence is about.
gate == <<wd.pc, call, rec, stopped, snap, gen, lock>>

\* A step that touches no lock, call or snapshot keeps Fenced.
LEMMA FenceFrame == ASSUME Fenced, UNCHANGED gate PROVE Fenced'
BY DEF Fenced, gate, Named

\* The child, its rows and the retry queue do not touch the fence.
LEMMA ChildFenced ==
  ASSUME Fenced,
         \/ \E g \in Gens : (\E j \in Jobs : Claim(g, j)) \/ Finish(g) \/ Idle(g) \/ Exit(g)
         \/ \E j \in Jobs : CancelJob(j) \/ Reap(j)
         \/ \E c \in retries : Retry(c)
  PROVE  Fenced'
<1>1. UNCHANGED gate
  BY DEF Claim, Finish, Idle, Exit, CancelJob, Reap, Retry, Parent, gate
<1> QED BY <1>1, FenceFrame

\* A late message of a fenced generation changes no snapshot.
LEMMA DrainFenced ==
  ASSUME TypeOK, Fenced, Drain
  PROVE  Fenced'
<1>1. Head(pipe) \in Messages
  BY SMT DEF Drain, TypeOK
<1>2. gen = 0 => snap' = snap
  BY <1>1, Bounds DEF Drain, Messages
<1>3. UNCHANGED <<wd, call, rec, stopped, gen, lock>>
  BY DEF Drain
<1> QED BY <1>2, <1>3 DEF Fenced, Named

\* Who decides on a snapshot with a job asks for a restart of that job
\* only.
LEMMA CallerFenced ==
  ASSUME TypeOK, Fenced, (\E c \in notices : Route(c)) \/ Look \/ CheckClaim \/ Shutdown
  PROVE  Fenced'
<1> SUFFICES ASSUME ~Watched PROVE Fenced'
  BY DEF Fenced
<1>a. call \in [Actors -> CallType] /\ Actors = {"watchdog", "reconciler", "router", "shutdown"}
  BY DEF TypeOK, Actors
<1>b. UNCHANGED <<stopped, snap, gen, lock>>
  BY DEF Route, Look, CheckClaim, Shutdown, CallerFrame
<1>1. ASSUME NEW c \in notices, Route(c) PROVE Fenced'
  <2>1. UNCHANGED <<rec, wd>> /\ c.on # NoJob /\ ~stopped
    BY <1>1, SlotAssumption DEF Route, CallerFrame, TypeOK
  <2>2. CASE call' = call
    BY <1>b, <2>1, <2>2 DEF Fenced, Named
  <2>3. CASE snap.on = c.on /\ snap.gen = c.by /\ Ask("router", "restart", snap)
    <3>1. call'["router"] = [op |-> "restart", exp |-> snap]
      BY <1>a, <2>3 DEF Ask
    <3>2. \A a \in Actors : a # "router" => call'[a] = call[a]
      BY <1>a, <2>3 DEF Ask
    <3> QED BY SMT, <1>a, <1>b, <2>1, <2>3, <3>1, <3>2 DEF Fenced, Named
  <2> QED BY <1>1, <2>2, <2>3 DEF Route
<1>2. CASE Look
  <2>1. rec' = snap /\ snap.on # NoJob /\ UNCHANGED <<call, wd>>
    BY <1>2 DEF Look, CallerFrame
  <2> QED BY <1>b, <2>1 DEF Fenced, Named
<1>3. CASE CheckClaim
  <2>1. rec' = NoSnap /\ rec # NoSnap /\ wd' = wd
    BY <1>3 DEF CheckClaim, CallerFrame
  <2>2. CASE call' = call
    BY <1>b, <2>1, <2>2 DEF Fenced, Named
  <2>3. CASE Ask("reconciler", "restart", rec)
    <3>1. call'["reconciler"] = [op |-> "restart", exp |-> rec]
      BY <1>a, <2>3 DEF Ask
    <3>2. \A a \in Actors : a # "reconciler" => call'[a] = call[a]
      BY <1>a, <2>3 DEF Ask
    <3> QED BY SMT, <1>a, <1>b, <2>1, <3>1, <3>2 DEF Fenced, Named
  <2> QED BY <1>3, <2>2, <2>3 DEF CheckClaim
<1>4. CASE Shutdown
  <2>1. /\ rec' = NoSnap /\ wd'.pc = "over" /\ ~stopped
        /\ call' = [call EXCEPT !["shutdown"] = [op |-> "stop", exp |-> NoSnap]]
    BY <1>4 DEF Shutdown, Ask, IdleDog
  <2>2. /\ call'["shutdown"] = [op |-> "stop", exp |-> NoSnap]
        /\ \A a \in Actors : a # "shutdown" => call'[a] = call[a]
    BY <1>a, <2>1
  <2> QED BY <1>a, <1>b, <2>1, <2>2 DEF Fenced, Named
<1> QED BY <1>1, <1>2, <1>3, <1>4

\* The watchdog stays out of it: it has ended before it began.
LEMMA DogFenced ==
  ASSUME Fenced, Decide \/ KillForRecovery \/ Recover \/ Resume
  PROVE  Fenced'
BY DEF Fenced, Decide, KillForRecovery, Recover, Resume

\* A call that got the lock: kill and stop signal, a restart that matches
\* fences, and once stopped no restart matches.
LEMMA EnterFenced ==
  ASSUME TypeOK, Fenced, NEW a \in Actors, Enter(a)
  PROVE  /\ Fenced'
         /\ ~Watched /\ stopped => proc' = proc
<1> SUFFICES ASSUME ~Watched PROVE Fenced' /\ (stopped => proc' = proc)
  BY DEF Fenced
<1>a. call \in [Actors -> CallType] /\ Actors = {"watchdog", "reconciler", "router", "shutdown"}
  BY DEF TypeOK, Actors
<1>b. UNCHANGED <<rec, stopped>> /\ call[a].op # "none" /\ a # "watchdog"
  BY DEF Enter, Fenced
<1>1. CASE /\ call[a].op \in {"kill", "stop"}
           /\ lock' = a /\ proc' = Kill(tracked) /\ pipe' = <<>>
           /\ wd' = IF a = "watchdog" /\ wd.pc = "killing"
                    THEN [wd EXCEPT !.claim = IF snap.on # NoJob THEN ActiveClaim(snap) ELSE @]
                    ELSE wd
           /\ UNCHANGED <<tracked, gen, snap, call>>
  <2>1. a = "shutdown" /\ wd' = wd
    BY <1>a, <1>b, <1>1 DEF Fenced
  <2> QED BY <1>b, <1>1, <2>1 DEF Fenced, Named
<1>2. CASE /\ call[a].op = "restart" /\ ~Matches(call[a].exp)
           /\ Ret(a) /\ UNCHANGED <<lock, proc, tracked, gen, snap, pipe, wd>>
  <2>1. call'[a].op = "none" /\ \A x \in Actors : x # a => call'[x] = call[x]
    BY <1>a, <1>2, Blanks DEF Ret
  <2> QED BY <1>a, <1>b, <1>2, <2>1 DEF Fenced, Named
<1>3. CASE /\ call[a].op = "restart" /\ Matches(call[a].exp)
           /\ lock' = a /\ proc' = Kill(tracked) /\ gen' = 0 /\ snap' = NoSnap
           /\ UNCHANGED <<tracked, pipe, call, wd>>
  <2>1. a \in {"reconciler", "router"} /\ Named(snap)
    BY <1>a, <1>b, <1>3 DEF Fenced, Matches
  <2>2. ~stopped
    BY <2>1, Blanks DEF Fenced, Named
  <2> QED BY <1>b, <1>3, <2>2 DEF Fenced, Named
<1>4. ~(call[a].op = "start" /\ Start(tracked) /\ Ret(a) /\ UNCHANGED <<lock, wd>>)
  BY <1>a, <1>b DEF Fenced
<1> QED BY <1>1, <1>2, <1>3, <1>4 DEF Enter

\* No call but stop returns once stop has, and what stop leaves is fenced.
LEMMA LeaveFenced ==
  ASSUME TypeOK, Fenced, NEW a \in Actors, Leave(a)
  PROVE  Fenced' /\ (~Watched => ~stopped)
<1> SUFFICES ASSUME ~Watched PROVE Fenced' /\ ~stopped
  BY DEF Fenced
<1>a. call \in [Actors -> CallType] /\ Actors = {"watchdog", "reconciler", "router", "shutdown"}
  BY DEF TypeOK, Actors
<1>b. /\ rec' = rec /\ lock = a /\ lock' = "free"
      /\ call'[a].op = "none" /\ \A x \in Actors : x # a => call'[x] = call[x]
  BY <1>a, Blanks DEF Leave, Ret
<1>c. ~stopped
  BY <1>a, <1>b DEF Fenced
<1>1. CASE call[a].op = "stop" /\ AfterStop(~Alive(tracked)) /\ UNCHANGED <<proc, pipe, wd>>
  <2>1. a = "shutdown"
    BY <1>a, <1>1 DEF Fenced
  <2>2. snap' = NoSnap /\ gen' = 0 /\ stopped' = TRUE /\ wd' = wd
    BY <1>1 DEF AfterStop
  <2> QED BY SMT, <1>a, <1>b, <1>c, <2>1, <2>2 DEF Fenced, Named
<1>2. CASE call[a].op = "restart" /\ AfterRestart(~Alive(tracked)) /\ UNCHANGED <<wd, stopped>>
  BY SMT, <1>a, <1>b, <1>c, <1>2 DEF Fenced, Named
<1>3. ~(call[a].op = "kill")
  BY <1>a DEF Fenced
<1> QED BY <1>1, <1>2, <1>3, <1>c DEF Leave

\* Every step keeps Fenced.
LEMMA FencedInv == TypeOK /\ Fenced /\ [Next]_vars => Fenced'
<1>1. ASSUME Fenced, UNCHANGED vars PROVE Fenced'
  <2>1. UNCHANGED gate
    BY <1>1 DEF vars, gate
  <2> QED BY <1>1, <2>1, FenceFrame
<1> QED BY <1>1, ChildFenced, DrainFenced, CallerFenced, DogFenced, EnterFenced, LeaveFenced
           DEF Next

-----------------------------------------------------------------------------
\* The results.

\* The processes, claims and fences of one slot keep IInv, whoever of the
\* four callers takes the lock in which order.
THEOREM Invariance == Spec => []IInv
<1>1. Init => IInv
  <2> SUFFICES ASSUME Init PROVE Ended /\ Settled /\ Fenced
    BY InitType DEF IInv
  <2>1. Ended
    BY Bounds DEF Init, Ended
  <2>2. Settled
    BY Blanks DEF Init, Settled, Born, Over, IdleDog
  <2>3. Fenced
    BY Blanks DEF Init, Fenced, IdleDog, Actors
  <2> QED BY <2>1, <2>2, <2>3
<1>2. IInv /\ [Next]_vars => IInv'
  BY NextType, ClaimsInv, FencedInv DEF IInv
<1> QED BY <1>1, <1>2, PTL DEF Spec

\* Every variable of the supervisor, the pipe and the callers has its type.
THEOREM TypeCorrect == Spec => []TypeOK
BY Invariance, PTL DEF IInv

\* A slot never has two child processes that may run.
THEOREM OneChildAtATime == Spec => []OneChild
<1>1. IInv => OneChild
  <2> SUFFICES ASSUME IInv PROVE OneChild
    OBVIOUS
  <2> DEFINE S == {g \in DOMAIN proc : Alive(g)}
  <2>1. S \subseteq {tracked}
    BY DEF IInv, TypeOK, Ended, Alive
  <2>2. IsFiniteSet({tracked}) /\ Cardinality({tracked}) = 1
    BY FS_Singleton
  <2>3. IsFiniteSet(S) /\ Cardinality(S) <= Cardinality({tracked})
    BY <2>1, <2>2, FS_Subset
  <2> QED BY <2>2, <2>3 DEF OneChild
<1> QED BY <1>1, Invariance, PTL

\* Exact recovery takes a claim only from a child that has ended.
THEOREM RecoveryIsSafe == Spec => RecoversOnlyTheDead
<1>1. ASSUME IInv, [Next]_vars, NEW j \in Jobs, Recover \/ \E c \in retries : Retry(c), job'[j] # job[j]
      PROVE  proc[job[j].by] = "dead"
  <2>1. PICK c : Over(c) /\ c \in Claims /\ RecoverClaim(c)
    <3>1. CASE Recover
      <4>1. job' # job
        BY <1>1
      <4> QED BY <1>1, <3>1, <4>1 DEF Recover, IInv, Settled, TypeOK
    <3>2. CASE \E c \in retries : Retry(c)
      <4>1. job' # job
        BY <1>1
      <4> QED BY <1>1, <3>2, <4>1 DEF Retry, IInv, Settled, TypeOK
    <3> QED BY <1>1, <3>1, <3>2
  <2>2. c.on # NoJob /\ job[c.on] = [st |-> "claimed", by |-> c.by] /\ job' = Recovered(c.on)
    BY <1>1, <2>1 DEF RecoverClaim
  <2>3. c.on = j
    BY <1>1, <2>2 DEF Recovered, IInv, TypeOK
  <2> QED BY SMT, <2>1, <2>2, <2>3 DEF Over
<1>2. IInv /\ [Next]_vars =>
        [\A j \in Jobs : (Recover \/ \E c \in retries : Retry(c)) /\ job'[j] # job[j] =>
           proc[job[j].by] = "dead"]_vars
  BY <1>1
<1> QED BY <1>2, Invariance, PTL DEF Spec, RecoversOnlyTheDead

\* Where no watchdog is caught in its start, stop is a fence: no queued
\* restart brings a child up after it has returned.
THEOREM StopFences == ~Watched => (Spec => StopIsFinal)
<1> SUFFICES ASSUME ~Watched PROVE Spec => StopIsFinal
  OBVIOUS
<1>1. ASSUME IInv, Next, stopped, NEW g \in Gens, proc[g] = "unborn"
      PROVE  proc'[g] = "unborn"
  <2>1. CASE \E a \in Actors : Enter(a)
    BY <1>1, <2>1, EnterFenced DEF IInv
  <2>2. CASE \E a \in Actors : Leave(a)
    BY <1>1, <2>2, LeaveFenced DEF IInv
  <2>3. CASE \E h \in Gens : Exit(h)
    BY <1>1, <2>3 DEF Exit, IInv, TypeOK
  <2>4. CASE proc' = proc
    BY <1>1, <2>4
  <2> QED BY <1>1, <2>1, <2>2, <2>3, <2>4
             DEF Next, Claim, Finish, Idle, CancelJob, Reap, Drain,
         Decide, KillForRecovery, Recover, Resume, Retry, Route, Look, CheckClaim, Shutdown,
         DogFrame, CallerFrame
<1>2. IInv /\ [Next]_vars => [stopped => \A g \in Gens : proc[g] = "unborn" => proc'[g] = "unborn"]_vars
  BY <1>1
<1> QED BY <1>2, Invariance, PTL DEF Spec, StopIsFinal

=============================================================================
