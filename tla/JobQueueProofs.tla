--------------------------- MODULE JobQueueProofs ---------------------------
(***************************************************************************)
(* Safety of the job queue for every number of slots, jobs, generations    *)
(* and retries.                                                            *)
(*                                                                         *)
(* Most transactions only move rows "downwards": no row becomes active or  *)
(* starts executing that was not.  QuietStep deals with all of them at     *)
(* once; InsertStep adds one pending row to a lane with no active row; the *)
(* claim is the only other step.                                           *)
(***************************************************************************)
EXTENDS JobQueue, TLAPS

(* Leaves are proved by Zenon unless they cite SMT.                        *)
USE Zenon

\* An active row still has budget for the attempt that would end it, and its
\* crash has not been counted yet.
Budget(l) == IF l = "scheduled" THEN ScheduledMaxAttempts ELSE GeneralMaxAttempts
Spent(r, n) == r.lane = "profile" \/ r.attempt <= n
Counted(r) ==
  /\ Spent(r, Budget(r.lane) + 1) /\ r.crashes <= 1
  /\ r.status \in ActiveStatuses => Spent(r, Budget(r.lane)) /\ r.crashes = 0

\* One row's share of the invariant: a guarded turn that is waiting has
\* written nothing, and one that executes has only its owner's writes.
RowOK(r) ==
  /\ r \in Rows /\ Counted(r)
  /\ r.lane \in ReplayGuardedLanes =>
       /\ r.status = "pending" => r.writers = {}
       /\ r.status \in Executing => r.writers \subseteq {r.owner}
       /\ \A v, w \in r.writers : v = w

\* The rows that exist are the ids the sequence has handed out, and a slot
\* names one of them.
Fresh == \A j \in Ids : jobs[j].status = "absent" <=> j >= nextId
SlotsKnown == \A w \in Owners : slots[w].pc \in {"picked", "claimed", "turn"} => slots[w].job < nextId
RowsOK == \A j \in Ids : RowOK(jobs[j])

Core == Fresh /\ RowsOK /\ AtMostOneExecuting /\ SingleFlight /\ FailureIsVisible
IInv == TypeOK /\ SlotsKnown /\ Core

\* A row q that may replace r without making work that was not there.
Quiet(r, q) ==
  /\ RowOK(q) /\ q.lane = r.lane
  /\ r.status = "absent" <=> q.status = "absent"
  /\ q.status \in ActiveStatuses => r.status \in ActiveStatuses
  /\ q.status \in Executing => r.status \in Executing
Unhappy(r) == r.lane \in VisibleLanes /\ r.status \in {"failed", "expired"}

-----------------------------------------------------------------------------
(* Rows.                                                                   *)

\* The budgets are natural numbers.
LEMMA BudgetType == \A l : Budget(l) \in Nat
BY ConstantsAssumption DEF Budget

\* A row is a quiet replacement of itself.
LEMMA SameQuiet ==
  ASSUME NEW r, RowOK(r)
  PROVE  Quiet(r, r)
BY DEF Quiet

\* Ending a row in any terminal status is quiet, and so is ending an active one
\* with one more attempt (mark_completed, mark_failed, supersession, expiry).
LEMMA EndedQuiet ==
  ASSUME NEW r, RowOK(r), r.status # "absent", NEW s \in TerminalStatuses
  PROVE  /\ Quiet(r, Ended(r, s))
         /\ Ended(r, s).status = s
         /\ r.status \in ActiveStatuses => Quiet(r, [Ended(r, s) EXCEPT !.attempt = @ + 1])
         /\ [Ended(r, s) EXCEPT !.attempt = @ + 1].status = s
<1> DEFINE q == Ended(r, s)
           p == [q EXCEPT !.attempt = @ + 1]
<1>1. /\ q \in Rows /\ q.lane = r.lane /\ q.status = s /\ q.writers = r.writers
      /\ q.attempt = r.attempt /\ q.crashes = r.crashes
  BY DEF RowOK, Rows, Ended, Released, Statuses
<1>2. /\ p \in Rows /\ p.lane = r.lane /\ p.status = s /\ p.writers = r.writers
      /\ p.attempt = r.attempt + 1 /\ p.crashes = r.crashes
  BY SMT, <1>1 DEF Rows
<1>3. s \notin ActiveStatuses /\ s \notin Executing /\ s # "pending" /\ s # "absent"
  BY DEF TerminalStatuses, ActiveStatuses, Executing
<1> HIDE DEF q, p
<1>4. Counted(q) /\ (r.status \in ActiveStatuses => Counted(p))
  BY SMT, <1>1, <1>2, <1>3, BudgetType DEF RowOK, Rows, Counted, Spent
<1>5. Quiet(r, q)
  BY <1>1, <1>3, <1>4 DEF Quiet, RowOK
<1>6. r.status \in ActiveStatuses => Quiet(r, p)
  BY <1>2, <1>3, <1>4 DEF Quiet, RowOK
<1> QED BY <1>1, <1>2, <1>5, <1>6 DEF q, p

\* A superseded row is quiet: it ends without a visible failure.
LEMMA SupersededQuiet ==
  ASSUME NEW r, RowOK(r), r.status # "absent"
  PROVE  Quiet(r, Superseded(r)) /\ Superseded(r).status = "superseded"
BY EndedQuiet DEF Superseded, TerminalStatuses

\* An expired row is quiet; whether its failure is visible is the caller's duty.
LEMMA ExpiredQuiet ==
  ASSUME NEW r, RowOK(r), r.status \in ActiveStatuses
  PROVE  Quiet(r, Expired(r)) /\ Expired(r).status = "expired"
BY EndedQuiet DEF Expired, TerminalStatuses, ActiveStatuses, Executing

\* An active row ends with its crash counted.
LEMMA ExpiredCountedQuiet ==
  ASSUME NEW r, RowOK(r), r.status \in ActiveStatuses
  PROVE  LET q == Expired([r EXCEPT !.crashes = @ + 1])
         IN  Quiet(r, q) /\ q.status = "expired"
<1> DEFINE c == [r EXCEPT !.crashes = @ + 1]
           q == Expired(c)
<1>1. /\ c \in Rows /\ c.lane = r.lane /\ c.writers = r.writers
      /\ c.attempt = r.attempt /\ c.crashes = 1
  BY SMT DEF RowOK, Rows, Counted
<1> HIDE DEF c
<1>2. /\ q \in Rows /\ q.lane = r.lane /\ q.writers = r.writers /\ q.status = "expired"
      /\ q.attempt = r.attempt + 1 /\ q.crashes = 1
  <2> DEFINE e == Ended(c, "expired")
  <2>1. /\ e \in Rows /\ e.lane = c.lane /\ e.writers = c.writers /\ e.status = "expired"
        /\ e.attempt = c.attempt /\ e.crashes = c.crashes
    BY <1>1 DEF Ended, Released, Rows, Statuses, TerminalStatuses
  <2>2. q = [e EXCEPT !.attempt = @ + 1]
    BY DEF Expired
  <2> HIDE DEF e, q
  <2> QED BY SMT, <1>1, <2>1, <2>2 DEF Rows
<1> HIDE DEF q
<1>3. Counted(q)
  BY SMT, <1>2, BudgetType DEF RowOK, Rows, Counted, Spent, ActiveStatuses, Executing
<1> QED BY <1>2, <1>3 DEF Quiet, RowOK, ActiveStatuses, Executing, c, q

\* Putting an active row back to pending is quiet when its lane is not guarded
\* or its turn has written nothing, and with one more attempt when its budget
\* is not spent (preemption, the watchdog, the reaper and both retries).
LEMMA RequeuedQuiet ==
  ASSUME NEW r, RowOK(r), r.status \in ActiveStatuses,
         r.lane \in ReplayGuardedLanes => Pristine(r)
  PROVE  /\ Quiet(r, Requeued(r)) /\ Requeued(r).status = "pending"
         /\ r.lane = "profile" \/ r.attempt < Budget(r.lane) =>
              /\ Quiet(r, Retried(r)) /\ Retried(r).status = "pending"
              /\ Quiet(r, RetryLater(r)) /\ RetryLater(r).status = "pending"
<1>1. /\ Requeued(r).writers = r.writers /\ Requeued(r).lane = r.lane /\ Requeued(r) \in Rows
      /\ Requeued(r).attempt = r.attempt /\ Requeued(r).crashes = r.crashes
  BY DEF RowOK, Rows, Requeued, Released, ActiveStatuses, Executing, Statuses
<1>2. /\ Retried(r).writers = r.writers /\ Retried(r).lane = r.lane /\ Retried(r) \in Rows
      /\ Retried(r).attempt = r.attempt + 1 /\ Retried(r).crashes = r.crashes
  BY SMT, <1>1 DEF Rows, Retried
<1>3. /\ RetryLater(r).writers = r.writers /\ RetryLater(r).lane = r.lane /\ RetryLater(r) \in Rows
      /\ RetryLater(r).attempt = r.attempt + 1 /\ RetryLater(r).crashes = r.crashes
  BY <1>2 DEF Rows, RetryLater
<1>4. /\ Requeued(r).status = "pending" /\ Retried(r).status = "pending"
      /\ RetryLater(r).status = "pending"
  BY DEF RowOK, Rows, Requeued, Released, Retried, RetryLater
<1>5. Counted(Requeued(r))
  BY <1>1 DEF RowOK, Counted, Spent
<1>6. ASSUME r.lane = "profile" \/ r.attempt < Budget(r.lane)
      PROVE  Counted(Retried(r)) /\ Counted(RetryLater(r))
  BY SMT, <1>2, <1>3, <1>6, BudgetType DEF RowOK, Rows, Counted, Spent
<1> QED BY <1>1, <1>2, <1>3, <1>4, <1>5, <1>6
           DEF Quiet, RowOK, Pristine, ActiveStatuses, Executing

\* A freshly inserted row satisfies the row invariant and is pending.
LEMMA NewRowOK ==
  ASSUME NEW l \in AllLanes, NEW g \in Nat
  PROVE  RowOK(NewRow(l, g)) /\ NewRow(l, g).status = "pending" /\ NewRow(l, g).lane = l
<1>1. /\ NewRow(l, g) \in Rows /\ NewRow(l, g).status = "pending" /\ NewRow(l, g).lane = l
      /\ NewRow(l, g).attempt = 0 /\ NewRow(l, g).crashes = 0 /\ NewRow(l, g).writers = {}
  BY DEF NewRow, Rows, Statuses, ActiveStatuses, Executing
<1>2. Counted(NewRow(l, g))
  BY SMT, <1>1, BudgetType DEF Counted, Spent
<1> QED BY <1>1, <1>2 DEF RowOK, Executing

-----------------------------------------------------------------------------
(* Steps.                                                                  *)

\* A transaction that replaces every row quietly and records each new visible
\* failure preserves everything but the typing of the other variables.
LEMMA QuietStep ==
  ASSUME TypeOK, Core, nextId' = nextId, clearedTo' = clearedTo,
         failures \subseteq failures',
         \A j \in Ids : Quiet(jobs[j], jobs'[j]),
         \A j \in Ids : Unhappy(jobs'[j]) => Unhappy(jobs[j]) \/ j \in failures'
  PROVE  Core'
<1>1. Fresh' /\ RowsOK'
  BY DEF Core, Fresh, RowsOK, Quiet
<1>2. AtMostOneExecuting'
  BY DEF Core, AtMostOneExecuting, Quiet
<1>3. SingleFlight'
  BY DEF Core, SingleFlight, Quiet
<1>4. FailureIsVisible'
  BY DEF Core, FailureIsVisible, Quiet, Unhappy
<1> QED BY <1>1, <1>2, <1>3, <1>4 DEF Core

\* The same, but the row nextId becomes a pending row of a lane that has no
\* other active row left.
LEMMA InsertStep ==
  ASSUME TypeOK, Core, nextId \in Ids, nextId' = nextId + 1, clearedTo' = clearedTo,
         failures \subseteq failures',
         \A j \in Ids \ {nextId} : Quiet(jobs[j], jobs'[j]),
         \A j \in Ids \ {nextId} : Unhappy(jobs'[j]) => Unhappy(jobs[j]) \/ j \in failures',
         RowOK(jobs'[nextId]), jobs'[nextId].status = "pending",
         \A j \in Ids \ {nextId} :
           jobs'[j].lane = jobs'[nextId].lane => jobs'[j].status \notin ActiveStatuses
  PROVE  Core'
<1>1. Fresh' /\ RowsOK'
  <2>1. \A j \in Ids : j >= nextId + 1 <=> j # nextId /\ j >= nextId
    BY SMT DEF Ids, TypeOK
  <2> QED BY <2>1 DEF Core, Fresh, RowsOK, Quiet
<1>2. "pending" \notin Executing /\ "pending" \notin {"failed", "expired"}
  BY DEF Executing
<1>3. AtMostOneExecuting'
  BY SMT, <1>2 DEF Core, AtMostOneExecuting, Quiet
<1>4. SingleFlight'
  BY SMT DEF Core, SingleFlight, Quiet
<1>5. FailureIsVisible'
  BY <1>2 DEF Core, FailureIsVisible, Quiet, Unhappy
<1> QED BY <1>1, <1>3, <1>4, <1>5 DEF Core

\* The usual shape: one row that exists is replaced.
LEMMA OneRowStep ==
  ASSUME TypeOK, Core, NEW i \in Ids, NEW q, Quiet(jobs[i], q),
         jobs' = [jobs EXCEPT ![i] = q], nextId' = nextId, clearedTo' = clearedTo,
         failures \subseteq failures',
         Unhappy(q) => Unhappy(jobs[i]) \/ i \in failures'
  PROVE  Core' /\ jobs' \in [Ids -> Rows]
<1>1. \A j \in Ids : jobs'[j] = IF j = i THEN q ELSE jobs[j]
  BY DEF TypeOK
<1>2. \A j \in Ids : Quiet(jobs[j], jobs'[j])
  BY <1>1, SameQuiet DEF Core, RowsOK
<1>3. jobs' \in [Ids -> Rows]
  BY DEF TypeOK, Quiet, RowOK
<1> QED BY <1>1, <1>2, <1>3, QuietStep

\* Two quiet changes of a row in a row are one.
LEMMA QuietTrans ==
  ASSUME NEW a, NEW b, NEW c, Quiet(a, b), Quiet(b, c)
  PROVE  Quiet(a, c)
BY DEF Quiet

\* Coalescing into the rows J a transaction has already prepared: the lane has
\* at most one active row afterwards and every retired row is accounted for.
LEMMA CoalesceStep ==
  ASSUME TypeOK, Core, clearedTo' = clearedTo,
         NEW J \in [Ids -> Rows], \A j \in Ids : Quiet(jobs[j], J[j]),
         NEW F \in SUBSET Ids, failures \subseteq F,
         \A j \in Ids : Unhappy(J[j]) => Unhappy(jobs[j]) \/ j \in F,
         NEW l \in AllLanes, NEW g \in Nat, CoalesceOrInsert(J, F, l, g)
  PROVE  /\ Core' /\ jobs' \in [Ids -> Rows] /\ failures' \in SUBSET Ids
         /\ nextId' \in 1 .. MaxJobs + 1 /\ nextId' >= nextId
<1> DEFINE old == ActiveIn(J, l)
           absorbed(r) == [r EXCEPT !.input = @ + 1]
           retired == [j \in Ids |->
                         IF j \notin old THEN J[j]
                         ELSE IF GenStale(J[j], g) THEN Superseded(J[j]) ELSE Expired(J[j])]
           stale == {j \in old : ~GenStale(J[j], g)}
<1>a. \A j \in old : J[j].status \in ActiveStatuses /\ J[j].status # "absent"
  BY DEF ActiveIn, ActiveStatuses, Executing
<1>b. old \subseteq Ids /\ \A j \in Ids : RowOK(J[j])
  BY DEF ActiveIn, Quiet
<1>c. nextId \in 1 .. MaxJobs + 1 /\ MaxJobs \in Nat
  BY ConstantsAssumption DEF TypeOK
<1>1. CASE /\ jobs' = [j \in Ids |-> IF j \in old THEN absorbed(J[j]) ELSE J[j]]
           /\ failures' = F /\ nextId' = nextId
  <2>1. ASSUME NEW j \in Ids
        PROVE  Quiet(J[j], absorbed(J[j])) /\ absorbed(J[j]).status = J[j].status
    <3>1. /\ absorbed(J[j]) \in Rows /\ absorbed(J[j]).status = J[j].status
          /\ absorbed(J[j]).lane = J[j].lane /\ absorbed(J[j]).writers = J[j].writers
          /\ absorbed(J[j]).owner = J[j].owner /\ absorbed(J[j]).attempt = J[j].attempt
          /\ absorbed(J[j]).crashes = J[j].crashes
      BY SMT DEF Rows
    <3>2. Counted(absorbed(J[j]))
      BY <3>1, <1>b DEF RowOK, Counted, Spent
    <3> QED BY SMT, <3>1, <3>2, <1>b DEF Quiet, RowOK
  <2>2. \A j \in Ids : Quiet(J[j], jobs'[j]) /\ jobs'[j].status = J[j].status
    BY <1>1, <2>1, <1>b, SameQuiet
  <2>3. \A j \in Ids : Quiet(jobs[j], jobs'[j])
    BY <2>2, QuietTrans
  <2>4. \A j \in Ids : Unhappy(jobs'[j]) => Unhappy(jobs[j]) \/ j \in failures'
    BY <1>1, <2>2 DEF Unhappy, Quiet
  <2>5. jobs' \in [Ids -> Rows]
    BY <1>1, <2>2 DEF Quiet, RowOK
  <2> QED BY SMT, <1>1, <1>c, <2>3, <2>4, <2>5, QuietStep
<1>2. CASE /\ nextId \in Ids
           /\ jobs' = [retired EXCEPT ![nextId] = NewRow(l, g)]
           /\ failures' = QueueFailures(F, stale) /\ nextId' = nextId + 1
  <2>1. \A j \in Ids : j # nextId => jobs'[j] = retired[j]
    BY <1>2
  <2>2. jobs'[nextId] = NewRow(l, g)
    BY <1>2
  <2>3. ASSUME NEW j \in Ids
        PROVE  /\ Quiet(J[j], retired[j])
               /\ j \in old => retired[j].status \notin ActiveStatuses
               /\ Unhappy(retired[j]) => Unhappy(J[j]) \/ j \in stale
    <3>1. CASE j \notin old
      BY <3>1, <1>b, SameQuiet
    <3>2. CASE j \in old /\ GenStale(J[j], g)
      BY <3>2, <1>a, <1>b, SupersededQuiet DEF ActiveStatuses, Executing, Unhappy
    <3>3. CASE j \in stale
      BY <3>3, <1>a, <1>b, ExpiredQuiet DEF ActiveStatuses, Executing
    <3> QED BY <3>1, <3>2, <3>3
  <2>4. \A j \in Ids \ {nextId} : Quiet(jobs[j], jobs'[j])
    BY <2>1, <2>3, QuietTrans
  <2>5. \A j \in Ids : jobs[j].lane = J[j].lane
    BY DEF Quiet
  <2>6. F \subseteq failures' /\ failures' \subseteq Ids
        /\ \A j \in stale : J[j].lane \in VisibleLanes => j \in failures'
    BY <1>2, <1>b, <2>5 DEF QueueFailures
  <2>7. \A j \in Ids \ {nextId} : Unhappy(jobs'[j]) => Unhappy(jobs[j]) \/ j \in failures'
    BY SMT, <2>1, <2>3, <2>6 DEF Unhappy, Quiet
  <2>8. \A j \in Ids \ {nextId} :
          jobs'[j].lane = jobs'[nextId].lane => jobs'[j].status \notin ActiveStatuses
    BY SMT, <2>1, <2>2, <2>3, NewRowOK DEF Quiet, ActiveIn
  <2>9. jobs' \in [Ids -> Rows]
    BY <1>2, <2>3, NewRowOK DEF Quiet, RowOK
  <2>10. Core'
    BY <1>2, <2>2, <2>4, <2>6, <2>7, <2>8, NewRowOK, InsertStep
  <2> QED BY SMT, <1>2, <1>c, <2>6, <2>9, <2>10 DEF Ids
<1> QED BY <1>1, <1>2 DEF CoalesceOrInsert

-----------------------------------------------------------------------------
(* The producers.                                                          *)

\* Slots that do not move still name ids below the sequence; so does a slot
\* that goes idle or dies.
LEMMA SlotsSame ==
  ASSUME TypeOK, SlotsKnown, slots' = slots, nextId' \in Nat, nextId' >= nextId
  PROVE  SlotsKnown'
BY SMT DEF TypeOK, SlotsKnown

\* A slot that goes idle or dies no longer names a row.
LEMMA SlotFreed ==
  ASSUME TypeOK, SlotsKnown, nextId' \in Nat, nextId' >= nextId,
         NEW w \in Owners, NEW pc \in {"idle", "dead"},
         slots' = [slots EXCEPT ![w] = [Idle EXCEPT !.pc = pc]]
  PROVE  /\ SlotsKnown'
         /\ slots' \in [Owners -> [pc : {"idle", "picked", "claimed", "turn", "dead"},
                                   job : Nat, observed : Nat]]
         /\ \A v \in Owners : slots'[v].pc \in {"picked", "claimed", "turn"} => slots'[v].job \in Ids
<1>1. \A v \in Owners : slots'[v] = IF v = w THEN [pc |-> pc, job |-> 0, observed |-> 0] ELSE slots[v]
  BY SMT DEF TypeOK, Idle
<1> QED BY SMT, <1>1 DEF TypeOK, SlotsKnown, Idle

\* The same for a slot that goes back to polling.
LEMMA SlotIdle ==
  ASSUME TypeOK, SlotsKnown, nextId' \in Nat, nextId' >= nextId,
         NEW w \in Owners, slots' = [slots EXCEPT ![w] = Idle]
  PROVE  /\ SlotsKnown'
         /\ slots' \in [Owners -> [pc : {"idle", "picked", "claimed", "turn", "dead"},
                                   job : Nat, observed : Nat]]
         /\ \A v \in Owners : slots'[v].pc \in {"picked", "claimed", "turn"} => slots'[v].job \in Ids
<1>1. Idle = [Idle EXCEPT !.pc = "idle"]
  BY SMT DEF Idle
<1> QED BY <1>1, SlotFreed

\* A transaction of a producer that coalesces preserves the invariant.
LEMMA CoalesceInv ==
  ASSUME IInv, UNCHANGED <<runtime, slots, killed, clearedTo>>,
         NEW J \in [Ids -> Rows], \A j \in Ids : Quiet(jobs[j], J[j]),
         NEW F \in SUBSET Ids, failures \subseteq F,
         \A j \in Ids : Unhappy(J[j]) => Unhappy(jobs[j]) \/ j \in F,
         NEW l \in AllLanes, NEW g \in Nat, CoalesceOrInsert(J, F, l, g)
  PROVE  IInv'
<1>1. /\ Core' /\ jobs' \in [Ids -> Rows] /\ failures' \in SUBSET Ids
      /\ nextId' \in 1 .. MaxJobs + 1 /\ nextId' >= nextId
  BY CoalesceStep DEF IInv
<1>2. SlotsKnown'
  BY SMT, <1>1, SlotsSame DEF IInv
<1>3. TypeOK'
  BY <1>1 DEF IInv, TypeOK, runtime
<1> QED BY <1>1, <1>2, <1>3 DEF IInv

\* Under the invariant the rows are typed, well-formed and quiet as they stand.
LEMMA SameRows ==
  ASSUME IInv
  PROVE  /\ jobs \in [Ids -> Rows] /\ failures \in SUBSET Ids
         /\ \A j \in Ids : RowOK(jobs[j]) /\ Quiet(jobs[j], jobs[j])
BY SameQuiet DEF IInv, TypeOK, Core, RowsOK

\* Expiring a Capture claim is quiet, whether its crash counts or not, and
\* needs no visible failure.
LEMMA ExpireCaptureQuiet ==
  ASSUME IInv, NEW j \in Ids, jobs[j].lane = "capture", jobs[j].status \in ActiveStatuses, NEW e
  PROVE  LET q == Expired(CrashRecorded(jobs, j, e))
         IN  /\ Quiet(jobs[j], q) /\ ~Unhappy(q) /\ q.status = "expired"
             /\ ExpireCapture(jobs, j, e) = [jobs EXCEPT ![j] = q]
<1> DEFINE c == CrashRecorded(jobs, j, e)
<1>1. c = jobs[j] \/ c = [jobs[j] EXCEPT !.crashes = @ + 1]
  BY DEF CrashRecorded
<1>2. Quiet(jobs[j], Expired(c)) /\ Expired(c).status = "expired"
  BY SMT, <1>1, SameRows, ExpiredQuiet, ExpiredCountedQuiet
<1> QED BY <1>2 DEF Unhappy, VisibleLanes, Quiet, ExpireCapture

\* What a chat sender makes of a background row (PreemptedRow) is quiet, and the
\* only failure it makes visible is that of a reminder that cannot be replayed.
LEMMA PreemptedQuiet ==
  ASSUME IInv, NEW j \in Ids, NEW c \in BOOLEAN, NEW e \in BOOLEAN
  PROVE  LET q == PreemptedRow(j, c, e)
         IN  Quiet(jobs[j], q) /\ (Unhappy(q) => Unhappy(jobs[j]) \/ j \in UnsafeToReplay)
<1> DEFINE r == jobs[j]
           q == PreemptedRow(j, c, e)
<1>a. RowOK(r) /\ Quiet(r, r)
  BY SameRows
<1>b. r.status \in ActiveStatuses => r.status # "absent"
  BY DEF ActiveStatuses, Executing
<1>1. CASE r.lane = "chat" \/ r.status \notin ActiveStatuses
  <2>1. q = r
    BY <1>1 DEF PreemptedRow
  <2> QED BY <2>1, <1>a
<1>2. CASE r.lane = "capture" /\ r.status \in Executing /\ c
  <2>1. q = ExpireCapture(jobs, j, e)[j]
    BY <1>2 DEF PreemptedRow, ActiveStatuses, Executing
  <2>2. q = Expired(CrashRecorded(jobs, j, e))
    BY <2>1, SameRows DEF ExpireCapture
  <2> QED BY <1>2, <2>2, ExpireCaptureQuiet DEF ActiveStatuses
<1>3. CASE /\ r.lane = "capture" \/ (r.lane = "scheduled" /\ Pristine(r))
           /\ r.status \in ActiveStatuses /\ ~(r.lane = "capture" /\ r.status \in Executing /\ c)
  <2>1. q = Requeued(r)
    BY <1>3 DEF PreemptedRow
  <2>2. r.lane \in ReplayGuardedLanes => Pristine(r)
    BY <1>3 DEF ReplayGuardedLanes, ReplyLanes, GuardedWakeLanes
  <2> QED BY <1>3, <1>a, <2>1, <2>2, RequeuedQuiet DEF Unhappy
<1>4. CASE r.lane = "scheduled" /\ ~Pristine(r) /\ r.status \in ActiveStatuses
  <2>1. q = Ended(r, "expired")
    BY <1>4 DEF PreemptedRow
  <2> QED BY <1>4, <1>a, <1>b, <2>1, EndedQuiet
             DEF TerminalStatuses, UnsafeToReplay, ActiveIn
<1>5. CASE r.lane \notin {"chat", "capture", "scheduled"} /\ r.status \in ActiveStatuses
  <2>1. q = Superseded(r)
    BY <1>5 DEF PreemptedRow
  <2> QED BY <1>5, <1>a, <1>b, <2>1, SupersededQuiet DEF Unhappy
<1> QED BY <1>1, <1>2, <1>3, <1>4, <1>5

\* Every producer preserves the invariant.
LEMMA ProducerInv ==
  ASSUME IInv, Producer
  PROVE  IInv'
<1>g. CurrentGen \in Nat /\ rtGen \in Nat
  BY DEF IInv, TypeOK, CurrentGen, NullGen
<1>l. Lanes \subseteq AllLanes /\ "chat" \in AllLanes /\ "capture" \in AllLanes
  BY ConstantsAssumption DEF AllLanes
<1>1. CASE \E l \in Lanes : Enqueue(l)
  <2> PICK l \in Lanes : Enqueue(l)
    BY <1>1
  <2> QED BY <1>g, <1>l, SameRows, CoalesceInv DEF Enqueue
<1>2. CASE \E g \in 1 .. MaxGen : EnqueueObserved(g)
  <2> PICK g \in 1 .. MaxGen : EnqueueObserved(g)
    BY <1>2
  <2>1. g \in Nat
    BY SMT, ConstantsAssumption
  <2> QED BY <2>1, <1>l, SameRows, CoalesceInv DEF EnqueueObserved
<1>3. CASE \E enabled \in BOOLEAN : EnqueueCapture(enabled)
  <2> PICK e \in BOOLEAN : EnqueueCapture(e)
    BY <1>3
  <2>1. CASE CoalesceOrInsert(jobs, failures, "capture", CurrentGen)
    BY <2>1, <1>g, <1>l, SameRows, CoalesceInv DEF EnqueueCapture
  <2>2. CASE \E j \in ActiveIn(jobs, "capture") :
               jobs' = ExpireCapture(jobs, j, e) /\ UNCHANGED <<failures, nextId>>
    <3> PICK j \in ActiveIn(jobs, "capture") :
               jobs' = ExpireCapture(jobs, j, e) /\ UNCHANGED <<failures, nextId>>
      BY <2>2
    <3>1. j \in Ids /\ jobs[j].lane = "capture" /\ jobs[j].status \in ActiveStatuses
      BY DEF ActiveIn
    <3>2. UNCHANGED <<runtime, slots, killed, clearedTo>>
      BY DEF EnqueueCapture
    <3>3. Core' /\ jobs' \in [Ids -> Rows]
      BY <3>1, <3>2, ExpireCaptureQuiet, OneRowStep DEF IInv
    <3>4. SlotsKnown'
      BY SMT, <3>2, SlotsSame DEF IInv, TypeOK
    <3> QED BY <3>2, <3>3, <3>4 DEF IInv, TypeOK, runtime
  <2> QED BY <2>1, <2>2 DEF EnqueueCapture
<1>4. CASE \E ownerDead, enabled \in BOOLEAN : ChatSend(ownerDead, enabled)
  <2> PICK d \in BOOLEAN, e \in BOOLEAN : ChatSend(d, e)
    BY <1>4
  <2> DEFINE J == [j \in Ids |-> PreemptedRow(j, d \/ LeaseOver(jobs[j]), e)]
             F == QueueFailures(failures, UnsafeToReplay)
  <2>1. \A j \in Ids : Quiet(jobs[j], J[j]) /\ (Unhappy(J[j]) => Unhappy(jobs[j]) \/ j \in UnsafeToReplay)
    BY PreemptedQuiet DEF LeaseOver
  <2>2. J \in [Ids -> Rows]
    BY <2>1 DEF Quiet, RowOK
  <2>3. F \in SUBSET Ids /\ failures \subseteq F
    BY SameRows DEF QueueFailures, UnsafeToReplay, ActiveIn
  <2>4. \A j \in UnsafeToReplay : j \in F
    BY DEF QueueFailures, UnsafeToReplay, ActiveIn, VisibleLanes
  <2>5. CoalesceOrInsert(J, F, "chat", rtGen) /\ UNCHANGED <<runtime, slots, killed, clearedTo>>
    BY DEF ChatSend
  <2> HIDE DEF J, F
  <2> QED BY <2>1, <2>2, <2>3, <2>4, <2>5, <1>g, <1>l, CoalesceInv
<1> QED BY <1>1, <1>2, <1>3, <1>4 DEF Producer

-----------------------------------------------------------------------------
(* The claim.                                                              *)

\* What the fences of a turn tell about its row.
LEMMA OwnedFacts ==
  ASSUME IInv, NEW w \in Owners, Owned(w)
  PROVE  /\ slots[w].job \in Ids /\ RowOK(jobs[slots[w].job])
         /\ jobs[slots[w].job].status \in Executing
         /\ jobs[slots[w].job].status \in ActiveStatuses
         /\ jobs[slots[w].job].status # "absent"
         /\ jobs[slots[w].job].owner = w
BY SameRows DEF Owned, IInv, TypeOK, ActiveStatuses, Executing

\* Choosing the queue head changes no row (SelectCandidate).
LEMMA SelectInv ==
  ASSUME IInv, NEW w \in Owners, SelectCandidate(w)
  PROVE  IInv'
<1>1. PICK j \in Ids : /\ Claimable(j)
                       /\ slots' = [slots EXCEPT ![w] = [pc |-> "picked", job |-> j, observed |-> 0]]
  BY DEF SelectCandidate
<1>2. UNCHANGED <<runtime, jobs, nextId, failures, killed, clearedTo>>
  BY DEF SelectCandidate
<1>3. \A v \in Owners : slots'[v] = IF v = w THEN [pc |-> "picked", job |-> j, observed |-> 0] ELSE slots[v]
  BY <1>1 DEF IInv, TypeOK, Idle
<1>4. j < nextId /\ j \in Nat
  BY SMT, <1>1 DEF Claimable, IInv, Core, Fresh, TypeOK, Ids
<1>5. SlotsKnown'
  BY SMT, <1>2, <1>3, <1>4 DEF IInv, SlotsKnown
<1>6. TypeOK'
  <2>1. /\ slots' \in [Owners -> [pc : {"idle", "picked", "claimed", "turn", "dead"},
                                  job : Nat, observed : Nat]]
        /\ \A v \in Owners : slots'[v].pc \in {"picked", "claimed", "turn"} => slots'[v].job \in Ids
    BY <1>1, <1>3, <1>4 DEF IInv, TypeOK, Idle
  <2> QED BY <1>2, <2>1 DEF IInv, TypeOK, runtime
<1>7. Core'
  BY <1>2, SameRows, QuietStep DEF IInv
<1> QED BY <1>5, <1>6, <1>7 DEF IInv

\* Claiming a pending row while nothing of the user executes.
LEMMA ClaimStep ==
  ASSUME IInv, NEW j \in Ids, Claimable(j),
         NEW q, RowOK(q), q.lane = jobs[j].lane, q.status = "claimed",
         jobs' = [jobs EXCEPT ![j] = q], UNCHANGED <<nextId, failures, clearedTo>>
  PROVE  Core' /\ jobs' \in [Ids -> Rows]
<1>1. \A i \in Ids : jobs'[i] = IF i = j THEN q ELSE jobs[i]
  BY DEF IInv, TypeOK
<1>2. jobs[j].status = "pending" /\ \A i \in Ids : jobs[i].status \notin Executing
  BY DEF Claimable, NothingExecuting
<1>3. \A i \in Ids :
        /\ jobs'[i].lane = jobs[i].lane /\ RowOK(jobs'[i])
        /\ jobs'[i].status = "absent" <=> jobs[i].status = "absent"
        /\ jobs'[i].status \in ActiveStatuses => jobs[i].status \in ActiveStatuses
  BY <1>1, <1>2, SameRows DEF ActiveStatuses
<1>4. AtMostOneExecuting'
  BY SMT, <1>1, <1>2 DEF AtMostOneExecuting
<1>5. SingleFlight'
  BY SMT, <1>3 DEF IInv, Core, SingleFlight
<1>6. FailureIsVisible'
  BY <1>1 DEF IInv, Core, FailureIsVisible
<1>7. Fresh' /\ RowsOK'
  BY <1>3 DEF IInv, Core, Fresh, RowsOK
<1>8. jobs' \in [Ids -> Rows]
  BY DEF IInv, TypeOK, RowOK
<1> QED BY <1>4, <1>5, <1>6, <1>7, <1>8 DEF Core

\* The locked half of a claim: the row starts executing only while nothing of
\* the user executes (ClaimLocked).
LEMMA ClaimInv ==
  ASSUME IInv, NEW w \in Owners, ClaimLocked(w)
  PROVE  IInv'
<1> DEFINE j == slots[w].job
           r == jobs[j]
           q == [r EXCEPT !.status = "claimed", !.owner = w, !.lease = "live", !.gen = rtGen]
<1>a. UNCHANGED <<runtime, nextId, failures, killed, clearedTo>>
  BY DEF ClaimLocked
<1>c. j \in Ids /\ j < nextId
  BY DEF ClaimLocked, IInv, TypeOK, SlotsKnown
<1>d. RowOK(r) /\ r \in Rows /\ r.status # "absent"
  BY SMT, <1>c, SameRows DEF IInv, Core, Fresh, TypeOK, Ids
<1>e. nextId' \in Nat /\ nextId' >= nextId
  BY SMT, <1>a, ConstantsAssumption DEF IInv, TypeOK
<1>1. CASE jobs' = jobs /\ slots' = [slots EXCEPT ![w] = Idle]
  <2>1. Core'
    BY <1>1, <1>a, SameRows, QuietStep DEF IInv
  <2> QED BY <1>1, <1>a, <1>e, <2>1, SlotIdle DEF IInv, TypeOK, runtime
<1>2. CASE jobs' = [jobs EXCEPT ![j] = Superseded(r)] /\ slots' = [slots EXCEPT ![w] = Idle]
  <2>1. Core' /\ jobs' \in [Ids -> Rows]
    BY <1>2, <1>a, <1>c, <1>d, SupersededQuiet, OneRowStep DEF IInv, Unhappy
  <2> QED BY <1>2, <1>a, <1>e, <2>1, SlotIdle DEF IInv, TypeOK, runtime
<1>3. CASE /\ Claimable(j) /\ jobs' = [jobs EXCEPT ![j] = q]
           /\ slots' = [slots EXCEPT ![w].pc = "claimed"]
  <2>1. /\ q \in Rows /\ q.status = "claimed" /\ q.owner = w
        /\ q.lane = r.lane /\ q.writers = r.writers
        /\ q.attempt = r.attempt /\ q.crashes = r.crashes
    BY <1>d DEF Rows, IInv, TypeOK, Statuses, ActiveStatuses, Executing
  <2>2. r.status = "pending"
    BY <1>3 DEF Claimable
  <2>3. RowOK(q)
    BY <1>d, <2>1, <2>2 DEF RowOK, Counted, Spent, ActiveStatuses
  <2>4. Core' /\ jobs' \in [Ids -> Rows]
    BY <1>3, <1>a, <1>c, <2>1, <2>3, ClaimStep
  <2>9. \A v \in Owners : slots'[v] = IF v = w THEN [slots[w] EXCEPT !.pc = "claimed"] ELSE slots[v]
    BY <1>3 DEF IInv, TypeOK
  <2>10. SlotsKnown'
    BY SMT, <2>9, <1>a, <1>c DEF IInv, TypeOK, SlotsKnown
  <2>11. TypeOK'
    <3>2. /\ slots' \in [Owners -> [pc : {"idle", "picked", "claimed", "turn", "dead"},
                                    job : Nat, observed : Nat]]
          /\ \A v \in Owners : slots'[v].pc \in {"picked", "claimed", "turn"} => slots'[v].job \in Ids
      BY SMT, <1>3, <2>9, <1>c DEF IInv, TypeOK
    <3> QED BY <2>4, <3>2, <1>a DEF IInv, TypeOK, runtime
  <2> QED BY <2>4, <2>10, <2>11 DEF IInv
<1> QED BY <1>1, <1>2, <1>3 DEF ClaimLocked, Claimable

-----------------------------------------------------------------------------
(* The turn.                                                               *)

\* A turn's transaction that quietly replaces its own row and leaves the
\* table and the slots otherwise alone, or frees its slot.
LEMMA TurnStep ==
  ASSUME IInv, NEW w \in Owners, NEW j \in Ids, NEW q, Quiet(jobs[j], q),
         jobs' = [jobs EXCEPT ![j] = q],
         slots' = slots \/ slots' = [slots EXCEPT ![w] = Idle],
         failures \subseteq failures', failures' \subseteq Ids,
         Unhappy(q) => Unhappy(jobs[j]) \/ j \in failures',
         UNCHANGED <<runtime, nextId, killed, clearedTo>>
  PROVE  IInv'
<1>1. Core' /\ jobs' \in [Ids -> Rows]
  BY OneRowStep DEF IInv
<1>2. nextId' \in Nat /\ nextId' >= nextId
  BY SMT, ConstantsAssumption DEF IInv, TypeOK
<1>3. CASE slots' = slots
  BY <1>1, <1>2, <1>3, SlotsSame DEF IInv, TypeOK, runtime
<1>4. CASE slots' = [slots EXCEPT ![w] = Idle]
  BY <1>1, <1>2, <1>4, SlotIdle DEF IInv, TypeOK, runtime
<1> QED BY <1>3, <1>4

\* A turn that hands its remaining input to a successor row of the same lane.
LEMMA SuccessorStep ==
  ASSUME IInv, NEW w \in Owners, NEW j \in Ids, nextId \in Ids,
         RowOK(jobs[j]), jobs[j].status \in ActiveStatuses,
         NEW q, RowOK(q), q.status = "pending", q.lane = jobs[j].lane,
         jobs' = [[jobs EXCEPT ![j] = Ended(jobs[j], "completed")] EXCEPT ![nextId] = q],
         nextId' = nextId + 1, slots' = [slots EXCEPT ![w] = Idle],
         UNCHANGED <<runtime, failures, killed, clearedTo>>
  PROVE  IInv'
<1> DEFINE d == Ended(jobs[j], "completed")
<1>1. Quiet(jobs[j], d) /\ d.status = "completed"
  BY EndedQuiet DEF TerminalStatuses, ActiveStatuses, Executing
<1>2. j # nextId
  BY SMT DEF IInv, Core, Fresh, TypeOK, Ids, ActiveStatuses, Executing
<1> HIDE DEF d
<1>3. \A i \in Ids : jobs'[i] = IF i = nextId THEN q ELSE IF i = j THEN d ELSE jobs[i]
  BY <1>2 DEF IInv, TypeOK, d
<1>4. \A i \in Ids \ {nextId} : Quiet(jobs[i], jobs'[i])
  BY <1>1, <1>3, SameRows
<1>5. \A i \in Ids \ {nextId} : Unhappy(jobs'[i]) => Unhappy(jobs[i])
  BY <1>1, <1>3 DEF Unhappy
<1>6. \A i \in Ids \ {nextId} :
        jobs'[i].lane = jobs'[nextId].lane => jobs'[i].status \notin ActiveStatuses
  <2> SUFFICES ASSUME NEW i \in Ids \ {nextId}, jobs'[i].lane = jobs'[nextId].lane
               PROVE  jobs'[i].status \notin ActiveStatuses
    OBVIOUS
  <2>1. CASE i = j
    BY <2>1, <1>1, <1>3 DEF ActiveStatuses, Executing
  <2>2. CASE i # j
    <3>1. jobs'[i] = jobs[i] /\ jobs[i].lane = jobs[j].lane
      BY <2>2, <1>3
    <3> QED BY <2>2, <3>1 DEF IInv, Core, SingleFlight
  <2> QED BY <2>1, <2>2
<1>7. Core'
  BY <1>3, <1>4, <1>5, <1>6, InsertStep DEF IInv
<1>8. jobs' \in [Ids -> Rows]
  BY <1>1 DEF IInv, TypeOK, Quiet, RowOK, d
<1>9. nextId' \in 1 .. MaxJobs + 1 /\ nextId' \in Nat /\ nextId' >= nextId
  BY SMT, ConstantsAssumption DEF Ids
<1> QED BY <1>7, <1>8, <1>9, SlotIdle DEF IInv, TypeOK, runtime

\* A step that moves no row and no slot onto another job.
LEMMA NoRowStep ==
  ASSUME IInv, NEW w \in Owners, jobs' = jobs,
         slots' = slots \/ slots' = [slots EXCEPT ![w] = Idle],
         failures \subseteq failures', failures' \subseteq Ids,
         UNCHANGED <<runtime, nextId, killed, clearedTo>>
  PROVE  IInv'
<1>1. Core'
  BY SameRows, QuietStep DEF IInv
<1>2. nextId' \in Nat /\ nextId' >= nextId
  BY SMT, ConstantsAssumption DEF IInv, TypeOK
<1>3. CASE slots' = slots
  BY <1>1, <1>2, <1>3, SlotsSame DEF IInv, TypeOK, runtime
<1>4. CASE slots' = [slots EXCEPT ![w] = Idle]
  BY <1>1, <1>2, <1>4, SlotIdle DEF IInv, TypeOK, runtime
<1> QED BY <1>3, <1>4

\* Starting the claimed row, or giving it up to the reaper (MarkRunning).
LEMMA MarkRunningInv ==
  ASSUME IInv, NEW w \in Owners, MarkRunning(w)
  PROVE  IInv'
<1> DEFINE j == slots[w].job
<1>1. CASE UNCHANGED jobs /\ slots' = [slots EXCEPT ![w] = Idle]
  BY <1>1, NoRowStep DEF MarkRunning, IInv, TypeOK
<1>2. CASE /\ OwnedNow(w) /\ jobs' = [jobs EXCEPT ![j].status = "running"]
           /\ slots' = [slots EXCEPT ![w].pc = "turn"]
  <2>a. UNCHANGED <<runtime, nextId, failures, killed, clearedTo>>
    BY DEF MarkRunning
  <2>1. j \in Ids /\ RowOK(jobs[j]) /\ jobs[j].status \in Executing
    BY <1>2, OwnedFacts DEF OwnedNow
  <2>2. PICK q : q = [jobs[j] EXCEPT !.status = "running"]
    OBVIOUS
  <2>3. /\ q \in Rows /\ q.status = "running" /\ q.lane = jobs[j].lane
        /\ q.writers = jobs[j].writers /\ q.owner = jobs[j].owner
        /\ q.attempt = jobs[j].attempt /\ q.crashes = jobs[j].crashes
    BY <2>1, <2>2 DEF RowOK, Rows, Statuses, ActiveStatuses, Executing
  <2>4. Quiet(jobs[j], q) /\ ~Unhappy(q)
    <3>1. Counted(q)
      BY <2>1, <2>3 DEF RowOK, Counted, Spent, ActiveStatuses, Executing
    <3> QED BY <2>1, <2>3, <3>1 DEF Quiet, RowOK, ActiveStatuses, Executing, Unhappy
  <2>5. jobs' = [jobs EXCEPT ![j] = q]
    BY <1>2, <2>2
  <2>6. Core' /\ jobs' \in [Ids -> Rows]
    BY <2>a, <2>1, <2>4, <2>5, OneRowStep DEF IInv
  <2>7. \A v \in Owners : slots'[v] = IF v = w THEN [slots[w] EXCEPT !.pc = "turn"] ELSE slots[v]
    BY <1>2 DEF IInv, TypeOK
  <2>8. j < nextId
    BY DEF IInv, SlotsKnown, MarkRunning
  <2>9. SlotsKnown'
    BY SMT, <2>a, <2>7, <2>8 DEF IInv, TypeOK, SlotsKnown
  <2>10. /\ slots' \in [Owners -> [pc : {"idle", "picked", "claimed", "turn", "dead"},
                                   job : Nat, observed : Nat]]
         /\ \A v \in Owners : slots'[v].pc \in {"picked", "claimed", "turn"} => slots'[v].job \in Ids
    BY SMT, <1>2, <2>1, <2>7 DEF IInv, TypeOK
  <2> QED BY <2>a, <2>6, <2>9, <2>10 DEF IInv, TypeOK, runtime
<1> QED BY <1>1, <1>2 DEF MarkRunning

\* Reading the input generation changes no row (Observe).
LEMMA ObserveInv ==
  ASSUME IInv, NEW w \in Owners, Observe(w)
  PROVE  IInv'
<1> DEFINE n == jobs[slots[w].job].input
<1>a. UNCHANGED <<runtime, jobs, nextId, failures, killed, clearedTo>>
  BY DEF Observe
<1>1. slots[w].job \in Ids /\ n \in Nat
  BY DEF Observe, IInv, TypeOK, Rows
<1>2. slots' = [slots EXCEPT ![w].observed = n]
  BY DEF Observe
<1> HIDE DEF n
<1>3. \A v \in Owners : slots'[v].pc = slots[v].pc /\ slots'[v].job = slots[v].job
  BY <1>2 DEF IInv, TypeOK
<1>4. slots' \in [Owners -> [pc : {"idle", "picked", "claimed", "turn", "dead"},
                             job : Nat, observed : Nat]]
  BY <1>1, <1>2 DEF IInv, TypeOK
<1>5. SlotsKnown'
  BY <1>a, <1>3 DEF IInv, SlotsKnown
<1>6. Core'
  BY <1>a, SameRows, QuietStep DEF IInv
<1> QED BY <1>a, <1>3, <1>4, <1>5, <1>6 DEF IInv, TypeOK, runtime

\* Only the owner of a running guarded turn adds a write to it.
LEMMA RecordWriteInv ==
  ASSUME IInv, NEW w \in Owners, RecordWrite(w)
  PROVE  IInv'
<1> DEFINE j == slots[w].job
<1>1. /\ j \in Ids /\ RowOK(jobs[j]) /\ jobs[j].status = "running" /\ jobs[j].owner = w
  BY OwnedFacts DEF RecordWrite, Running
<1>2. PICK q : q = [jobs[j] EXCEPT !.writers = @ \cup {w}]
  OBVIOUS
<1>3. /\ q \in Rows /\ q.status = "running" /\ q.lane = jobs[j].lane /\ q.owner = w
      /\ q.writers = jobs[j].writers \cup {w}
      /\ q.attempt = jobs[j].attempt /\ q.crashes = jobs[j].crashes
  BY <1>1, <1>2 DEF RowOK, Rows
<1>4. jobs[j].lane \in ReplayGuardedLanes => q.writers = {w}
  BY <1>1, <1>3 DEF RowOK, Executing
<1>5. Quiet(jobs[j], q) /\ ~Unhappy(q)
  <2>1. Counted(q)
    BY <1>1, <1>3 DEF RowOK, Counted, Spent
  <2> QED BY <1>1, <1>3, <1>4, <2>1
             DEF Quiet, RowOK, Unhappy, ActiveStatuses, Executing
<1>6. jobs' = [jobs EXCEPT ![j] = q] /\ UNCHANGED <<runtime, nextId, failures, slots, killed, clearedTo>>
  BY <1>2 DEF RecordWrite
<1> QED BY <1>1, <1>5, <1>6, TurnStep DEF IInv, TypeOK

\* The owner ends its row, and a visible failure is recorded with it.
LEMMA FinishInv ==
  ASSUME IInv, NEW w \in Owners, Owned(w),
         \/ FinalReply(w) \/ MarkCompleted(w) \/ MarkFailed(w)
         \/ RescheduleProfile(w) \/ RetryScheduled(w)
  PROVE  IInv'
<1> DEFINE j == slots[w].job
<1>1. /\ j \in Ids /\ RowOK(jobs[j]) /\ jobs[j].status # "absent"
      /\ jobs[j].status \in ActiveStatuses
  BY OwnedFacts
<1>2. failures \subseteq Ids
  BY DEF IInv, TypeOK
<1>3. Quiet(jobs[j], Ended(jobs[j], "completed")) /\ ~Unhappy(Ended(jobs[j], "completed"))
  BY <1>1, EndedQuiet DEF TerminalStatuses, Unhappy
<1>4. CASE FinalReply(w) \/ MarkCompleted(w)
  <2>1. jobs' = [jobs EXCEPT ![j] = Ended(jobs[j], "completed")]
    BY <1>4 DEF FinalReply, MarkCompleted
  <2>2. UNCHANGED <<runtime, nextId, failures, killed, clearedTo>>
    BY <1>4 DEF FinalReply, MarkCompleted
  <2>3. slots' = slots \/ slots' = [slots EXCEPT ![w] = Idle]
    BY <1>4 DEF FinalReply, MarkCompleted
  <2> QED BY <1>1, <1>2, <1>3, <2>1, <2>2, <2>3, TurnStep
<1>5. CASE MarkFailed(w)
  <2> DEFINE q == Failed(jobs[j])
  <2>1. Quiet(jobs[j], q) /\ q.status = "failed"
    BY <1>1, EndedQuiet DEF TerminalStatuses, Failed
  <2>2. jobs' = [jobs EXCEPT ![j] = q]
    BY <1>5 DEF MarkFailed
  <2> HIDE DEF q
  <2>3. failures \subseteq failures' /\ failures' \subseteq Ids /\ (Unhappy(q) => j \in failures')
    BY <1>1, <1>2, <1>5, <2>1 DEF MarkFailed, QueueFailures, Unhappy, Quiet
  <2> QED BY <1>1, <1>5, <2>1, <2>2, <2>3, TurnStep DEF MarkFailed
<1>6. CASE RescheduleProfile(w) \/ RetryScheduled(w)
  <2>1. jobs[j].lane \in ReplayGuardedLanes => Pristine(jobs[j])
    BY <1>6
       DEF RescheduleProfile, RetryScheduled, ReplayGuardedLanes, ReplyLanes, GuardedWakeLanes
  <2>0. jobs[j].lane = "profile" \/ jobs[j].attempt < Budget(jobs[j].lane)
    <3>1. \/ jobs[j].lane = "profile"
          \/ jobs[j].lane = "scheduled" /\ jobs[j].attempt < ScheduledRetries
      BY <1>6 DEF RescheduleProfile, RetryScheduled
    <3>2. jobs[j].attempt \in Nat
      BY <1>1 DEF RowOK, Rows
    <3> QED BY SMT, <3>1, <3>2, ConstantsAssumption DEF Budget
  <2>2. Quiet(jobs[j], RetryLater(jobs[j])) /\ ~Unhappy(RetryLater(jobs[j]))
    BY <1>1, <2>0, <2>1, RequeuedQuiet DEF Unhappy
  <2>3. jobs' = [jobs EXCEPT ![j] = RetryLater(jobs[j])] /\ slots' = [slots EXCEPT ![w] = Idle]
    BY <1>6 DEF RescheduleProfile, RetryScheduled
  <2>4. UNCHANGED <<runtime, nextId, failures, killed, clearedTo>>
    BY <1>6 DEF RescheduleProfile, RetryScheduled
  <2> QED BY <1>1, <1>2, <2>2, <2>3, <2>4, TurnStep
<1> QED BY <1>4, <1>5, <1>6

\* Completing a chat or heartbeat row and inserting its successor at once keeps
\* the lane single-flight (FinishChat, FinishWake).
LEMMA HandoffInv ==
  ASSUME IInv, NEW w \in Owners, Owned(w), NEW b \in BOOLEAN,
         FinishChat(w, b) \/ FinishWake(w, b)
  PROVE  IInv'
<1> DEFINE j == slots[w].job
           done == [jobs EXCEPT ![j] = Ended(jobs[j], "completed")]
           late == jobs[j].input - slots[w].observed
           next == [NewRow("heartbeat", rtGen) EXCEPT !.input = IF b THEN late ELSE 0]
<1>1. /\ j \in Ids /\ RowOK(jobs[j]) /\ jobs[j].status # "absent"
      /\ jobs[j].status \in ActiveStatuses
  BY OwnedFacts
<1>2. UNCHANGED <<runtime, failures, killed, clearedTo>> /\ slots' = [slots EXCEPT ![w] = Idle]
  BY DEF FinishChat, FinishWake
<1>3. CASE jobs' = done /\ nextId' = nextId
  <2>1. Quiet(jobs[j], Ended(jobs[j], "completed")) /\ ~Unhappy(Ended(jobs[j], "completed"))
    BY <1>1, EndedQuiet DEF TerminalStatuses, Unhappy
  <2>2. failures \subseteq Ids
    BY DEF IInv, TypeOK
  <2> QED BY <1>1, <1>2, <1>3, <2>1, <2>2, TurnStep
<1>4. CASE /\ jobs[j].lane = "chat" /\ nextId \in Ids /\ nextId' = nextId + 1
           /\ jobs' = [done EXCEPT ![nextId] = NewRow("chat", rtGen)]
  <2>1. "chat" \in AllLanes /\ rtGen \in Nat
    BY DEF AllLanes, IInv, TypeOK
  <2> QED BY ZenonT(30), <1>1, <1>2, <1>4, <2>1, NewRowOK, SuccessorStep
<1>5. CASE /\ jobs[j].lane = "heartbeat" /\ nextId \in Ids /\ nextId' = nextId + 1
           /\ jobs' = [done EXCEPT ![nextId] = next] /\ late > 0
  <2>1. "heartbeat" \in AllLanes /\ rtGen \in Nat
    BY DEF AllLanes, IInv, TypeOK
  <2>2. late \in Nat
    BY SMT, <1>1, <1>5 DEF IInv, TypeOK, RowOK, Rows
  <2>3. PICK m \in Nat : m = IF b THEN late ELSE 0
    BY <2>2
  <2>4. PICK r : r = NewRow("heartbeat", rtGen)
    OBVIOUS
  <2>5. RowOK(r) /\ r.status = "pending" /\ r.lane = "heartbeat"
    BY <2>1, <2>4, NewRowOK
  <2>6. PICK q : q = [r EXCEPT !.input = m]
    OBVIOUS
  <2>7. /\ q \in Rows /\ q.status = "pending" /\ q.lane = "heartbeat"
        /\ q.writers = r.writers /\ q.owner = r.owner
        /\ q.attempt = r.attempt /\ q.crashes = r.crashes
    BY <2>5, <2>6 DEF RowOK, Rows
  <2>8. RowOK(q)
    BY <2>5, <2>7 DEF RowOK, Counted, Spent
  <2>9. next = q
    BY <2>3, <2>4, <2>6
  <2> HIDE DEF next
  <2> QED BY <1>1, <1>2, <1>5, <2>7, <2>8, <2>9, SuccessorStep
<1> QED BY <1>3, <1>4, <1>5 DEF FinishChat, FinishWake

\* Enqueueing the input queued behind an answered chat message: a producer's
\* step that also frees the worker's slot (OrderedFollowup).
LEMMA FollowupInv ==
  ASSUME IInv, NEW w \in Owners, OrderedFollowup(w)
  PROVE  IInv'
<1>1. "chat" \in AllLanes /\ CurrentGen \in Nat /\ UNCHANGED <<runtime, killed, clearedTo>>
  BY DEF AllLanes, CurrentGen, NullGen, OrderedFollowup, IInv, TypeOK
<1>2. /\ Core' /\ jobs' \in [Ids -> Rows] /\ failures' \in SUBSET Ids
      /\ nextId' \in 1 .. MaxJobs + 1 /\ nextId' >= nextId
  BY <1>1, SameRows, CoalesceStep DEF OrderedFollowup, IInv
<1>3. nextId' \in Nat /\ slots' = [slots EXCEPT ![w] = Idle]
  BY SMT, <1>2, ConstantsAssumption DEF OrderedFollowup
<1>4. /\ SlotsKnown'
      /\ slots' \in [Owners -> [pc : {"idle", "picked", "claimed", "turn", "dead"},
                                job : Nat, observed : Nat]]
      /\ \A v \in Owners : slots'[v].pc \in {"picked", "claimed", "turn"} => slots'[v].job \in Ids
  BY <1>2, <1>3, SlotIdle DEF IInv
<1>5. TypeOK'
  BY <1>1, <1>2, <1>4 DEF IInv, TypeOK, runtime
<1> QED BY <1>2, <1>4, <1>5 DEF IInv

\* Every step of a turn preserves the invariant.
LEMMA TurnInv ==
  ASSUME IInv, NEW w \in Owners, Turn(w)
  PROVE  IInv'
<1>1. CASE MarkRunning(w)
  BY <1>1, MarkRunningInv
<1>2. CASE Observe(w)
  BY <1>2, ObserveInv
<1>3. CASE RecordWrite(w)
  BY <1>3, RecordWriteInv
<1>4. CASE FinalReply(w) \/ MarkCompleted(w) \/ MarkFailed(w) \/ RescheduleProfile(w) \/ RetryScheduled(w)
  <2>1. Owned(w)
    BY <1>4 DEF FinalReply, MarkCompleted, MarkFailed, RescheduleProfile, RetryScheduled,
                OwnedNow, Running
  <2> QED BY <1>4, <2>1, FinishInv
<1>5. CASE \E b \in BOOLEAN : FinishChat(w, b) \/ FinishWake(w, b)
  <2> PICK b \in BOOLEAN : FinishChat(w, b) \/ FinishWake(w, b)
    BY <1>5
  <2>1. Owned(w)
    BY DEF FinishChat, FinishWake, OwnedNow
  <2> QED BY <2>1, HandoffInv
<1>6. CASE SurfaceFailure(w)
  <2>1. slots[w].job \in Ids /\ failures \subseteq Ids
    BY <1>6 DEF SurfaceFailure, IInv, TypeOK
  <2> QED BY <1>6, <2>1, NoRowStep DEF SurfaceFailure, QueueFailures
<1>7. CASE EndTurn(w)
  BY <1>7, NoRowStep DEF EndTurn, IInv, TypeOK
<1>8. CASE OrderedFollowup(w)
  BY <1>8, FollowupInv
<1> QED BY <1>1, <1>2, <1>3, <1>4, <1>5, <1>6, <1>7, <1>8 DEF Turn

-----------------------------------------------------------------------------
(* Recovery and the environment.                                           *)

\* What the parent process makes of the row of a slot it killed.
LEMMA KilledQuiet ==
  ASSUME IInv, NEW j \in Ids, NEW e \in BOOLEAN, jobs[j].status \in Executing
  PROVE  LET q == KilledRow(j, e)
         IN  Quiet(jobs[j], q) /\ (q.status = "expired" \/ q.status = "pending")
<1> DEFINE r == jobs[j]
           q == KilledRow(j, e)
<1>a. RowOK(r) /\ r.status # "absent" /\ r.status \in ActiveStatuses
  BY SameRows DEF ActiveStatuses, Executing
<1>b. Quiet(r, Expired(r)) /\ Expired(r).status = "expired"
  BY <1>a, ExpiredQuiet
<1>1. CASE r.lane = "chat"
  <2>1. q = Expired(r)
    BY <1>1 DEF KilledRow, GuardedWakeLanes
  <2> QED BY <1>b, <2>1
<1>2. CASE r.lane = "scheduled"
  <2>1. q = IF Pristine(r) /\ r.attempt < ScheduledMaxAttempts THEN Retried(r) ELSE Expired(r)
    BY <1>2 DEF KilledRow, GuardedWakeLanes
  <2> QED BY <1>2, <1>a, <1>b, <2>1, RequeuedQuiet DEF Budget
<1>3. CASE r.lane \in GuardedWakeLanes /\ ~Pristine(r)
  <2>1. q = Expired(r)
    BY <1>3 DEF KilledRow, GuardedWakeLanes
  <2> QED BY <1>b, <2>1
<1>4. CASE r.lane \notin {"chat", "scheduled"} /\ ~(r.lane \in GuardedWakeLanes /\ ~Pristine(r))
  <2>1. q = GeneralRecover(j, e)
    BY <1>4 DEF KilledRow
  <2>2. r.lane \in ReplayGuardedLanes => Pristine(r)
    BY <1>4 DEF ReplayGuardedLanes, ReplyLanes
  <2>3. CASE r.attempt < GeneralMaxAttempts
    BY <1>4, <2>1, <2>2, <2>3, <1>a, RequeuedQuiet DEF GeneralRecover, Budget
  <2>4. CASE ~(r.attempt < GeneralMaxAttempts) /\ r.lane = "capture"
    BY <2>1, <2>4, <1>a, ExpireCaptureQuiet DEF GeneralRecover
  <2>5. CASE ~(r.attempt < GeneralMaxAttempts) /\ r.lane # "capture"
    BY <2>1, <2>5, <1>b DEF GeneralRecover
  <2> QED BY <2>3, <2>4, <2>5
<1> QED BY <1>1, <1>2, <1>3, <1>4

\* One reaper transaction over every overdue row (Reap).
LEMMA ReapInv ==
  ASSUME IInv, Reap
  PROVE  IInv'
<1> DEFINE expired == {j \in Ids : Reapable(jobs[j]) /\ ~Requeueable(jobs[j])}
<1>1. UNCHANGED <<runtime, nextId, slots, killed, clearedTo>> /\ failures' = QueueFailures(failures, expired)
  BY DEF Reap
<1>2. \A j \in Ids : jobs'[j] = IF Requeueable(jobs[j]) THEN Retried(jobs[j])
                                ELSE IF j \in expired THEN Expired(jobs[j]) ELSE jobs[j]
  BY DEF Reap
<1>3. ASSUME NEW j \in Ids
      PROVE  Quiet(jobs[j], jobs'[j]) /\ (Unhappy(jobs'[j]) => Unhappy(jobs[j]) \/ j \in expired)
  <2>1. CASE Requeueable(jobs[j])
    <3>1. /\ jobs[j].status \in ActiveStatuses /\ Pristine(jobs[j])
          /\ jobs[j].attempt < Budget(jobs[j].lane)
      BY <2>1 DEF Requeueable, LeaseOver, ActiveStatuses, Budget
    <3> QED BY <2>1, <3>1, <1>2, SameRows, RequeuedQuiet DEF Unhappy
  <2>2. CASE j \in expired
    <3>1. jobs[j].status \in ActiveStatuses
      BY <2>2 DEF Reapable, QueueOver, LeaseOver, ActiveStatuses
    <3> QED BY <2>2, <3>1, <1>2, SameRows, ExpiredQuiet
  <2>3. CASE ~Requeueable(jobs[j]) /\ j \notin expired
    BY <2>3, <1>2, SameRows
  <2> QED BY <2>1, <2>2, <2>3
<1>4. failures \subseteq failures' /\ failures' \subseteq Ids
  BY <1>1 DEF QueueFailures, IInv, TypeOK
<1>5. \A j \in Ids : Unhappy(jobs'[j]) => Unhappy(jobs[j]) \/ j \in failures'
  BY <1>1, <1>3 DEF QueueFailures, Unhappy, Quiet
<1>6. Core'
  BY <1>1, <1>3, <1>4, <1>5, QuietStep DEF IInv
<1>7. jobs' \in [Ids -> Rows]
  <2>1. DOMAIN jobs' = Ids /\ jobs' = [j \in Ids |-> jobs'[j]]
    BY DEF Reap
  <2> QED BY <2>1, <1>3 DEF Quiet, RowOK
<1>8. SlotsKnown'
  BY SMT, <1>1, ConstantsAssumption, SlotsSame DEF IInv, TypeOK
<1> QED BY <1>1, <1>4, <1>6, <1>7, <1>8 DEF IInv, TypeOK, runtime

\* Crashes, the watchdog, the recovery queue and the reapers preserve it.
LEMMA RecoveryInv ==
  ASSUME IInv, Recovery
  PROVE  IInv'
<1>n. nextId \in Nat /\ nextId \in 1 .. MaxJobs + 1
  BY SMT, ConstantsAssumption DEF IInv, TypeOK
<1>1. CASE \E w \in Owners : Crash(w) \/ WatchdogKill(w)
  <2> PICK w \in Owners : Crash(w) \/ WatchdogKill(w)
    BY <1>1
  <2>1. /\ slots' = [slots EXCEPT ![w] = [Idle EXCEPT !.pc = "dead"]]
        /\ UNCHANGED <<runtime, jobs, nextId, failures, clearedTo>>
    BY DEF Crash, WatchdogKill
  <2>2. killed' \subseteq Ids \X Owners
    BY SMT DEF Crash, WatchdogKill, IInv, TypeOK
  <2>3. Core'
    BY <2>1, SameRows, QuietStep DEF IInv
  <2>4. "dead" \in {"idle", "dead"} /\ TypeOK /\ SlotsKnown /\ nextId' \in Nat /\ nextId' >= nextId
    BY SMT, <1>n, <2>1 DEF IInv
  <2>5. /\ SlotsKnown'
        /\ slots' \in [Owners -> [pc : {"idle", "picked", "claimed", "turn", "dead"},
                                  job : Nat, observed : Nat]]
        /\ \A v \in Owners : slots'[v].pc \in {"picked", "claimed", "turn"} => slots'[v].job \in Ids
    BY <2>1, <2>4, SlotFreed
  <2> QED BY <2>1, <2>2, <2>3, <2>5 DEF IInv, TypeOK, runtime
<1>2. CASE \E j \in Ids, w \in Owners : DropRecovery(j, w)
  <2> PICK j \in Ids, w \in Owners : DropRecovery(j, w)
    BY <1>2
  <2>1. Core'
    BY SameRows, QuietStep DEF IInv, DropRecovery
  <2>2. SlotsKnown'
    BY SMT, <1>n, SlotsSame DEF IInv, DropRecovery
  <2> QED BY <2>1, <2>2 DEF IInv, TypeOK, DropRecovery, runtime
<1>3. CASE \E j \in Ids, w \in Owners, enabled \in BOOLEAN : RecoverKilled(j, w, enabled)
  <2> PICK j \in Ids, w \in Owners, e \in BOOLEAN : RecoverKilled(j, w, e)
    BY <1>3
  <2> DEFINE q == KilledRow(j, e)
  <2>1. UNCHANGED <<runtime, nextId, slots, clearedTo>> /\ killed' \subseteq Ids \X Owners
    BY DEF RecoverKilled, IInv, TypeOK
  <2>2. CASE /\ jobs[j].status \in Executing /\ jobs' = [jobs EXCEPT ![j] = q]
             /\ failures' = QueueFailures(failures, IF q.status = "expired" THEN {j} ELSE {})
    <3>1. Quiet(jobs[j], q) /\ (q.status = "expired" \/ q.status = "pending")
      BY <2>2, KilledQuiet
    <3> HIDE DEF q
    <3>2. failures \subseteq failures' /\ failures' \subseteq Ids
      BY <2>2 DEF QueueFailures, IInv, TypeOK
    <3>3. Unhappy(q) => j \in failures'
      BY <2>2, <3>1 DEF QueueFailures, Unhappy, Quiet
    <3>4. Core' /\ jobs' \in [Ids -> Rows]
      BY <2>1, <2>2, <3>1, <3>2, <3>3, OneRowStep DEF IInv
    <3>5. SlotsKnown'
      BY SMT, <1>n, <2>1, SlotsSame DEF IInv
    <3> QED BY <2>1, <3>2, <3>4, <3>5 DEF IInv, TypeOK, runtime
  <2>3. CASE UNCHANGED <<jobs, failures>>
    <3>1. Core'
      BY <2>1, <2>3, SameRows, QuietStep DEF IInv
    <3>2. SlotsKnown'
      BY SMT, <1>n, <2>1, SlotsSame DEF IInv
    <3> QED BY <2>1, <2>3, <3>1, <3>2 DEF IInv, TypeOK, runtime
  <2> QED BY <2>2, <2>3 DEF RecoverKilled
<1>4. CASE Reap
  BY <1>4, ReapInv
<1>5. CASE \E j \in Ids, enabled \in BOOLEAN : ReapCapture(j, enabled)
  <2> PICK j \in Ids, e \in BOOLEAN : ReapCapture(j, e)
    BY <1>5
  <2>1. /\ jobs[j].lane = "capture" /\ jobs[j].status \in ActiveStatuses
        /\ jobs' = ExpireCapture(jobs, j, e)
        /\ UNCHANGED <<runtime, nextId, failures, slots, killed, clearedTo>>
    BY DEF ReapCapture, LeaseOver, ActiveStatuses
  <2>2. Core' /\ jobs' \in [Ids -> Rows]
    BY <2>1, ExpireCaptureQuiet, OneRowStep DEF IInv
  <2>3. SlotsKnown'
    BY SMT, <1>n, <2>1, SlotsSame DEF IInv
  <2> QED BY <2>1, <2>2, <2>3 DEF IInv, TypeOK, runtime
<1> QED BY <1>1, <1>2, <1>3, <1>4, <1>5 DEF Recovery

\* Cutovers, Chat Clear and the passing of time preserve it.
LEMMA EnvironmentInv ==
  ASSUME IInv, Environment
  PROVE  IInv'
<1>n. nextId \in Nat /\ nextId \in 1 .. MaxJobs + 1
  BY SMT, ConstantsAssumption DEF IInv, TypeOK
<1>1. CASE \E target \in {"resident", "v2"} : Cutover(target)
  <2>1. Core'
    BY <1>1, SameRows, QuietStep DEF IInv, Cutover
  <2>2. SlotsKnown'
    BY SMT, <1>n, <1>1, SlotsSame DEF IInv, Cutover
  <2>3. /\ rtState' \in {"resident", "v2"} /\ rtGen' \in Nat \ {0}
        /\ UNCHANGED <<jobs, nextId, failures, slots, killed, clearedTo>>
    BY SMT, <1>1 DEF IInv, TypeOK, Cutover
  <2> QED BY <2>1, <2>2, <2>3 DEF IInv, TypeOK
<1>2. CASE ChatClear
  <2> DEFINE base(j) == IF jobs[j].status \in ActiveStatuses THEN Superseded(jobs[j]) ELSE jobs[j]
             clean(r) == [r EXCEPT !.writers = {}]
  <2>1. UNCHANGED <<rtState, nextId, slots, killed>> /\ clearedTo' = nextId /\ failures' = {}
    BY <1>2 DEF ChatClear
  <2>2. jobs' = [j \in Ids |-> clean(base(j))]
    BY <1>2 DEF ChatClear
  <2>3. ASSUME NEW j \in Ids
        PROVE  RowOK(base(j)) /\ Quiet(jobs[j], base(j)) /\ base(j).status \notin ActiveStatuses
    BY SameRows, SupersededQuiet DEF ActiveStatuses, Executing, Quiet
  <2>4. ASSUME NEW r, RowOK(r)
        PROVE  RowOK(clean(r)) /\ clean(r).status = r.status /\ clean(r).lane = r.lane
    <3>1. /\ clean(r) \in Rows /\ clean(r).writers = {} /\ clean(r).status = r.status
          /\ clean(r).lane = r.lane /\ clean(r).attempt = r.attempt /\ clean(r).crashes = r.crashes
      BY <2>4 DEF RowOK, Rows
    <3> QED BY <2>4, <3>1 DEF RowOK, Counted, Spent
  <2> HIDE DEF base, clean
  <2>5. \A j \in Ids : /\ Quiet(jobs[j], jobs'[j])
                       /\ jobs'[j].status \notin ActiveStatuses
    BY <2>2, <2>3, <2>4 DEF Quiet
  <2>6. jobs' \in [Ids -> Rows]
    BY <2>2, <2>3, <2>4 DEF RowOK
  <2>7. Fresh' /\ RowsOK'
    BY <2>1, <2>5 DEF IInv, Core, Fresh, RowsOK, Quiet
  <2>8. AtMostOneExecuting' /\ SingleFlight'
    BY <2>5 DEF AtMostOneExecuting, SingleFlight, ActiveStatuses
  <2>9. FailureIsVisible'
    BY <2>1, <2>7 DEF FailureIsVisible, Fresh
  <2>10. SlotsKnown'
    BY SMT, <1>n, <2>1, SlotsSame DEF IInv
  <2>11. rtGen' \in Nat \ {0}
    BY SMT, <1>2 DEF ChatClear, IInv, TypeOK
  <2>12. TypeOK'
    BY <1>n, <2>1, <2>6, <2>11 DEF IInv, TypeOK
  <2> QED BY <2>7, <2>8, <2>9, <2>10, <2>12 DEF IInv, Core
<1>3. CASE \E j \in Ids : LeaseExpires(j) \/ QueueDeadlinePasses(j) \/ BecomesReady(j)
  <2> PICK j \in Ids : LeaseExpires(j) \/ QueueDeadlinePasses(j) \/ BecomesReady(j)
    BY <1>3
  <2>1. UNCHANGED <<runtime, nextId, failures, slots, killed, clearedTo>>
    BY DEF LeaseExpires, QueueDeadlinePasses, BecomesReady
  <2>2. PICK q : /\ jobs' = [jobs EXCEPT ![j] = q]
                 /\ \/ q = [jobs[j] EXCEPT !.lease = "expired"]
                    \/ q = [jobs[j] EXCEPT !.overdue = TRUE]
                    \/ q = [jobs[j] EXCEPT !.ready = TRUE]
    BY DEF LeaseExpires, QueueDeadlinePasses, BecomesReady
  <2>3. RowOK(jobs[j])
    BY SameRows
  <2>4. /\ q \in Rows /\ q.status = jobs[j].status /\ q.lane = jobs[j].lane
        /\ q.writers = jobs[j].writers /\ q.owner = jobs[j].owner
        /\ q.attempt = jobs[j].attempt /\ q.crashes = jobs[j].crashes
    <3>1. jobs[j] \in Rows
      BY <2>3 DEF RowOK
    <3>2. CASE q = [jobs[j] EXCEPT !.lease = "expired"]
      BY <3>1, <3>2 DEF Rows
    <3>3. CASE q = [jobs[j] EXCEPT !.overdue = TRUE]
      BY <3>1, <3>3 DEF Rows
    <3>4. CASE q = [jobs[j] EXCEPT !.ready = TRUE]
      BY <3>1, <3>4 DEF Rows
    <3> QED BY <2>2, <3>2, <3>3, <3>4
  <2>5. Quiet(jobs[j], q) /\ (Unhappy(q) => Unhappy(jobs[j]))
    <3>1. Counted(q)
      BY <2>3, <2>4 DEF RowOK, Counted, Spent
    <3> QED BY <2>3, <2>4, <3>1 DEF Quiet, RowOK, Unhappy
  <2>6. Core' /\ jobs' \in [Ids -> Rows]
    BY <2>1, <2>2, <2>5, OneRowStep DEF IInv
  <2>7. SlotsKnown'
    BY SMT, <1>n, <2>1, SlotsSame DEF IInv
  <2> QED BY <2>1, <2>6, <2>7 DEF IInv, TypeOK, runtime
<1> QED BY <1>1, <1>2, <1>3 DEF Environment

-----------------------------------------------------------------------------
(* The theorems.                                                           *)

\* The empty queue satisfies the invariant.
LEMMA InitInv ==
  ASSUME Init
  PROVE  IInv
<1>1. /\ NoRow \in Rows /\ NoRow.status = "absent" /\ NoRow.writers = {}
      /\ NoRow.attempt = 0 /\ NoRow.crashes = 0
  BY DEF NoRow, NewRow, Rows, Statuses, AllLanes, NullGen
<1>2. \A j \in Ids : jobs[j] = NoRow
  BY DEF Init
<1>3. RowOK(NoRow) /\ jobs \in [Ids -> Rows]
  <2>1. Counted(NoRow)
    BY SMT, <1>1, BudgetType DEF Counted, Spent, ActiveStatuses, Executing
  <2> QED BY <1>1, <2>1 DEF RowOK, Init, Executing
<1>4. TypeOK
  BY SMT, <1>3, ConstantsAssumption DEF TypeOK, Init, Idle
<1>5. SlotsKnown
  BY DEF Init, SlotsKnown, Idle
<1>6. Fresh /\ RowsOK
  BY SMT, <1>1, <1>2, <1>3 DEF Fresh, RowsOK, Init, Ids
<1>7. AtMostOneExecuting /\ SingleFlight /\ FailureIsVisible
  BY <1>1, <1>2
     DEF AtMostOneExecuting, SingleFlight, FailureIsVisible, Executing, ActiveStatuses
<1> QED BY <1>4, <1>5, <1>6, <1>7 DEF IInv, Core

\* The invariant is inductive.
LEMMA NextInv ==
  ASSUME IInv, [Next]_vars
  PROVE  IInv'
<1>1. CASE Producer
  BY <1>1, ProducerInv
<1>2. CASE Recovery
  BY <1>2, RecoveryInv
<1>3. CASE Environment
  BY <1>3, EnvironmentInv
<1>4. CASE \E w \in Owners : SelectCandidate(w) \/ ClaimLocked(w) \/ Turn(w)
  BY <1>4, SelectInv, ClaimInv, TurnInv
<1>5. CASE UNCHANGED vars
  <2>1. Core'
    BY <1>5, SameRows, QuietStep DEF IInv, vars
  <2>2. TypeOK' /\ SlotsKnown'
    BY <1>5 DEF IInv, TypeOK, SlotsKnown, vars
  <2> QED BY <2>1, <2>2 DEF IInv
<1> QED BY <1>1, <1>2, <1>3, <1>4, <1>5 DEF Next

\* IInv holds in every reachable state.
THEOREM Invariance == Spec => []IInv
BY InitInv, NextInv, PTL DEF Spec

\* The columns of agent_jobs and the slots keep their types.
THEOREM TypeCorrect == Spec => []TypeOK
<1>1. IInv => TypeOK
  BY DEF IInv
<1> QED BY <1>1, Invariance, PTL

\* claim_next_job never lets two jobs of one user execute, whatever the other
\* slots, the reaper, the watchdog, senders and cutovers do in between.
THEOREM OneExecutes == Spec => []AtMostOneExecuting
<1>1. IInv => AtMostOneExecuting
  BY DEF IInv, Core
<1> QED BY <1>1, Invariance, PTL

\* A lane never has two active rows (coalesce_or_insert_on_cursor).
THEOREM LaneIsSingleFlight == Spec => []SingleFlight
<1>1. IInv => SingleFlight
  BY DEF IInv, Core
<1> QED BY <1>1, Invariance, PTL

\* No guarded turn runs again after a durable write, on any recovery path.
THEOREM WritesComeFromOneTurn == Spec => []SingleWriter
<1>1. IInv => SingleWriter
  BY DEF IInv, Core, RowsOK, RowOK, SingleWriter
<1> QED BY <1>1, Invariance, PTL

\* A failed chat turn or reminder always has its visibility obligation.
THEOREM FailuresAreVisible == Spec => []FailureIsVisible
<1>1. IInv => FailureIsVisible
  BY DEF IInv, Core
<1> QED BY <1>1, Invariance, PTL

\* The reaper, the watchdog and the worker's own retry together never run a
\* job more often than its budget allows.
THEOREM BudgetsHold == Spec => []AttemptsBounded
<1>1. IInv => AttemptsBounded
  BY DEF IInv, Core, RowsOK, RowOK, Counted, Spent, Budget, AttemptsBounded
<1> QED BY <1>1, Invariance, PTL

\* Whoever meets a crashed Capture job first counts it, and nobody again.
THEOREM CrashesCountOnce == Spec => []CrashCountedOnce
<1>1. IInv => CrashCountedOnce
  BY DEF IInv, Core, RowsOK, RowOK, Counted, CrashCountedOnce
<1> QED BY <1>1, Invariance, PTL

=============================================================================
