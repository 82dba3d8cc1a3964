---------------------------- MODULE WakeProofs ----------------------------
(***************************************************************************)
(* The safety properties of the two halves of a user's wakes: the circuit  *)
(* that stops them (WakeCircuit) and the reminders that cause them         *)
(* (Reminders, as the instance Timers at the end of the module).  Each     *)
(* specification is taken by itself.                                       *)
(*                                                                         *)
(* WakeCircuit, for every number of schedulers, every threshold and any    *)
(* amount of resets, publishers and disturbances.  Three parts of its      *)
(* state are independent of one another, so each has an invariant of its   *)
(* own, inductive together with the types:                                 *)
(*   Count    the streak of a closed circuit never exceeds the failures    *)
(*            of turns that began after the reset;                         *)
(*   Notice   a notice that disagrees with the circuit has a publisher     *)
(*            on its way that will put it right;                           *)
(*   Slots    the heartbeat slot is taken by one compare-and-set, and only *)
(*            its winner is on the way to enqueue.                         *)
(***************************************************************************)
EXTENDS WakeCircuit, TimerRows, WellFoundedInduction, TLAPS

(* Leaves are proved by Zenon unless they cite SMT.                        *)
USE Zenon

Count ==
    /\ row.streak <= earned
    /\ row.open => row.streak = Threshold

Notice ==
    /\ row.open /\ ~notice => pubs.open > 0
    /\ ~row.open /\ notice => pubs.close > 0

\* s holds the current slot and has not enqueued its heartbeat yet.
Winner(s) == tick[s].pc = "enqueue" /\ ~tick[s].past

Slots ==
    /\ \A s \in Schedulers : tick[s].pc = "cas" /\ ~tick[s].stale => slot
    /\ slot => beats = 0 /\ \A s \in Schedulers : ~Winner(s)
    /\ \A s \in Schedulers : Winner(s) => beats = 0 /\ \A t \in Schedulers : Winner(t) => t = s
    /\ beats <= 1

IInv == TypeOK /\ Count /\ Notice /\ Slots

-----------------------------------------------------------------------------

\* The bounds, one by one.
LEMMA Bounds ==
  /\ Threshold \in Nat \ {0} /\ MaxResets \in Nat /\ MaxFaults \in Nat
  /\ 0 \in 0 .. Threshold
BY SMT, BoundsAssumption

\* What two rows have in common when only a clock of theirs differs.
SameCircuit(r, q) == q \in RowType /\ q.open = r.open /\ q.streak = r.streak

\* The clocks of the schedule row do not touch the circuit.
LEMMA ClocksKeepCircuit ==
  ASSUME NEW r \in RowType, NEW b \in BOOLEAN
  PROVE  /\ SameCircuit(r, [r EXCEPT !.due = b])
         /\ SameCircuit(r, [r EXCEPT !.cooldown = b])
         /\ SameCircuit(r, [r EXCEPT !.backoff = b])
         /\ SameCircuit(r, [r EXCEPT !.newer = b])
BY DEF SameCircuit, RowType

\* Nor does arming or clearing the failure backoff.
LEMMA BackoffKeepsCircuit ==
  ASSUME NEW r \in RowType, NEW l
  PROVE  SameCircuit(r, ClearBackoff(r, l)) /\ SameCircuit(r, ArmBackoff(r, l))
BY DEF SameCircuit, RowType, ClearBackoff, ArmBackoff

\* Capped counts up to the threshold, and no further.
LEMMA CappedFacts ==
  ASSUME NEW n \in 0 .. Threshold
  PROVE  Capped(n) \in 0 .. Threshold /\ Capped(n) >= n /\ (n + 1 >= Threshold => Capped(n) = Threshold)
BY SMT, Bounds DEF Capped

\* What the circuit shows to the rest of the state.
circuit == <<row.open, row.streak, pubs.open, pubs.close, notice, resets, earned>>

\* Every step keeps Count and Notice, and only a reset closes the circuit.
LEMMA CircuitInv ==
  
    TypeOK /\ Count /\ Notice /\ [Next]_vars => Count' /\ Notice' /\ (row.open /\ ~row'.open => resets' = resets + 1)
\* A step that shows nothing new keeps both invariants, and opens or closes
\* nothing.
<1>SameCircuitStep.
  ASSUME Count, Notice, UNCHANGED circuit
  PROVE  Count' /\ Notice' /\ row'.open = row.open
  BY <1>SameCircuitStep DEF Count, Notice, circuit
\* Ticks, time, settings and a failed reset leave the circuit alone.
<1>BystandersCircuit.
  ASSUME TypeOK,
         \/ \E s \in Schedulers : TickStep(s) \/ TickDies(s)
         \/ TickScreenWatch \/ TimeStep \/ EditSettings \/ GateTurns \/ ResetFails
  PROVE  UNCHANGED circuit
  <2> USE <1>BystandersCircuit
  <2>1. /\ row' \in {row, [row EXCEPT !.due = FALSE], [row EXCEPT !.due = TRUE],
                     [row EXCEPT !.cooldown = FALSE], [row EXCEPT !.backoff = FALSE],
                     [row EXCEPT !.newer = TRUE]}
        /\ UNCHANGED <<pubs, notice, resets, earned>>
    BY DEF TickStep, TickDies, Look, Decide, ReadSlot, CasSlot, EnqueueHeartbeat, Advance,
           TickScreenWatch, TimeStep, SlotComesDue, RowComesDue, CooldownEnds, BackoffEnds,
           EditSettings, GateTurns, ResetFails, Charge
  <2>2. row'.open = row.open /\ row'.streak = row.streak
    BY <2>1 DEF TypeOK, RowType
  <2> QED BY <2>1, <2>2 DEF circuit
\* A turn's end: a failure that opens the circuit was earned and leaves its
\* publisher behind; nothing else opens it and nothing closes it.
<1>TurnCircuit.
  ASSUME TypeOK, Count, Notice, NEW l \in Lanes, TurnStep(l) \/ Lapse(l)
  PROVE  Count' /\ Notice' /\ (row.open => row'.open)
  <2> USE <1>TurnCircuit
  <2>a. row \in RowType /\ row.streak \in 0 .. Threshold /\ earned \in 0 .. Threshold
        /\ pubs \in [open : Nat, close : Nat]
    BY DEF TypeOK, RowType
  <2>1. CASE WorkerClaim(l) \/ Gate(l) \/ EndReply(l) \/ Reap(l) \/ Lapse(l)
    <3>1. UNCHANGED circuit
      BY <2>1 DEF WorkerClaim, Gate, EndReply, Reap, Lapse, circuit
    <3> QED BY <3>1, <1>SameCircuitStep
  <2>2. CASE FinishReply(l) \/ Cooldown(l)
    <3>1. SameCircuit(row, ClearBackoff(row, l)) /\ SameCircuit(row, [row EXCEPT !.cooldown = TRUE])
      BY <2>a, BackoffKeepsCircuit, ClocksKeepCircuit
    <3>2. row' = ClearBackoff(row, l) \/ row' = [row EXCEPT !.cooldown = TRUE]
      BY <2>2 DEF FinishReply, Cooldown
    <3>3. SameCircuit(row, row')
      BY <3>1, <3>2
    <3>4. UNCHANGED circuit
      BY <2>2, <3>3 DEF FinishReply, Cooldown, circuit, SameCircuit
    <3> QED BY <3>4, <1>SameCircuitStep
  <2>3. CASE Sleep(l) \/ EndSilent(l)
    <3>1. SameCircuit(row, row) /\ SameCircuit(row, ClearBackoff(row, l))
      BY <2>a, BackoffKeepsCircuit DEF SameCircuit
    <3>2. row' = Record(row, l, FALSE) \/ row' = Record(ClearBackoff(row, l), l, FALSE)
      BY <2>3 DEF Sleep, EndSilent, Completed
    <3>3. PICK r : SameCircuit(row, r) /\ row' = Record(r, l, FALSE)
      BY <3>1, <3>2
    <3>4. row' = r \/ (~row.open /\ row'.streak = 0 /\ row'.open = FALSE)
      <4>1. CASE r.open \/ job[l].old
        BY <3>3, <4>1 DEF Record
      <4>2. CASE ~r.open /\ ~job[l].old
        <5>1. row' = [r EXCEPT !.streak = 0, !.open = FALSE]
          BY <3>3, <4>2 DEF Record
        <5> QED BY <3>3, <4>2, <5>1 DEF SameCircuit, RowType
      <4> QED BY <4>1, <4>2
    <3>5. UNCHANGED <<pubs, notice, earned>>
      BY <2>3 DEF Sleep, EndSilent
    <3>6. row'.open = row.open /\ (row'.streak = row.streak \/ (~row.open /\ row'.streak = 0))
      BY <2>a, <3>3, <3>4 DEF SameCircuit, RowType
    <3> QED BY SMT, <2>a, <3>5, <3>6 DEF Count, Notice
  <2>4. CASE EndTargeted(l) \/ EndOther(l)
    <3> DEFINE r == ArmBackoff(row, l)
    <3>1. r \in RowType /\ r.open = row.open /\ r.streak = row.streak
      BY <2>a, BackoffKeepsCircuit DEF SameCircuit
    <3>2. PICK t \in BOOLEAN : /\ row' = Record(r, l, t)
                               /\ earned' = IF t /\ ~job[l].old THEN Capped(earned) ELSE earned
      BY <2>4 DEF EndTargeted, EndOther, Failed
    <3>3. /\ notice' = notice
          /\ pubs' = IF ~row.open /\ row'.open THEN [pubs EXCEPT !.open = @ + 1] ELSE pubs
      BY <2>4 DEF EndTargeted, EndOther, Failed
    <3>4. CASE row.open \/ job[l].old
      <4>1. row' = r
        BY <3>1, <3>2, <3>4 DEF Record
      <4>2. earned' >= earned /\ earned' \in Nat
        BY SMT, <3>2, <2>a, CappedFacts
      <4>3. pubs' = pubs
        BY <3>1, <3>3, <4>1
      <4> QED BY SMT, <2>a, <3>1, <3>3, <4>1, <4>2, <4>3 DEF Count, Notice
    <3>5. CASE ~row.open /\ ~job[l].old
      <4>1. /\ t => row'.streak = Capped(row.streak) /\ row'.open = (row.streak + 1 >= Threshold)
            /\ ~t => row'.streak = 0 /\ row'.open = FALSE
        BY SMT, <3>1, <3>2, <3>5 DEF Record, RowType
      <4>2. Count'
        <5>1. t => earned' = Capped(earned)
          BY <3>2, <3>5
        <5>2. ~t => earned' = earned
          BY <3>2
        <5>3. Capped(row.streak) <= Capped(earned)
          BY SMT, <2>a, Bounds DEF Count, Capped
        <5>4. CASE t
          <6>1. row.streak + 1 >= Threshold => Capped(row.streak) = Threshold
            BY <2>a, CappedFacts
          <6> QED BY <4>1, <5>1, <5>3, <5>4, <6>1 DEF Count
        <5>5. CASE ~t
          BY SMT, <2>a, <4>1, <5>2, <5>5 DEF Count
        <5> QED BY <5>4, <5>5
      <4>3. Notice'
        BY SMT, <2>a, <3>3, <3>5 DEF Notice
      <4> QED BY <3>5, <4>2, <4>3
    <3> QED BY <3>4, <3>5
  <2> QED BY <2>1, <2>2, <2>3, <2>4 DEF TurnStep
\* A reset closes the circuit and leaves a publisher behind; a publisher acts
\* only while the circuit is what it saw.
<1>ResetCircuit.
  ASSUME TypeOK, Count, Notice, Reset
  PROVE  Count' /\ Notice'
  <2> USE <1>ResetCircuit
  <2>1. row' = [row EXCEPT !.streak = 0, !.open = FALSE, !.cooldown = FALSE, !.backoff = FALSE,
                           !.newer = TRUE]
    BY DEF Reset
  <2>2. row'.streak = 0 /\ ~row'.open
    BY <2>1 DEF TypeOK, RowType
  <2>3. Count'
    BY SMT, <2>2 DEF Count, Reset
  <2>4. notice' = notice /\ (row.open => pubs'.close > 0) /\ (~row.open => pubs' = pubs)
    BY SMT DEF Reset, TypeOK
  <2> QED BY <2>2, <2>3, <2>4 DEF Notice
<1>PublishCircuit.
  ASSUME TypeOK, Count, Notice, NEW o \in {"open", "close"}, Publish(o)
  PROVE  Count' /\ Notice' /\ row' = row
  <2> USE <1>PublishCircuit
  <2>1. UNCHANGED <<row, earned>>
    BY DEF Publish
  <2>2. Count'
    BY <2>1 DEF Count
  <2>3. CASE row.open = (o = "open")
    <3>1. notice' = row.open
      BY <2>3 DEF Publish
    <3> QED BY <2>1, <2>2, <3>1 DEF Notice
  <2>4. CASE row.open # (o = "open")
    <3>1. /\ notice' = notice
          /\ pubs' = [pubs EXCEPT ![o] = @ - 1]
      BY <2>4 DEF Publish
    <3>2. row.open => o = "close"
      BY <2>4
    <3>3. ~row.open => o = "open"
      BY <2>4 DEF TypeOK, RowType
    <3>4. (row.open => pubs'.open = pubs.open) /\ (~row.open => pubs'.close = pubs.close)
      BY <3>1, <3>2, <3>3 DEF TypeOK
    <3> QED BY <2>1, <2>2, <3>1, <3>4 DEF Notice
  <2> QED BY <2>3, <2>4
<1> SUFFICES ASSUME TypeOK, Count, Notice, [Next]_vars
             PROVE  Count' /\ Notice' /\ (row.open /\ ~row'.open => resets' = resets + 1)
  OBVIOUS
<1>1. CASE UNCHANGED vars
  <2>1. UNCHANGED circuit
    BY <1>1 DEF vars, circuit
  <2> QED BY <2>1, <1>SameCircuitStep
<1>2. CASE \/ \E s \in Schedulers : TickStep(s) \/ TickDies(s)
           \/ TickScreenWatch \/ TimeStep \/ EditSettings \/ GateTurns \/ ResetFails
  <2>1. UNCHANGED circuit
    BY <1>2, <1>BystandersCircuit
  <2> QED BY <2>1, <1>SameCircuitStep
<1>3. CASE \E l \in Lanes : TurnStep(l) \/ Lapse(l)
  BY <1>3, <1>TurnCircuit
<1>4. CASE Reset
  <2>1. resets' = resets + 1
    BY <1>4 DEF Reset
  <2> QED BY <1>4, <2>1, <1>ResetCircuit
<1>5. CASE Publish("open") \/ Publish("close")
  BY <1>5, <1>PublishCircuit
<1> QED BY <1>1, <1>2, <1>3, <1>4, <1>5 DEF Next

\* The state of the circuit, its notice and the heartbeat slot keeps IInv,
\* however the schedulers, turns, resets and publishers interleave.
THEOREM Invariance == Spec => []IInv
<1>IdleTypes. TickIdle \in TickType /\ NoJob \in JobType
  BY DEF TickIdle, TickType, NoJob, JobType
<1>InitType. Init => TypeOK
  <2> SUFFICES ASSUME Init PROVE TypeOK
    OBVIOUS
  <2>1. row \in RowType
    BY Bounds DEF Init, RowType
  <2>2. tick \in [Schedulers -> TickType] /\ job \in [Lanes -> JobType]
    BY <1>IdleTypes DEF Init
  <2>3. pubs \in [open : Nat, close : Nat]
    BY DEF Init
  <2>4. slot \in BOOLEAN /\ allowed \in BOOLEAN /\ notice \in BOOLEAN
    BY DEF Init
  <2>5. /\ resets \in 0 .. MaxResets /\ beats \in 0 .. 2 /\ left \in 0 .. MaxFaults
        /\ earned \in 0 .. Threshold /\ inRow \in 0 .. Threshold
    BY SMT, Bounds DEF Init
  <2> QED BY <2>1, <2>2, <2>3, <2>4, <2>5 DEF TypeOK
<1>NextType. TypeOK /\ [Next]_vars => TypeOK'
  \* A tick step writes the row's clock, the slot and the ticks.
  <2>TickType1.
    ASSUME TypeOK, NEW s \in Schedulers, TickStep(s) \/ TickDies(s)
    PROVE  TypeOK'
    <3> USE <2>TickType1
    <3> USE DEF TypeOK
    <3>1. CASE Look(s)
      BY SMT, <3>1 DEF Look, TickType
    <3>2. CASE Decide(s)
      <4>1. [row EXCEPT !.due = FALSE] \in RowType
        BY ClocksKeepCircuit DEF SameCircuit
      <4>2. [tick EXCEPT ![s].pc = "read"] \in [Schedulers -> TickType]
        BY SMT DEF TickType
      <4> QED BY <3>2, <4>1, <4>2, <1>IdleTypes DEF Decide
    <3>3. CASE ReadSlot(s)
      BY SMT, <3>3 DEF ReadSlot, TickType
    <3>4. CASE CasSlot(s)
      <4>1. \A pc \in {"read", "advance"} : [TickIdle EXCEPT !.pc = pc] \in TickType
        BY DEF TickIdle, TickType
      <4>2. Staled(s) \in [Schedulers -> TickType]
        BY DEF Staled, TickType
      <4>3. [Staled(s) EXCEPT ![s].pc = "enqueue"] \in [Schedulers -> TickType]
        BY SMT, <4>2 DEF TickType
      <4> QED BY ZenonT(30), <3>4, <4>1, <4>3 DEF CasSlot
    <3>5. CASE EnqueueHeartbeat(s)
      <4>1. Enqueued("heartbeat") \in [Lanes -> JobType]
        BY DEF Enqueued, NoJob, JobType
      <4>2. beats' \in 0 .. 2
        BY SMT, <3>5 DEF EnqueueHeartbeat
      <4> QED BY SMT, <3>5, <4>1, <4>2 DEF EnqueueHeartbeat, TickType
    <3>6. CASE Advance(s)
      <4>1. TickIdle \in TickType
        BY <1>IdleTypes
      <4> QED BY <3>6, <4>1, ClocksKeepCircuit DEF Advance, SameCircuit
    <3>7. CASE TickDies(s)
      <4>1. TickIdle \in TickType
        BY <1>IdleTypes
      <4>2. left' \in 0 .. MaxFaults
        BY SMT, <3>7, Bounds DEF TickDies, Charge
      <4> QED BY <3>7, <4>1, <4>2 DEF TickDies
    <3> QED BY <3>1, <3>2, <3>3, <3>4, <3>5, <3>6, <3>7 DEF TickStep
  \* Time, the screen watch tick, the settings, the gate, resets and publishers.
  <2>OtherType.
    ASSUME TypeOK,
           \/ TickScreenWatch \/ TimeStep \/ EditSettings \/ GateTurns \/ Reset \/ ResetFails
           \/ Publish("open") \/ Publish("close")
    PROVE  TypeOK'
    <3> USE <2>OtherType
    <3> USE DEF TypeOK
    <3>1. CASE TickScreenWatch
      BY <3>1 DEF TickScreenWatch, Enqueued, NoJob, JobType
    <3>2. CASE SlotComesDue
      <4>1. \A s \in Schedulers : [tick[s] EXCEPT !.past = TRUE] \in TickType
        BY DEF TickType
      <4>2. tick' \in [Schedulers -> TickType]
        BY <3>2, <4>1 DEF SlotComesDue
      <4> QED BY SMT, <3>2, <4>2 DEF SlotComesDue
    <3>3. CASE RowComesDue \/ CooldownEnds \/ BackoffEnds
      <4>1. /\ [row EXCEPT !.due = TRUE] \in RowType
            /\ [row EXCEPT !.cooldown = FALSE] \in RowType
            /\ [row EXCEPT !.backoff = FALSE] \in RowType
        BY ClocksKeepCircuit DEF SameCircuit
      <4> QED BY <3>3, <4>1 DEF RowComesDue, CooldownEnds, BackoffEnds
    <3>4. CASE EditSettings
      <4>1. left' \in 0 .. MaxFaults
        BY SMT, <3>4, Bounds DEF EditSettings, Charge
      <4> QED BY <3>4, <4>1 DEF EditSettings, TickType
    <3>5. CASE GateTurns
      <4>1. left' \in 0 .. MaxFaults
        BY SMT, <3>5, Bounds DEF GateTurns, Charge
      <4> QED BY <3>5, <4>1 DEF GateTurns
    <3>6. CASE Reset
      <4>1. row' \in RowType
        BY <3>6, Bounds DEF Reset, RowType
      <4>2. job' \in [Lanes -> JobType]
        <5>1. \A l \in Lanes : [job[l] EXCEPT !.old = TRUE] \in JobType
          BY DEF JobType
        <5> QED BY <3>6, <5>1 DEF Reset
      <4>3. pubs' \in [open : Nat, close : Nat]
        BY SMT, <3>6 DEF Reset
      <4>4. resets' \in 0 .. MaxResets /\ earned' \in 0 .. Threshold /\ inRow' \in 0 .. Threshold
        BY SMT, <3>6, Bounds DEF Reset
      <4> QED BY <3>6, <4>1, <4>2, <4>3, <4>4 DEF Reset
    <3>7. CASE ResetFails
      <4>1. left' \in 0 .. MaxFaults
        BY SMT, <3>7, Bounds DEF ResetFails, Charge
      <4> QED BY <3>7, <4>1, ClocksKeepCircuit DEF ResetFails, SameCircuit
    <3>8. ASSUME NEW o \in {"open", "close"}, Publish(o)
          PROVE  TypeOK'
      <4>1. pubs' \in [open : Nat, close : Nat]
        BY SMT, <3>8 DEF Publish
      <4>2. notice' \in BOOLEAN
        BY <3>8 DEF Publish, RowType
      <4> QED BY <3>8, <4>1, <4>2 DEF Publish
    <3> QED BY <3>1, <3>2, <3>3, <3>4, <3>5, <3>6, <3>7, <3>8 DEF TimeStep
  \* The turns: each writes the row through Record and the backoff helpers.
  <2>TurnType. \A l \in Lanes : TypeOK /\ (TurnStep(l) \/ Lapse(l)) => TypeOK'
    \* record_result_on_cursor keeps the row's type.
    <3>RecordType.
      ASSUME NEW r \in RowType, NEW l, NEW targeted \in BOOLEAN
      PROVE  Record(r, l, targeted) \in RowType
      <4> USE <3>RecordType
      <4>1. r.streak \in 0 .. Threshold
        BY DEF RowType
      <4>2. Capped(r.streak) \in 0 .. Threshold /\ 0 \in 0 .. Threshold
        BY <4>1, CappedFacts, Bounds
      <4> QED BY <4>2 DEF Record, RowType
    <3> SUFFICES ASSUME TypeOK, NEW l \in Lanes, TurnStep(l) \/ Lapse(l)
                 PROVE  TypeOK'
      OBVIOUS
    <3> USE DEF TypeOK
    <3>a. [job EXCEPT ![l] = NoJob] \in [Lanes -> JobType]
      BY <1>IdleTypes
    <3>b. /\ ClearBackoff(row, l) \in RowType /\ ArmBackoff(row, l) \in RowType
          /\ [row EXCEPT !.cooldown = TRUE] \in RowType
      BY BackoffKeepsCircuit, ClocksKeepCircuit DEF SameCircuit
    <3>c. \A r \in RowType, b \in BOOLEAN : Record(r, l, b) \in RowType
      BY <3>RecordType
    <3>d. Capped(earned) \in 0 .. Threshold /\ Capped(inRow) \in 0 .. Threshold
      BY CappedFacts
    <3>1. CASE WorkerClaim(l)
      BY <3>1 DEF WorkerClaim, JobType
    <3>2. CASE Gate(l)
      BY SMT, <3>2 DEF Gate, JobType
    <3>3. CASE Sleep(l)
      BY <3>3, <3>a, <3>c DEF Sleep
    <3>4. CASE EndSilent(l)
      BY <3>4, <3>a, <3>b, <3>c, Bounds DEF EndSilent, Completed
    <3>5. CASE EndReply(l)
      <4> DEFINE ended == [job[l] EXCEPT !.st = "completed", !.pc = "finish"]
      <4>1. ended \in JobType
        BY ZenonT(30) DEF JobType
      <4> HIDE DEF ended
      <4>2. [job EXCEPT ![l] = ended] \in [Lanes -> JobType]
        BY <4>1
      <4>3. [job EXCEPT ![l].st = "completed", ![l].pc = "finish"] \in [Lanes -> JobType]
        BY <4>2 DEF ended
      <4> QED BY <3>5, <4>3, Bounds DEF EndReply
    <3>6. CASE FinishReply(l)
      BY <3>6, <3>a, <3>b DEF FinishReply
    <3>7. CASE Cooldown(l)
      <4>1. [job EXCEPT ![l].pc = "broke"] \in [Lanes -> JobType]
        BY SMT DEF JobType
      <4> QED BY <3>7, <4>1, <3>b DEF Cooldown
    <3>8. ASSUME NEW t \in BOOLEAN, Failed(l, t)
          PROVE  row' \in RowType /\ job' \in [Lanes -> JobType] /\ pubs' \in [open : Nat, close : Nat]
      BY SMT, <3>8, <3>a, <3>b, <3>c DEF Failed
    <3>9. CASE EndTargeted(l)
      <4>1. row' \in RowType /\ job' \in [Lanes -> JobType] /\ pubs' \in [open : Nat, close : Nat]
        BY <3>8, <3>9 DEF EndTargeted
      <4> QED BY <3>9, <3>d, <4>1 DEF EndTargeted
    <3>10. CASE EndOther(l)
      <4>1. row' \in RowType /\ job' \in [Lanes -> JobType] /\ pubs' \in [open : Nat, close : Nat]
        BY <3>8, <3>10 DEF EndOther
      <4> QED BY <3>10, <4>1, Bounds DEF EndOther
    <3>11. CASE Reap(l)
      BY <3>11, <3>a DEF Reap
    <3>12. CASE Lapse(l)
      <4>1. [job EXCEPT ![l].live = FALSE] \in [Lanes -> JobType]
        BY DEF JobType
      <4>2. left' \in 0 .. MaxFaults
        BY SMT, <3>12, Bounds DEF Lapse, Charge
      <4> QED BY <3>12, <4>1, <4>2 DEF Lapse
    <3> QED BY <3>1, <3>2, <3>3, <3>4, <3>5, <3>6, <3>7, <3>9, <3>10, <3>11, <3>12 DEF TurnStep
  <2>1. ASSUME TypeOK, UNCHANGED vars PROVE TypeOK'
    BY <2>1 DEF TypeOK, vars
  <2> QED BY <2>1, <2>TickType1, <2>OtherType, <2>TurnType DEF Next
<1>SlotsInv. TypeOK /\ Slots /\ [Next]_vars => Slots'
  <2>TickSlots.
    \A s \in Schedulers : 
      TypeOK /\ Slots /\ (TickStep(s) \/ TickDies(s)) => Slots'
    \* Moving one tick to a place that is neither the compare-and-set nor the
    \* enqueue keeps the invariant.
    <3>ElsewhereSlots.
      ASSUME Slots, NEW s \in Schedulers, tick'[s].pc \notin {"cas", "enqueue"},
             \A t \in Schedulers : t # s => tick'[t] = tick[t], UNCHANGED <<slot, beats>>
      PROVE  Slots'
      BY <3>ElsewhereSlots DEF Slots, Winner
    <3> SUFFICES ASSUME TypeOK, Slots, NEW s \in Schedulers, TickStep(s) \/ TickDies(s)
                 PROVE  Slots'
      OBVIOUS
    <3>a. tick \in [Schedulers -> TickType] /\ beats \in 0 .. 2 /\ slot \in BOOLEAN
      BY DEF TypeOK
    <3> DEFINE away == /\ tick'[s].pc \notin {"cas", "enqueue"} /\ UNCHANGED <<slot, beats>>
                       /\ \A t \in Schedulers : t # s => tick'[t] = tick[t]
    <3>b. away => Slots'
      BY <3>ElsewhereSlots
    <3>1. CASE Look(s)
      <4>1. away
        BY <3>a, <3>1 DEF Look, TickType
      <4> QED BY <4>1, <3>b
    <3>2. CASE Decide(s)
      <4>1. away
        BY SMT, <3>a, <3>2 DEF Decide, TickType, TickIdle
      <4> QED BY <4>1, <3>b
    <3>3. CASE ReadSlot(s)
      <4>1. CASE slot
        <5>1. /\ tick' = [tick EXCEPT ![s].pc = "cas"]
              /\ UNCHANGED <<slot, beats>>
          BY <3>3, <4>1 DEF ReadSlot
        <5>2. tick'[s].pc = "cas" /\ \A t \in Schedulers : t # s => tick'[t] = tick[t]
          BY <3>a, <5>1 DEF TickType
        <5> QED BY <4>1, <5>1, <5>2 DEF Slots, Winner
      <4>2. CASE ~slot
        <5>1. away
          BY <3>a, <3>3, <4>2 DEF ReadSlot, TickType
        <5> QED BY <5>1, <3>b
      <4> QED BY <4>1, <4>2
    <3>4. CASE CasSlot(s) /\ tick[s].stale
      <4>1. away
        BY <3>a, <3>4 DEF CasSlot, TickType, TickIdle
      <4> QED BY <4>1, <3>b
    <3>5. CASE CasSlot(s) /\ ~tick[s].stale
      <4>1. /\ slot' = FALSE /\ beats' = beats
            /\ tick' = [Staled(s) EXCEPT ![s].pc = "enqueue"] /\ tick[s].pc = "cas"
        BY <3>5 DEF CasSlot
      <4>2. slot /\ beats = 0 /\ \A t \in Schedulers : ~Winner(t)
        BY <3>5, <4>1 DEF Slots
      <4>3. \A t \in Schedulers \ {s} : tick'[t] = IF tick[t].pc = "cas" THEN [tick[t] EXCEPT !.stale = TRUE]
                                                                        ELSE tick[t]
        BY <4>1 DEF Staled
      <4>4. \A t \in Schedulers \ {s} : /\ tick'[t].pc = "cas" => tick'[t].stale
                                        /\ ~(tick'[t].pc = "enqueue" /\ ~tick'[t].past)
        BY <3>a, <4>2, <4>3 DEF TickType, Winner
      <4>5. tick'[s].pc = "enqueue"
        BY <3>a, <4>1 DEF Staled, TickType
      <4> QED BY <4>1, <4>2, <4>4, <4>5 DEF Slots, Winner
    <3>6. CASE EnqueueHeartbeat(s)
      <4>1. /\ tick[s].pc = "enqueue" /\ slot' = slot /\ tick' = [tick EXCEPT ![s].pc = "advance"]
            /\ beats' = IF beats < 2 /\ ~tick[s].past THEN beats + 1 ELSE beats
        BY <3>6 DEF EnqueueHeartbeat
      <4>2. tick'[s].pc = "advance" /\ \A t \in Schedulers : t # s => tick'[t] = tick[t]
        BY <3>a, <4>1 DEF TickType
      <4>3. CASE tick[s].past
        BY SMT, <4>1, <4>2, <4>3 DEF Slots, Winner
      <4>4. CASE ~tick[s].past
        <5>1. beats = 0 /\ ~slot /\ \A t \in Schedulers : Winner(t) => t = s
          BY <4>1, <4>4 DEF Slots, Winner
        <5> QED BY SMT, <4>1, <4>2, <4>4, <5>1 DEF Slots, Winner
      <4> QED BY <4>3, <4>4
    <3>7. CASE Advance(s) \/ TickDies(s)
      <4>1. away
        BY SMT, <3>a, <3>7 DEF Advance, TickDies, TickType, TickIdle
      <4> QED BY <4>1, <3>b
    <3> QED BY <3>1, <3>2, <3>3, <3>4, <3>5, <3>6, <3>7 DEF TickStep
  \* A new slot finds no winner of its own; an edit only fails readers.
  <2>ClockSlots.
    ASSUME TypeOK, Slots, SlotComesDue \/ EditSettings
    PROVE  Slots'
    <3> USE <2>ClockSlots
    <3>a. tick \in [Schedulers -> TickType]
      BY DEF TypeOK
    <3>1. CASE SlotComesDue
      <4>1. /\ slot' = TRUE /\ beats' = 0
            /\ \A t \in Schedulers : tick'[t] = IF tick[t].pc = "enqueue"
                                                THEN [tick[t] EXCEPT !.past = TRUE] ELSE tick[t]
        BY <3>1 DEF SlotComesDue
      <4>2. \A t \in Schedulers : ~(tick'[t].pc = "enqueue" /\ ~tick'[t].past)
        BY <3>a, <4>1 DEF TickType
      <4> QED BY SMT, <4>1, <4>2 DEF Slots, Winner
    <3>2. CASE EditSettings
      <4>1. /\ UNCHANGED <<slot, beats>>
            /\ \A t \in Schedulers : tick'[t] = IF tick[t].pc = "cas"
                                                THEN [tick[t] EXCEPT !.stale = TRUE] ELSE tick[t]
        BY <3>2 DEF EditSettings
      <4>2. \A t \in Schedulers : /\ tick'[t].pc = "cas" => tick'[t].stale
                                  /\ tick'[t].pc = tick[t].pc /\ tick'[t].past = tick[t].past
        BY <3>a, <4>1 DEF TickType
      <4> QED BY <4>1, <4>2 DEF Slots, Winner
    <3> QED BY <3>1, <3>2
  <2> SUFFICES ASSUME TypeOK, Slots, [Next]_vars
               PROVE  Slots'
    OBVIOUS
  <2>1. ASSUME UNCHANGED <<tick, slot, beats>> PROVE Slots'
    BY <2>1 DEF Slots, Winner
  <2>2. CASE \E l \in Lanes : TurnStep(l) \/ Lapse(l)
    BY <2>1, <2>2
       DEF TurnStep, WorkerClaim, Gate, Sleep, EndSilent, Completed, EndReply, FinishReply,
       Cooldown, EndTargeted, EndOther, Failed, Reap, Lapse
  <2>3. CASE \/ UNCHANGED vars \/ TickScreenWatch \/ RowComesDue \/ CooldownEnds \/ BackoffEnds
             \/ GateTurns \/ Reset \/ ResetFails \/ Publish("open") \/ Publish("close")
    BY <2>1, <2>3 DEF vars, TickScreenWatch, RowComesDue, CooldownEnds, BackoffEnds, GateTurns,
       Reset, ResetFails, Publish
  <2> QED BY <2>2, <2>3, <2>TickSlots, <2>ClockSlots DEF Next, TimeStep
<1>1. Init => IInv
  <2> SUFFICES ASSUME Init PROVE Count /\ Notice /\ Slots
    BY <1>InitType DEF IInv
  <2> QED BY SMT, Bounds DEF Init, Count, Notice, Slots, Winner, TickIdle
<1>2. IInv /\ [Next]_vars => IInv'
  BY <1>NextType, CircuitInv, <1>SlotsInv DEF IInv
<1> QED BY <1>1, <1>2, PTL DEF Spec

\* Every value the schedule row, the wake jobs and the ticks take has its type.
THEOREM TypeCorrect == Spec => []TypeOK
BY Invariance, PTL DEF IInv

\* record_result_on_cursor opens the circuit only on Threshold failures of
\* turns begun after the last reset.
THEOREM OpeningIsEarned == Spec => []OpenIsEarned
<1>1. IInv => OpenIsEarned
  BY SMT, Bounds DEF IInv, TypeOK, RowType, Count, OpenIsEarned
<1> QED BY <1>1, Invariance, PTL

\* Once every publish call has run, the notice shows exactly an open circuit.
THEOREM NoticeIsTrue == Spec => []NoticeSettles
<1>1. IInv => NoticeSettles
  BY SMT DEF IInv, TypeOK, RowType, Notice, NoticeSettles
<1> QED BY <1>1, Invariance, PTL

\* Only reset() closes an open circuit.
THEOREM OnlyResetCloses == Spec => OpenUntilReset
<1>1. IInv /\ [Next]_vars => [row.open /\ ~row'.open => resets' = resets + 1]_vars
  BY CircuitInv DEF IInv
<1> QED BY <1>1, Invariance, PTL DEF Spec, OpenUntilReset

\* A heartbeat slot is enqueued at most once, however many processes tick.
THEOREM SlotBeatsOnce == Spec => []OneBeatPerSlot
<1>1. IInv => OneBeatPerSlot
  BY DEF IInv, Slots, OneBeatPerSlot
<1> QED BY <1>1, Invariance, PTL

\* A nonempty set of numbers has a least element.
LEMMA LeastExists ==
  ASSUME NEW S, S \subseteq Nat, S # {}
  PROVE  \E m \in S : \A x \in S : m <= x
<1>1. PICK m \in S : \A x \in S \ {m} : <<x, m>> \notin OpToRel(<, Nat)
  BY NatLessThanWellFounded, WFMin
<1>2. \A x \in S : m <= x
  <2> TAKE x \in S
  <2>1. m \in Nat /\ x \in Nat
    OBVIOUS
  <2>2. x # m => ~(x < m)
    BY <1>1, <2>1 DEF OpToRel
  <2> QED BY SMT, <2>1, <2>2
<1> QED BY <1>2

(***************************************************************************)
(* Reminders, for every number of timers, jobs, passes, turns and          *)
(* disturbances.  The invariant RInv has three parts:                      *)
(*   ToldOK    a timer that was told is fired into a job that has ended    *)
(*             and has no notice left, and a notice stands for a job that  *)
(*             has ended: so neither the reply of a running job nor a      *)
(*             notice can name a timer that was told before;               *)
(*   TurnOK    a turn carries only notes fired into the job it runs;       *)
(*   Forkless  a series is named after the timer that began it, one        *)
(*             instance of it waits, and none once it is stopped.          *)
(***************************************************************************)
CONSTANTS MaxTimers, MaxJobs, MaxNow, PendingCap, MaxRounds, MaxTries, MaxSends, Dues, Repeats

VARIABLES jobs, notices, pass, author, wk, chat, enabled, now

Timers == INSTANCE Reminders

\* What is assumed of the constants.
TimerBounds ==
    MaxTimers \in Nat /\ MaxJobs \in Nat /\ Dues \subseteq Nat /\ Repeats \subseteq BOOLEAN

\* Timer and job ids are positive numbers.
LEMMA IdsAreNumbers ==
  ASSUME TimerBounds
  PROVE  Timers!TimerIds \subseteq Nat \ {0} /\ Timers!JobIds \subseteq Nat \ {0}
BY SMT DEF TimerBounds, Timers!TimerIds, Timers!JobIds

\* A new timer gets an id that has no row.
LEMMA NextTimerIsFresh ==
  ASSUME TimerBounds, Timers!FreshTimers # {}
  PROVE  Timers!NextTimer \in Timers!TimerIds /\ timers[Timers!NextTimer].status = "none"
<1>1. Timers!FreshTimers \subseteq Nat
  BY IdsAreNumbers DEF Timers!FreshTimers
<1>2. \E t \in Timers!FreshTimers : \A u \in Timers!FreshTimers : t <= u
  BY <1>1, LeastExists
<1>3. Timers!NextTimer \in Timers!FreshTimers
  BY <1>2 DEF Timers!NextTimer
<1> QED BY <1>3 DEF Timers!FreshTimers

TimerRow == [status : Timers!TimerStatus, due : Nat, repeat : BOOLEAN, series : Nat,
             stopped : BOOLEAN, claim : Nat, expired : BOOLEAN, job : Nat]
JobRow == [status : Timers!JobStatus, gen : Nat, tries : Nat, live : BOOLEAN]
PassFields == {"pc", "on", "todo", "t", "claim", "job", "keep", "victim"}
WorkerFields == {"pc", "job", "gen", "seen", "rounds", "notes"}

RowsOK == timers \in [Timers!TimerIds -> TimerRow] /\ jobs \in [Timers!JobIds -> JobRow]

\* A series is named by the timer that began it.
SeriesOK ==
    \A t \in Timers!TimerIds :
        /\ timers[t].series # 0 => /\ timers[t].series \in Timers!TimerIds
                                   /\ timers[timers[t].series].status # "none"
        /\ timers[t].repeat /\ timers[t].status # "none" => timers[t].series # 0

\* What holds of one pass between its steps.
PassOK(p) ==
    /\ p = [f \in PassFields |-> p[f]]
    /\ p.todo \subseteq Timers!TimerIds
    /\ p.pc \in {"submit", "mark", "explain", "block"} => p.t \in Timers!TimerIds
    /\ p.pc = "mark" => p.job \in Timers!JobIds

PassesOK == pass = [s \in Schedulers |-> pass[s]] /\ \A s \in Schedulers : PassOK(pass[s])

\* The turn carries only notes fired into the job it runs.
TurnOK ==
    /\ wk = [f \in WorkerFields |-> wk[f]]
    /\ wk.pc # "idle" => wk.job \in Timers!JobIds
    /\ \A t \in wk.notes : t \in Timers!TimerIds /\ timers[t].status = "fired"
        /\ timers[t].job = wk.job

\* A job that has ended, in one way or the other.
EndStatus == {"completed", "failed", "expired"}
Ended(j) == jobs[j].status \in EndStatus

\* A told timer was fired into a job that has ended and has no notice left.
ToldOK ==
    /\ told \in [Timers!TimerIds -> {0, 1}]
    /\ \A t \in Timers!TimerIds : told[t] = 1 =>
         /\ timers[t].status = "fired" /\ timers[t].job \in Timers!JobIds
         /\ Ended(timers[t].job) /\ timers[t].job \notin notices
    /\ \A j \in notices : j \in Timers!JobIds /\ Ended(j)

Forkless == SeriesOK /\ OneHeir /\ OnePerSlot
RInv == TimerBounds /\ RowsOK /\ PassesOK /\ TurnOK /\ ToldOK /\ Forkless

Waits(T, t) == T[t].status \in {"pending", "claimed"}

SoundRows(T) ==
    /\ \A t \in Timers!TimerIds : T[t].series # 0 =>
         T[t].series \in Timers!TimerIds /\ T[T[t].series].status # "none"
    /\ \A t \in Timers!TimerIds : T[t].repeat /\ T[t].status # "none" => T[t].series # 0
    /\ \A t, u \in Timers!TimerIds : Waits(T, t) /\ Waits(T, u) =>
         /\ T[t].series # 0 /\ T[t].series = T[u].series => t = u
         /\ T[t].due = T[u].due /\ T[t].repeat = T[u].repeat => t = u
    /\ \A t \in Timers!TimerIds : Waits(T, t) => ~T[t].stopped
    /\ \A t, v \in Timers!TimerIds :
         Waits(T, t) /\ T[t].series # 0 /\ T[v].series = T[t].series => ~T[v].stopped

\* Forkless as a predicate of the timer rows.
LEMMA ForklessIs == ASSUME RowsOK PROVE Forkless <=> SoundRows(timers)
<1>1. DOMAIN timers = Timers!TimerIds
  BY DEF RowsOK
<1> QED BY SMT, <1>1
           DEF Forkless, SeriesOK, OneHeir, OnePerSlot, SoundRows,
               PendingLike, Waits

\* Q waits for nothing that T did not wait for, and stops no series of which
\* an instance still waits.
Narrows(T, Q) ==
    /\ \A t \in Timers!TimerIds :
         /\ Q[t].due = T[t].due /\ Q[t].repeat = T[t].repeat /\ Q[t].series = T[t].series
         /\ Waits(Q, t) => Waits(T, t) /\ Q[t].stopped = T[t].stopped
         /\ Q[t].status # "none" <=> T[t].status # "none"
    /\ \A t, v \in Timers!TimerIds :
         Waits(Q, t) /\ T[t].series # 0 /\ T[v].series = T[t].series
             => Q[v].stopped = T[v].stopped

\* Timers that only stop waiting stay without a fork.
LEMMA NarrowingIsSound ==
  ASSUME NEW T, NEW Q, SoundRows(T), Narrows(T, Q)
  PROVE  SoundRows(Q)
<1>1. \A t \in Timers!TimerIds : Q[t].series # 0 =>
         Q[t].series \in Timers!TimerIds /\ Q[Q[t].series].status # "none"
  BY SMT DEF SoundRows, Narrows
<1>2. \A t \in Timers!TimerIds : Q[t].repeat /\ Q[t].status # "none" => Q[t].series # 0
  BY SMT DEF SoundRows, Narrows
<1>3. \A t, u \in Timers!TimerIds : Waits(Q, t) /\ Waits(Q, u) =>
         /\ Q[t].series # 0 /\ Q[t].series = Q[u].series => t = u
         /\ Q[t].due = Q[u].due /\ Q[t].repeat = Q[u].repeat => t = u
  BY SMT DEF SoundRows, Narrows
<1>4. \A t \in Timers!TimerIds : Waits(Q, t) => ~Q[t].stopped
  <2> SUFFICES ASSUME NEW t \in Timers!TimerIds, Waits(Q, t)
               PROVE  ~Q[t].stopped
    OBVIOUS
  <2>1. Q[t].stopped = T[t].stopped /\ Waits(T, t)
    BY DEF Narrows
  <2>2. ~T[t].stopped
    BY <2>1 DEF SoundRows
  <2> QED BY <2>1, <2>2
<1>5. \A t, v \in Timers!TimerIds :
         Waits(Q, t) /\ Q[t].series # 0 /\ Q[v].series = Q[t].series => ~Q[v].stopped
  BY SMT DEF SoundRows, Narrows
<1> QED BY <1>1, <1>2, <1>3, <1>4, <1>5 DEF SoundRows

\* A row that may be inserted beside the rows T as timer n.
Fits(T, n, r) ==
    /\ r.status = "pending" /\ ~r.stopped
    /\ \A t \in Timers!TimerIds : Waits(T, t) => ~(T[t].due = r.due /\ T[t].repeat = r.repeat)
    /\ r.repeat => r.series # 0
    /\ \/ r.series \in {0, n}
       \/ /\ r.series \in Timers!TimerIds /\ T[r.series].status # "none"
          /\ \A t \in Timers!TimerIds : Waits(T, t) => T[t].series # r.series
          /\ \A v \in Timers!TimerIds : T[v].series = r.series => ~T[v].stopped

\* A timer inserted where it fits (create_unique_pending, mark_fired)
\* forks no series.
LEMMA InsertIsSound ==
  ASSUME TimerBounds, NEW T \in [Timers!TimerIds -> TimerRow], SoundRows(T),
      NEW n \in Timers!TimerIds,
         T[n].status = "none", NEW r \in TimerRow, Fits(T, n, r)
  PROVE  SoundRows([T EXCEPT ![n] = r])
<1> DEFINE Q == [T EXCEPT ![n] = r]
<1>0. Q[n] = r /\ \A t \in Timers!TimerIds : t # n => Q[t] = T[t]
  OBVIOUS
<1> HIDE DEF Q
<1>a. \A t \in Timers!TimerIds : T[t].series # n
  BY IdsAreNumbers DEF SoundRows
<1>b. ~Waits(T, n) /\ Waits(Q, n) /\ \A t \in Timers!TimerIds : t # n
          => (Waits(Q, t) <=> Waits(T, t))
  BY <1>0 DEF Waits, Fits
<1>1. \A t \in Timers!TimerIds : Q[t].series # 0 =>
         Q[t].series \in Timers!TimerIds /\ Q[Q[t].series].status # "none"
  <2> SUFFICES ASSUME NEW t \in Timers!TimerIds, Q[t].series # 0
               PROVE  Q[t].series \in Timers!TimerIds /\ Q[Q[t].series].status # "none"
    OBVIOUS
  <2>1. CASE t = n
    BY <2>1, <1>0 DEF Fits
  <2>2. CASE t # n
    BY SMT, <2>2, <1>0, <1>a DEF SoundRows
  <2> QED BY <2>1, <2>2
<1>2. \A t \in Timers!TimerIds : Q[t].repeat /\ Q[t].status # "none" => Q[t].series # 0
  BY SMT, <1>0 DEF SoundRows, Fits
<1>3. \A t, u \in Timers!TimerIds : Waits(Q, t) /\ Waits(Q, u) =>
         /\ Q[t].series # 0 /\ Q[t].series = Q[u].series => t = u
         /\ Q[t].due = Q[u].due /\ Q[t].repeat = Q[u].repeat => t = u
  BY SMT, <1>0, <1>a, <1>b DEF SoundRows, Fits
<1>4. \A t \in Timers!TimerIds : Waits(Q, t) => ~Q[t].stopped
  BY <1>0, <1>b DEF SoundRows, Fits
<1>5. \A t, v \in Timers!TimerIds :
         Waits(Q, t) /\ Q[t].series # 0 /\ Q[v].series = Q[t].series => ~Q[v].stopped
  BY SMT, <1>0, <1>a, <1>b DEF SoundRows, Fits
<1>6. SoundRows(Q)
  BY <1>1, <1>2, <1>3, <1>4, <1>5 DEF SoundRows
<1> QED BY <1>6 DEF Q

\* What a row may become: an end is final, and no row is forgotten.
RowMoves(r, q) ==
    /\ r.status \in {"fired", "canceled", "blocked"} => q.status = r.status /\ q.job = r.job
    /\ r.status # "none" => q.status # "none"

TimersMove(T, Q) ==
    Q \in [Timers!TimerIds -> TimerRow] /\ \A t \in Timers!TimerIds : RowMoves(T[t], Q[t])

\* One row moves on, and is not put back to wait under another name.
LEMMA RowMovesOn ==
  ASSUME RowsOK, NEW t \in Timers!TimerIds, NEW q \in TimerRow,
         q.due = timers[t].due, q.repeat = timers[t].repeat, q.series = timers[t].series,
         q.stopped = timers[t].stopped, timers[t].status \in {"pending", "claimed"},
         q.status # "none"
  PROVE  /\ TimersMove(timers, [timers EXCEPT ![t] = q])
         /\ Narrows(timers, [timers EXCEPT ![t] = q])
<1> DEFINE Q == [timers EXCEPT ![t] = q]
<1>1. /\ Q \in [Timers!TimerIds -> TimerRow] /\ Q[t] = q
      /\ \A u \in Timers!TimerIds : u # t => Q[u] = timers[u]
  BY DEF RowsOK
<1> HIDE DEF Q
<1>2. \A u \in Timers!TimerIds : Q[u].stopped = timers[u].stopped
  BY <1>1
<1>3. TimersMove(timers, Q)
  BY <1>1 DEF TimersMove, RowMoves
<1>4. Narrows(timers, Q)
  BY <1>1, <1>2 DEF Narrows, Waits
<1> QED BY <1>3, <1>4 DEF Q

\* An insert changes no existing timer.
LEMMA InsertedRows ==
  ASSUME NEW T \in [Timers!TimerIds -> TimerRow], NEW n \in Timers!TimerIds,
      T[n].status = "none",
         NEW r \in TimerRow, r.status # "none"
  PROVE  TimersMove(T, [T EXCEPT ![n] = r])
BY DEF TimersMove, RowMoves

\* Fired timers stay fired, so the notes of a turn stay its notes.
LEMMA TurnKept ==
  ASSUME RInv, TimersMove(timers, timers'), wk' = wk \/ wk' = Timers!WorkerIdle
  PROVE  TurnOK'
<1>1. CASE wk' = wk
  BY <1>1 DEF RInv, TurnOK, TimersMove, RowMoves
<1>2. CASE wk' = Timers!WorkerIdle
  BY <1>2 DEF TurnOK, Timers!WorkerIdle, WorkerFields
<1> QED BY <1>1, <1>2

\* ForklessIs after a step.
LEMMA ForklessIsNext == ASSUME RowsOK' PROVE Forkless' <=> SoundRows(timers')
<1>1. DOMAIN timers' = Timers!TimerIds
  BY DEF RowsOK
<1> QED BY SMT, <1>1
           DEF Forkless, SeriesOK, OneHeir, OnePerSlot, SoundRows,
               PendingLike, Waits

JobsMove ==
    /\ jobs' \in [Timers!JobIds -> JobRow]
    /\ \A j \in Timers!JobIds : Ended(j) => Ended(j)'
    /\ \A j \in notices' : j \in notices \/ (j \in Timers!JobIds /\ ~Ended(j) /\ Ended(j)')

\* While nothing is told, a told timer keeps its ended job.
LEMMA ToldKept ==
  ASSUME RInv, TimersMove(timers, timers'), JobsMove, told' = told
  PROVE  ToldOK' /\ RowsOK'
<1>1. RowsOK'
  BY DEF RowsOK, TimersMove, JobsMove
<1>2. \A t \in Timers!TimerIds : told[t] = 1 =>
         /\ timers'[t].status = "fired" /\ timers'[t].job \in Timers!JobIds
         /\ jobs'[timers'[t].job].status \in EndStatus /\ timers'[t].job \notin notices'
  <2> SUFFICES ASSUME NEW t \in Timers!TimerIds, told[t] = 1
               PROVE  /\ timers'[t].status = "fired" /\ timers'[t].job \in Timers!JobIds
                      /\ jobs'[timers'[t].job].status \in EndStatus
                          /\ timers'[t].job \notin notices'
    OBVIOUS
  <2>1. /\ timers[t].status = "fired" /\ timers[t].job \in Timers!JobIds
        /\ Ended(timers[t].job) /\ timers[t].job \notin notices
    BY DEF RInv, ToldOK
  <2>2. timers'[t].status = "fired" /\ timers'[t].job = timers[t].job
    BY <2>1 DEF TimersMove, RowMoves
  <2>3. PICK j \in Timers!JobIds : j = timers[t].job
    BY <2>1
  <2>4. Ended(j) /\ j \notin notices
    BY <2>1, <2>3
  <2>5. jobs'[j].status \in EndStatus /\ j \notin notices'
    BY <2>3, <2>4 DEF JobsMove, Ended
  <2> QED BY <2>2, <2>3, <2>5
<1>3. \A j \in notices' : j \in Timers!JobIds /\ Ended(j)'
  BY DEF RInv, ToldOK, JobsMove
<1> QED BY <1>1, <1>2, <1>3 DEF ToldOK, RInv, Ended

\* What every step does.
Moves == RInv' /\ TimersMove(timers, timers')

\* A step on the timer rows alone.
LEMMA TimerStep ==
  ASSUME RInv, TimersMove(timers, timers'), SoundRows(timers'), PassesOK',
         UNCHANGED <<jobs, notices, wk, told>>
  PROVE  Moves
<1>1. JobsMove
  BY DEF JobsMove, RInv, RowsOK, Ended
<1>2. ToldOK' /\ RowsOK' /\ TurnOK'
  BY <1>1, ToldKept, TurnKept
<1>3. Forkless'
  BY <1>2, ForklessIsNext
<1> QED BY <1>2, <1>3 DEF RInv, Moves, TimerBounds

\* A step that leaves the timers alone forks nothing.
LEMMA SameTimers ==
  ASSUME RInv, timers' = timers
  PROVE  TimersMove(timers, timers') /\ (RowsOK' => Forkless')
<1>1. TimersMove(timers, timers')
  BY DEF RInv, RowsOK, TimersMove, RowMoves
<1>2. SoundRows(timers')
  BY ForklessIs DEF RInv
<1> QED BY <1>1, <1>2, ForklessIsNext

\* A step that leaves the timer rows alone and tells nothing.
LEMMA OtherStep ==
  ASSUME RInv, timers' = timers, told' = told, JobsMove, PassesOK', TurnOK'
  PROVE  Moves
<1>1. ToldOK' /\ RowsOK'
  BY SameTimers, ToldKept
<1> QED BY <1>1, SameTimers DEF RInv, Moves, TimerBounds

\* A step that leaves the jobs alone revives none.
LEMMA SameJobs ==
  ASSUME RInv, UNCHANGED <<jobs, notices>>
  PROVE  JobsMove
BY DEF JobsMove, RInv, RowsOK, Ended

\* Canceling a timer moves the rows as allowed.
LEMMA CancelStep ==
  \A t : 
    RInv /\ timers' = Timers!Canceled(t) /\ PassesOK' /\ UNCHANGED <<jobs, notices, wk, told>> => Moves
<1>CanceledRows.
  ASSUME RowsOK, NEW t
  PROVE  TimersMove(timers, Timers!Canceled(t)) /\ Narrows(timers, Timers!Canceled(t))
  <2> USE <1>CanceledRows
  <2> DEFINE Q == Timers!Canceled(t)
             over(u) == IF Timers!PendingLike(u) THEN "canceled" ELSE timers[u].status
  <2>1. CASE timers[t].repeat
    <3>1. Q = [u \in Timers!TimerIds |->
                 IF timers[u].series # timers[t].series THEN timers[u]
                 ELSE [timers[u] EXCEPT !.stopped = TRUE, !.status = over(u)]]
      BY <2>1 DEF Timers!Canceled
    <3>2. \A u \in Timers!TimerIds :
            /\ over(u) \in Timers!TimerStatus /\ over(u) \notin {"pending", "claimed"}
            /\ over(u) # "none" <=> timers[u].status # "none"
            /\ timers[u].status \in {"fired", "canceled", "blocked"} => over(u) = timers[u].status
      BY DEF RowsOK, TimerRow, Timers!TimerStatus, Timers!PendingLike
    <3> HIDE DEF over
    <3>3. ASSUME NEW u \in Timers!TimerIds, timers[u].series = timers[t].series
          PROVE  /\ Q[u] \in TimerRow /\ Q[u].status = over(u) /\ Q[u].job = timers[u].job
                 /\ Q[u].due = timers[u].due /\ Q[u].repeat = timers[u].repeat
                 /\ Q[u].series = timers[u].series
      <4>1. Q[u] = [timers[u] EXCEPT !.stopped = TRUE, !.status = over(u)]
        BY <3>1, <3>3
      <4>2. timers[u] \in TimerRow
        BY DEF RowsOK
      <4> QED BY <3>2, <4>1, <4>2 DEF TimerRow
    <3>4. ASSUME NEW u \in Timers!TimerIds, timers[u].series # timers[t].series
          PROVE  Q[u] = timers[u] /\ Q[u] \in TimerRow
      BY <3>1, <3>4 DEF RowsOK
    <3> HIDE DEF Q
    <3>5. Q \in [Timers!TimerIds -> TimerRow]
      BY <3>1, <3>3, <3>4
    <3>6. \A u \in Timers!TimerIds : RowMoves(timers[u], Q[u])
      BY <3>2, <3>3, <3>4 DEF RowMoves
    <3>7. \A u \in Timers!TimerIds : Waits(Q, u) => timers[u].series # timers[t].series
      BY <3>2, <3>3 DEF Waits
    <3>8. Narrows(timers, Q)
      BY SMT, <3>2, <3>3, <3>4, <3>7 DEF Narrows, Waits
    <3> QED BY <3>5, <3>6, <3>8 DEF TimersMove, Q
  <2>2. CASE ~timers[t].repeat /\ Timers!PendingLike(t) /\ t \in Timers!TimerIds
    <3>1. Q = [timers EXCEPT ![t].status = "canceled"]
      BY <2>2 DEF Timers!Canceled
    <3>2. /\ Q \in [Timers!TimerIds -> TimerRow] /\ Q[t].status = "canceled"
          /\ Q[t].due = timers[t].due /\ Q[t].repeat = timers[t].repeat
          /\ Q[t].series = timers[t].series /\ Q[t].stopped = timers[t].stopped
          /\ \A u \in Timers!TimerIds : u # t => Q[u] = timers[u]
          /\ \A u \in Timers!TimerIds : Q[u].stopped = timers[u].stopped
      BY SMT, <2>2, <3>1 DEF RowsOK, TimerRow, Timers!TimerStatus
    <3> HIDE DEF Q
    <3> QED BY <2>2, <3>2 DEF TimersMove, RowMoves, Narrows, Waits, Timers!PendingLike, Q
  <2>3. CASE ~timers[t].repeat /\ ~(Timers!PendingLike(t) /\ t \in Timers!TimerIds)
    <3>1. Q = timers
      BY <2>3 DEF Timers!Canceled, RowsOK
    <3> QED BY <3>1 DEF TimersMove, RowMoves, Narrows, RowsOK
  <2> QED BY <2>1, <2>2, <2>3
<1> SUFFICES ASSUME RInv, NEW t, timers' = Timers!Canceled(t), PassesOK',
             UNCHANGED <<jobs, notices, wk, told>>
             PROVE  Moves
  OBVIOUS
<1>1. TimersMove(timers, timers') /\ Narrows(timers, timers')
  BY <1>CanceledRows DEF RInv
<1>2. SoundRows(timers')
  BY <1>1, ForklessIs, NarrowingIsSound DEF RInv
<1> QED BY <1>1, <1>2, TimerStep

\* One waiting row moves on.
LEMMA RowStep ==
  ASSUME RInv, PassesOK', UNCHANGED <<jobs, notices, wk, told>>,
         NEW t \in Timers!TimerIds, NEW q \in TimerRow, timers' = [timers EXCEPT ![t] = q],
         q.due = timers[t].due, q.repeat = timers[t].repeat, q.series = timers[t].series,
         q.stopped = timers[t].stopped, timers[t].status \in {"pending", "claimed"},
         q.status # "none"
  PROVE  Moves
<1>1. TimersMove(timers, timers') /\ Narrows(timers, timers')
  BY RowMovesOn DEF RInv
<1>2. SoundRows(timers')
  BY <1>1, ForklessIs, NarrowingIsSound DEF RInv
<1> QED BY <1>1, <1>2, TimerStep

(* The scheduler passes.                                                   *)
LEMMA PassSteps ==
  \A s \in Schedulers :
    /\ RInv
    /\ \/ Timers!StartPass(s) \/ Timers!EndPass(s) \/ Timers!PassCap(s) \/ Timers!CrashPass(s)
       \/ Timers!ClaimDue(s) \/ Timers!Submit(s) \/ Timers!Explain(s) \/ Timers!MarkFired(s)
       \/ Timers!PassEvict(s) \/ Timers!MarkBlocked(s)
    => Moves
\* One pass moves, the others stand.
<1>PassMoves.
  ASSUME RInv, NEW s \in Schedulers, NEW p, pass' = [pass EXCEPT ![s] = p], PassOK(p)
  PROVE  PassesOK'
  BY <1>PassMoves DEF RInv, PassesOK
<1>NextUpOK.
  ASSUME RInv, NEW s \in Schedulers
  PROVE  /\ PassOK(Timers!NextUp(s)) /\ PassOK(Timers!PassIdle)
         /\ \A h : PassOK(Timers!Capping(s, h))
  <2> USE <1>NextUpOK
  <2>1. PassOK(Timers!PassIdle)
    BY DEF PassOK, Timers!PassIdle, PassFields
  <2>2. pass[s].todo \subseteq Timers!TimerIds
    BY DEF RInv, PassesOK, PassOK
  <2>3. PassOK(Timers!NextUp(s))
    BY <2>2 DEF PassOK, Timers!PassIdle, PassFields, Timers!NextUp
  <2>4. ASSUME NEW h PROVE PassOK(Timers!Capping(s, h))
    BY <2>2 DEF PassOK, Timers!PassIdle, PassFields, Timers!NextUp, Timers!Capping
  <2> QED BY <2>1, <2>3, <2>4
<1>ClaimDueStep. \A s \in Schedulers : RInv /\ Timers!ClaimDue(s) => Moves
  \* The candidate of a pass is one of its list.
  <2>LeastIsListed.
    ASSUME TimerBounds, RowsOK, NEW S, S \subseteq Timers!TimerIds, S # {}
    PROVE  Timers!Least(S) \in S
    <3> USE <2>LeastIsListed
    <3> DEFINE dues == {timers[u].due : u \in S}
    <3>1. dues \subseteq Nat /\ dues # {}
      BY SMT DEF RowsOK, TimerRow
    <3>2. PICK d \in dues : \A e \in dues : d <= e
      BY <3>1, LeastExists
    <3> DEFINE first == {u \in S : timers[u].due = d}
    <3>3. first # {} /\ first \subseteq Nat
      BY <3>2, IdsAreNumbers
    <3>4. PICK t \in first : \A u \in first : t <= u
      <4> HIDE DEF first
      <4> QED BY <3>3, LeastExists
    <3>5. \A u \in S : timers[t].due < timers[u].due \/ (timers[t].due = timers[u].due /\ t <= u)
      <4> TAKE u \in S
      <4>1. timers[u].due \in dues /\ timers[t].due = d /\ t \in S
        BY <3>4
      <4>2. d <= timers[u].due /\ d \in Nat /\ timers[u].due \in Nat
        BY <4>1, <3>1, <3>2
      <4> QED BY SMT, <4>1, <4>2, <3>4
    <3> QED BY <3>4, <3>5 DEF Timers!Least
  <2> SUFFICES ASSUME RInv, NEW s \in Schedulers, Timers!ClaimDue(s)
               PROVE  Moves
    OBVIOUS
  <2>1. PassOK(pass[s]) /\ RowsOK
    BY DEF RInv, PassesOK
  <2>2. PICK t : t = Timers!Least(pass[s].todo)
    OBVIOUS
  <2>3. t \in Timers!TimerIds /\ pass[s].todo \ {t} \subseteq Timers!TimerIds
    BY <2>1, <2>2, <2>LeastIsListed DEF PassOK, Timers!ClaimDue, RInv
  <2>4. CASE Timers!Due(t)
    <3> DEFINE c == timers[t].claim + 1
               q == [timers[t] EXCEPT !.status = "claimed", !.claim = c, !.expired = FALSE]
               p == [pass[s] EXCEPT !.pc = IF pass[s].on THEN "submit" ELSE "explain",
                                    !.todo = pass[s].todo \ {t}, !.t = t, !.claim = c]
    <3>1. timers' = [timers EXCEPT ![t] = q] /\ timers[t] \in TimerRow
      BY <2>1, <2>2, <2>3, <2>4 DEF Timers!ClaimDue, RowsOK
    <3>2. pass' = [pass EXCEPT ![s] = p]
      BY <2>2, <2>4 DEF Timers!ClaimDue, RInv, PassesOK
    <3>3. /\ q \in TimerRow /\ q.due = timers[t].due /\ q.repeat = timers[t].repeat
          /\ q.series = timers[t].series /\ q.stopped = timers[t].stopped
          /\ q.status = "claimed"
      <4>1. c \in Nat
        BY SMT, <3>1 DEF TimerRow
      <4> HIDE DEF c
      <4> QED BY <3>1, <4>1 DEF TimerRow, Timers!TimerStatus
    <3>4. PassOK(p)
      BY <2>1, <2>3 DEF PassOK, PassFields
    <3> HIDE DEF p, q
    <3>5. PassesOK'
      BY <3>2, <3>4, <1>PassMoves
    <3>6. timers[t].status \in {"pending", "claimed"}
      BY <2>4 DEF Timers!Due
    <3> QED BY <2>3, <3>1, <3>3, <3>5, <3>6, RowStep DEF Timers!ClaimDue
  <2>5. CASE ~Timers!Due(t)
    <3> DEFINE p == [pass[s] EXCEPT !.todo = pass[s].todo \ {t}]
    <3>1. pass' = [pass EXCEPT ![s] = p] /\ timers' = timers
      BY <2>2, <2>5 DEF Timers!ClaimDue, RInv, PassesOK
    <3>2. PassOK(p)
      BY <2>1, <2>3 DEF PassOK, PassFields
    <3> HIDE DEF p
    <3>3. PassesOK'
      BY <3>1, <3>2, <1>PassMoves
    <3> QED BY <3>1, <3>3, OtherStep, SameJobs, TurnKept, SameTimers DEF Timers!ClaimDue
  <2> QED BY <2>4, <2>5
<1>SubmitStep.
  \A s \in Schedulers : 
    RInv /\ (Timers!Submit(s) \/ Timers!Explain(s)) => Moves
  <2>SubmitJobs. RInv /\ Timers!CanEnqueue /\ Timers!Enqueue => JobsMove /\
                 Timers!EnqueuedId \in Timers!JobIds
    <3>NextJobIsFresh.
      ASSUME TimerBounds, Timers!FreshJobs # {}
      PROVE  Timers!NextJob \in Timers!JobIds /\ jobs[Timers!NextJob].status = "none"
      <4> USE <3>NextJobIsFresh
      <4>1. Timers!FreshJobs \subseteq Nat
        BY IdsAreNumbers DEF Timers!FreshJobs
      <4>2. \E t \in Timers!FreshJobs : \A u \in Timers!FreshJobs : t <= u
        BY <4>1, LeastExists
      <4>3. Timers!NextJob \in Timers!FreshJobs
        BY <4>2 DEF Timers!NextJob
      <4> QED BY <4>3 DEF Timers!FreshJobs
    <3> SUFFICES ASSUME RInv, Timers!CanEnqueue, Timers!Enqueue
                 PROVE  JobsMove /\ Timers!EnqueuedId \in Timers!JobIds
      OBVIOUS
    <3>0. RowsOK
      BY DEF RInv
    <3>1. CASE \E j \in Timers!ActiveJobs : jobs[j].live
      <4>1. Timers!EnqueuedId \in Timers!ActiveJobs
        BY <3>1 DEF Timers!EnqueuedId
      <4>2. PICK j \in Timers!JobIds : j = Timers!EnqueuedId
        BY <4>1 DEF Timers!ActiveJobs
      <4> DEFINE q == [jobs[j] EXCEPT !.gen = jobs[j].gen + 1]
      <4>3. jobs' = [jobs EXCEPT ![j] = q] /\ jobs[j] \in JobRow /\ notices' = notices
        BY <3>0, <3>1, <4>2 DEF Timers!Enqueue, RowsOK
      <4>4. q \in JobRow /\ q.status = jobs[j].status
        BY SMT, <4>3 DEF JobRow
      <4> HIDE DEF q
      <4> QED BY <3>0, <4>2, <4>3, <4>4 DEF JobsMove, RowsOK, Ended
    <3>2. CASE ~ \E j \in Timers!ActiveJobs : jobs[j].live
      <4>1. Timers!NextJob \in Timers!JobIds /\ jobs[Timers!NextJob].status = "none"
                /\ Timers!EnqueuedId = Timers!NextJob
        BY <3>2, <3>NextJobIsFresh DEF Timers!CanEnqueue, Timers!EnqueuedId, RInv
      <4>2. PICK n \in Timers!JobIds : n = Timers!NextJob
        BY <4>1
      <4>3. /\ jobs' = [j \in Timers!JobIds |->
                         IF j = n THEN [Timers!NoJob EXCEPT !.status = "pending"]
                         ELSE IF Timers!Active(j) THEN [jobs[j] EXCEPT !.status = "expired"]
                         ELSE jobs[j]]
            /\ notices' = notices \cup Timers!ActiveJobs
        BY <3>2, <4>2 DEF Timers!Enqueue
      <4>4. [Timers!NoJob EXCEPT !.status = "pending"] \in JobRow
        BY DEF Timers!NoJob, JobRow, Timers!JobStatus
      <4>5. \A j \in Timers!JobIds : LET e == [jobs[j] EXCEPT !.status = "expired"]
                              IN  e \in JobRow /\ e.status = "expired" /\ jobs[j] \in JobRow
        BY <3>0 DEF RowsOK, JobRow, Timers!JobStatus
      <4>6. jobs' \in [Timers!JobIds -> JobRow]
        BY <4>3, <4>4, <4>5
      <4>7. \A j \in Timers!JobIds : Timers!Active(j) /\ j # n => jobs'[j].status = "expired"
        BY <4>3, <4>5
      <4>8. ~Timers!Active(n) /\ ~Ended(n)
        BY <4>1, <4>2 DEF Timers!Active, Ended, EndStatus
      <4>9. \A j \in Timers!JobIds : Ended(j) => ~Timers!Active(j) /\ jobs'[j] = jobs[j]
        BY <4>3, <4>8 DEF Timers!Active, Ended, EndStatus
      <4>10. \A j \in notices' : j \in notices \/ (j \in Timers!JobIds /\ ~Ended(j) /\ Ended(j)')
        BY <4>3, <4>7, <4>8 DEF Timers!ActiveJobs, Timers!Active, Ended, EndStatus
      <4> QED BY <4>1, <4>6, <4>9, <4>10 DEF JobsMove, Ended
    <3> QED BY <3>1, <3>2
  <2> SUFFICES ASSUME RInv, NEW s \in Schedulers, Timers!Submit(s) \/ Timers!Explain(s)
               PROVE  Moves
    OBVIOUS
  <2>1. Timers!CanEnqueue /\ Timers!Enqueue /\ UNCHANGED <<timers, wk, told>>
    BY DEF Timers!Submit, Timers!Explain
  <2>2. JobsMove /\ Timers!EnqueuedId \in Timers!JobIds
    BY <2>1, <2>SubmitJobs
  <2>3. PassOK(pass[s]) /\ pass = [x \in Schedulers |-> pass[x]]
    BY DEF RInv, PassesOK
  <2>4. CASE Timers!Submit(s)
    <3> DEFINE p == [pass[s] EXCEPT !.pc = "mark", !.job = Timers!EnqueuedId]
    <3>1. pass' = [pass EXCEPT ![s] = p] /\ pass[s].pc = "submit"
      BY <2>3, <2>4 DEF Timers!Submit
    <3>2. PassOK(p)
      BY <2>2, <2>3, <3>1 DEF PassOK, PassFields
    <3> HIDE DEF p
    <3>3. PassesOK'
      BY <3>1, <3>2, <1>PassMoves
    <3> QED BY <2>1, <2>2, <3>3, OtherStep, TurnKept, SameTimers
  <2>5. CASE Timers!Explain(s)
    <3> DEFINE p == [pass[s] EXCEPT !.pc = "block"]
    <3>1. pass' = [pass EXCEPT ![s] = p] /\ pass[s].pc = "explain"
      BY <2>3, <2>5 DEF Timers!Explain
    <3>2. PassOK(p)
      BY <2>2, <2>3, <3>1 DEF PassOK, PassFields
    <3> HIDE DEF p
    <3>3. PassesOK'
      BY <3>1, <3>2, <1>PassMoves
    <3> QED BY <2>1, <2>2, <3>3, OtherStep, TurnKept, SameTimers
  <2> QED BY <2>4, <2>5
<1>MarkFiredStep. \A s \in Schedulers : RInv /\ Timers!MarkFired(s) => Moves
  \* The rows after mark_fired: the instance is over, and its heir is the only
  \* one of its series and of its slot.
  <2>FireRows.
    \A s \in Schedulers : 
      RInv /\ pass[s].pc = "mark" /\ Timers!Held(s) /\ ~timers[pass[s].t].stopped /\
      Timers!Fire(s) => TimersMove(timers, timers') /\ SoundRows(timers')
    <3>MovesCompose.
      ASSUME NEW T, NEW Q, NEW R, TimersMove(T, Q), TimersMove(Q, R)
      PROVE  TimersMove(T, R)
      BY <3>MovesCompose DEF TimersMove, RowMoves
    <3> SUFFICES ASSUME RInv, NEW s \in Schedulers, pass[s].pc = "mark", Timers!Held(s),
                 ~timers[pass[s].t].stopped, Timers!Fire(s)
                 PROVE  TimersMove(timers, timers') /\ SoundRows(timers')
      OBVIOUS
    <3>0. TimerBounds
      BY DEF RInv
    <3>1. PICK t \in Timers!TimerIds, j \in Timers!JobIds : t = pass[s].t /\ j = pass[s].job
      BY DEF RInv, PassesOK, PassOK
    <3>2. timers[t].status = "claimed" /\ timers[t] \in TimerRow /\ RowsOK /\ SoundRows(timers)
              /\ j \in Nat
      BY <3>0, <3>1, IdsAreNumbers, ForklessIs DEF Timers!Held, RInv, RowsOK
    <3> DEFINE q == [timers[t] EXCEPT !.status = "fired", !.job = j]
               T == [timers EXCEPT ![t] = q]
    <3>3. T = [timers EXCEPT ![t].status = "fired", ![t].job = j]
      BY <3>2 DEF RowsOK
    <3>4. /\ q \in TimerRow /\ q.due = timers[t].due /\ q.repeat = timers[t].repeat
          /\ q.series = timers[t].series /\ q.stopped = timers[t].stopped
          /\ q.status = "fired"
      BY <3>2 DEF TimerRow, Timers!TimerStatus
    <3> HIDE DEF q
    <3>5. TimersMove(timers, T) /\ Narrows(timers, T)
      BY <3>2, <3>4, RowMovesOn
    <3>6. SoundRows(T) /\ T \in [Timers!TimerIds -> TimerRow]
      BY <3>2, <3>5, NarrowingIsSound DEF TimersMove
    <3>7. T[t] = q /\ \A u \in Timers!TimerIds : u # t => T[u] = timers[u]
      BY <3>2 DEF RowsOK
    <3>8. CASE timers' = T
      BY <3>5, <3>6, <3>8
    <3>9. CASE timers' # T
      <4> HIDE DEF T
      <4>1. /\ timers[t].repeat /\ Timers!FreshTimers # {} /\ Timers!Taken(t) = {}
            /\ timers' = [T EXCEPT ![Timers!NextTimer] =
                            Timers!PendingTimer(Timers!NextTimer, timers[t].due + 1, TRUE,
                                                timers[t].series)]
        BY <3>1, <3>3, <3>9 DEF Timers!Fire, Timers!Follows, Timers!InBounds
      <4>2. PICK n \in Timers!TimerIds : n = Timers!NextTimer /\ timers[n].status = "none"
        BY <3>0, <4>1, NextTimerIsFresh
      <4>3. timers[t].due + 1 \in Nat /\ timers[t].series \in Nat /\ timers[t].series # 0
        BY SMT, <3>2, <4>1 DEF TimerRow, SoundRows
      <4>a. PICK d \in Nat, e \in Nat : d = timers[t].due + 1 /\ e = timers[t].series
        BY <4>3
      <4> DEFINE r == Timers!PendingTimer(n, d, TRUE, e)
      <4>4. /\ r \in TimerRow /\ r.status = "pending" /\ ~r.stopped
            /\ r.due = timers[t].due + 1 /\ r.repeat = TRUE /\ r.series = timers[t].series
        <5>1. n \in Nat /\ e # 0
          BY <3>0, <4>3, <4>a, IdsAreNumbers
        <5> QED BY <4>a, <5>1
                   DEF Timers!PendingTimer, Timers!NoTimer, TimerRow, Timers!TimerStatus
      <4>5. timers' = [T EXCEPT ![n] = r]
        BY <4>1, <4>2, <4>a
      <4> HIDE DEF r
      <4>6. T[n].status = "none"
        BY <3>2, <3>7, <4>2
      <4>7. \A u \in Timers!TimerIds : Waits(T, u) => u # t /\ Waits(timers, u) /\ T[u] = timers[u]
        BY <3>4, <3>7 DEF Waits
      <4>8. \A u \in Timers!TimerIds : Waits(T, u) => ~(T[u].due = r.due /\ T[u].repeat = r.repeat)
        BY <4>1, <4>4, <4>7 DEF Timers!Taken, Timers!SameSlot, Timers!PendingLike, Waits
      <4>9. \A u \in Timers!TimerIds : Waits(T, u) => T[u].series # r.series
        BY SMT, <3>2, <4>3, <4>4, <4>7 DEF SoundRows, Waits
      <4>10. r.series \in Timers!TimerIds /\ T[r.series].status # "none"
        BY SMT, <3>2, <3>5, <4>3, <4>4 DEF SoundRows, TimersMove, RowMoves
      <4>11. \A v \in Timers!TimerIds : T[v].series = r.series => ~T[v].stopped
        BY SMT, <3>2, <3>4, <3>7, <4>3, <4>4 DEF SoundRows, Waits
      <4>12. Fits(T, n, r)
        BY <4>3, <4>4, <4>8, <4>9, <4>10, <4>11 DEF Fits
      <4>13. SoundRows(timers')
        BY <3>0, <3>6, <4>4, <4>5, <4>6, <4>12, InsertIsSound
      <4>14. TimersMove(T, timers')
        BY <3>6, <4>4, <4>5, <4>6, InsertedRows
      <4> QED BY <3>5, <4>13, <4>14, <3>MovesCompose
    <3> QED BY <3>8, <3>9
  <2> SUFFICES ASSUME RInv, NEW s \in Schedulers, Timers!MarkFired(s)
               PROVE  Moves
    OBVIOUS
  <2>1. CASE Timers!Held(s) /\ ~timers[pass[s].t].stopped
    <3>1. Timers!Fire(s) /\ pass[s].pc = "mark"
      BY <2>1 DEF Timers!MarkFired
    <3>2. TimersMove(timers, timers') /\ SoundRows(timers')
      BY <2>1, <3>1, <2>FireRows
    <3>3. \/ pass' = [pass EXCEPT ![s] = Timers!Capping(s, Timers!Heir(pass[s].t))]
          \/ pass' = [pass EXCEPT ![s] = Timers!NextUp(s)]
      BY <3>1 DEF Timers!Fire
    <3>4. PassesOK'
      BY <3>3, <1>NextUpOK, <1>PassMoves
    <3> QED BY <3>2, <3>4, TimerStep DEF Timers!MarkFired
  <2>2. CASE ~(Timers!Held(s) /\ ~timers[pass[s].t].stopped)
    <3>1. pass' = [pass EXCEPT ![s] = Timers!NextUp(s)]
              /\ UNCHANGED <<timers, jobs, notices, wk, told>>
      BY <2>2 DEF Timers!MarkFired
    <3>2. PassesOK'
      BY <3>1, <1>NextUpOK, <1>PassMoves
    <3> QED BY <3>1, <3>2, OtherStep, SameJobs, TurnKept, SameTimers
  <2> QED BY <2>1, <2>2
<1>MarkBlockedStep.
  ASSUME RInv, NEW s \in Schedulers, Timers!MarkBlocked(s)
  PROVE  Moves
  <2> USE <1>MarkBlockedStep
  <2>1. PassesOK' /\ UNCHANGED <<jobs, notices, wk, told>>
    BY <1>NextUpOK, <1>PassMoves DEF Timers!MarkBlocked
  <2>2. PICK t \in Timers!TimerIds : t = pass[s].t
    BY DEF RInv, PassesOK, PassOK, Timers!MarkBlocked
  <2>3. CASE Timers!Held(s)
    <3> DEFINE q == [timers[t] EXCEPT !.status = "blocked"]
    <3>1. timers' = [timers EXCEPT ![t] = q] /\ timers[t] \in TimerRow
              /\ timers[t].status = "claimed"
      BY <2>2, <2>3 DEF Timers!MarkBlocked, Timers!Held, RInv, RowsOK
    <3>2. /\ q \in TimerRow /\ q.due = timers[t].due /\ q.repeat = timers[t].repeat
          /\ q.series = timers[t].series /\ q.stopped = timers[t].stopped
          /\ q.status = "blocked"
      BY <3>1 DEF TimerRow, Timers!TimerStatus
    <3> HIDE DEF q
    <3> QED BY <2>1, <3>1, <3>2, RowStep
  <2>4. CASE ~Timers!Held(s)
    <3>1. timers' = timers
      BY <2>4 DEF Timers!MarkBlocked
    <3> QED BY <2>1, <3>1, OtherStep, SameJobs, TurnKept, SameTimers
  <2> QED BY <2>3, <2>4
\* The steps of a pass that only move its position.
<1>PassOnlyStep.
  ASSUME RInv, NEW s \in Schedulers,
         Timers!StartPass(s) \/ Timers!EndPass(s) \/ Timers!PassCap(s) \/ Timers!CrashPass(s)
  PROVE  Moves
  <2> USE <1>PassOnlyStep
  <2>1. UNCHANGED <<timers, jobs, notices, wk, told>>
    BY DEF Timers!StartPass, Timers!EndPass, Timers!PassCap, Timers!CrashPass
  <2>2. PassOK(pass[s])
    BY DEF RInv, PassesOK
  <2>3. ASSUME Timers!StartPass(s) PROVE PassesOK'
    <3> DEFINE p == [Timers!PassIdle EXCEPT !.pc = "next", !.on = enabled,
                       !.todo = {t \in Timers!TimerIds : Timers!Due(t)}]
    <3>1. PassOK(p)
      BY DEF PassOK, Timers!PassIdle, PassFields
    <3>2. pass' = [pass EXCEPT ![s] = p]
      BY <2>3 DEF Timers!StartPass
    <3> HIDE DEF p
    <3> QED BY <3>1, <3>2, <1>PassMoves
  <2>4. ASSUME Timers!PassCap(s) PROVE PassesOK'
    <3> DEFINE v == Timers!Oldest(Timers!PendingTimers \ {pass[s].keep})
               p == [pass[s] EXCEPT !.pc = "evict", !.victim = v]
    <3> HIDE DEF v
    <3>1. PassOK(p)
      BY <2>2 DEF PassOK, PassFields
    <3>2. pass' = [pass EXCEPT ![s] = p] \/ pass' = [pass EXCEPT ![s] = Timers!NextUp(s)]
      BY <2>4 DEF Timers!PassCap, v
    <3> HIDE DEF p
    <3> QED BY <3>1, <3>2, <1>PassMoves, <1>NextUpOK
  <2>5. ASSUME Timers!EndPass(s) \/ Timers!CrashPass(s) PROVE PassesOK'
    BY <2>5, <1>PassMoves, <1>NextUpOK DEF Timers!EndPass, Timers!CrashPass
  <2>6. PassesOK'
    BY <2>3, <2>4, <2>5
  <2> QED BY <2>1, <2>6, OtherStep, SameJobs, TurnKept, SameTimers
<1>PassEvictStep.
  ASSUME RInv, NEW s \in Schedulers, Timers!PassEvict(s)
  PROVE  Moves
  <2> USE <1>PassEvictStep
  <2> DEFINE p == [pass[s] EXCEPT !.pc = "cap", !.victim = 0]
  <2>1. PassOK(pass[s]) /\ pass = [x \in Schedulers |-> pass[x]]
    BY DEF RInv, PassesOK
  <2>2. PassOK(p)
    BY <2>1 DEF PassOK, PassFields
  <2>3. pass' = [pass EXCEPT ![s] = p]
    BY <2>1 DEF Timers!PassEvict
  <2> HIDE DEF p
  <2>4. PassesOK'
    BY <2>2, <2>3, <1>PassMoves
  <2> QED BY <2>4, CancelStep DEF Timers!PassEvict
<1> QED BY <1>PassOnlyStep, <1>ClaimDueStep, <1>SubmitStep, <1>MarkFiredStep,
           <1>PassEvictStep, <1>MarkBlockedStep

\* A step that leaves the passes alone keeps them sound.
LEMMA SamePasses == ASSUME RInv, pass' = pass PROVE PassesOK'
BY DEF RInv, PassesOK

(* schedule_wake, cancel_wake and the clock of the claims.                 *)
LEMMA AuthorSteps ==
  /\ RInv /\ Timers!AuthorEvict => Moves
  /\ \A due \in Dues, repeat \in Repeats : RInv /\ Timers!Schedule(due, repeat) => Moves
  /\ \A t \in Timers!TimerIds :
       RInv /\ (Timers!CancelTimer(t) \/ Timers!ClaimExpires(t)) => Moves
<1>ScheduleStep.
  \A due \in Dues : \A repeat \in Repeats : 
    RInv /\ Timers!Schedule(due, repeat) => Moves
  <2>PendingTimerRow.
    ASSUME TimerBounds, NEW n \in Timers!TimerIds, NEW due \in Nat, NEW repeat \in BOOLEAN,
        NEW series \in Nat
    PROVE  LET r == Timers!PendingTimer(n, due, repeat, series)
           IN  /\ r \in TimerRow /\ r.status = "pending" /\ ~r.stopped
               /\ r.due = due /\ r.repeat = repeat
               /\ r.series = IF repeat THEN (IF series = 0 THEN n ELSE series) ELSE 0
    <3> USE <2>PendingTimerRow
    <3>1. n \in Nat
      BY IdsAreNumbers
    <3> QED BY <3>1 DEF Timers!PendingTimer, Timers!NoTimer, TimerRow, Timers!TimerStatus
  <2> SUFFICES ASSUME RInv, NEW due \in Dues, NEW repeat \in Repeats, Timers!Schedule(due, repeat)
               PROVE  Moves
    OBVIOUS
  <2> DEFINE r == Timers!PendingTimer(Timers!NextTimer, due, repeat, 0)
  <2>0. TimerBounds
    BY DEF RInv
  <2>1. Timers!NextTimer \in Timers!TimerIds /\ timers[Timers!NextTimer].status = "none"
    BY <2>0, NextTimerIsFresh DEF Timers!Schedule
  <2>2. due \in Nat /\ repeat \in BOOLEAN
    BY <2>0 DEF TimerBounds
  <2>3. /\ r \in TimerRow /\ r.status = "pending" /\ ~r.stopped
        /\ r.due = due /\ r.repeat = repeat
        /\ r.series = IF repeat THEN Timers!NextTimer ELSE 0
    BY SMT, <2>0, <2>1, <2>2, <2>PendingTimerRow
  <2>4. timers' = [timers EXCEPT ![Timers!NextTimer] = r]
    BY DEF Timers!Schedule
  <2> HIDE DEF r
  <2>5. timers \in [Timers!TimerIds -> TimerRow] /\ SoundRows(timers) /\ Timers!NextTimer # 0
    BY <2>0, <2>1, ForklessIs, IdsAreNumbers DEF RInv, RowsOK
  <2>6. Fits(timers, Timers!NextTimer, r)
    BY <2>2, <2>3, <2>5
       DEF Fits, Waits, Timers!Schedule, Timers!SameSlot, Timers!PendingLike
  <2>7. SoundRows(timers')
    BY <2>0, <2>1, <2>3, <2>4, <2>5, <2>6, InsertIsSound
  <2>8. TimersMove(timers, timers')
    BY <2>1, <2>3, <2>4, <2>5, InsertedRows
  <2> QED BY <2>7, <2>8, TimerStep, SamePasses DEF Timers!Schedule
<1>ClaimExpiresStep.
  ASSUME RInv, NEW t \in Timers!TimerIds, Timers!ClaimExpires(t)
  PROVE  Moves
  <2> USE <1>ClaimExpiresStep
  <2> DEFINE q == [timers[t] EXCEPT !.expired = TRUE]
  <2>1. timers' = [timers EXCEPT ![t] = q] /\ timers[t] \in TimerRow
    BY DEF Timers!ClaimExpires, RInv, RowsOK
  <2>2. /\ q \in TimerRow /\ q.due = timers[t].due /\ q.repeat = timers[t].repeat
        /\ q.series = timers[t].series /\ q.stopped = timers[t].stopped
        /\ q.status = timers[t].status
    BY <2>1 DEF TimerRow
  <2> HIDE DEF q
  <2>3. PassesOK' /\ timers[t].status = "claimed"
    BY SamePasses DEF Timers!ClaimExpires
  <2> QED BY <2>1, <2>2, <2>3, RowStep DEF Timers!ClaimExpires
<1>1. RInv /\ Timers!AuthorEvict => Moves
  BY CancelStep, SamePasses DEF Timers!AuthorEvict
<1>2. \A t \in Timers!TimerIds : RInv /\ Timers!CancelTimer(t) => Moves
  BY CancelStep, SamePasses DEF Timers!CancelTimer
<1> QED BY <1>1, <1>2, <1>ScheduleStep, <1>ClaimExpiresStep

(* The worker, the job and its notice.                                     *)
LEMMA TurnSteps ==
  /\ RInv /\ (Timers!WorkerStep \/ Timers!Fail) => Moves
  /\ \A j \in Timers!JobIds :
       RInv /\ (Timers!JobLapses(j) \/ Timers!Reap(j) \/ Timers!ShowNotice(j)) => Moves
\* The steps of the turn that change job rows by status alone.
<1>StatusMoves.
  ASSUME RInv, NEW j \in Timers!JobIds, NEW q \in JobRow, jobs' = [jobs EXCEPT ![j] = q],
         ~Ended(j), \/ notices' = notices
                    \/ notices' = notices \cup {j} /\ q.status \in EndStatus
  PROVE  JobsMove
  <2> USE <1>StatusMoves
  <2>1. jobs' \in [Timers!JobIds -> JobRow] /\ jobs'[j] = q
            /\ \A k \in Timers!JobIds : k # j => jobs'[k] = jobs[k]
    BY DEF RInv, RowsOK
  <2> QED BY <2>1 DEF JobsMove, Ended
<1>FinishMoves.
  \A st \in EndStatus : 
    /\ RInv
    /\ wk.job \in Timers!JobIds
    /\ ~Ended(wk.job)
    /\ Timers!Finish(st)
    /\ \/ notices' = notices
       \/ notices' = notices \cup {wk.job}
    => JobsMove /\ jobs'[wk.job].status = st
  \* One job row with another status, lease flag or count of tries is a job row.
  <2>JobRowKept.
    ASSUME RInv, NEW j \in Timers!JobIds, NEW st \in Timers!JobStatus
    PROVE  /\ jobs[j] \in JobRow /\ jobs = [k \in Timers!JobIds |-> jobs[k]]
           /\ [jobs[j] EXCEPT !.status = st] \in JobRow
           /\ [jobs[j] EXCEPT !.status = st].status = st
    BY <2>JobRowKept DEF RInv, RowsOK, JobRow
  <2> SUFFICES ASSUME RInv, NEW st \in EndStatus, wk.job \in Timers!JobIds, ~Ended(wk.job),
               Timers!Finish(st),
               \/ notices' = notices
               \/ notices' = notices \cup {wk.job}
               PROVE  JobsMove /\ jobs'[wk.job].status = st
    OBVIOUS
  <2>1. PICK j \in Timers!JobIds : j = wk.job
    OBVIOUS
  <2> DEFINE q == [jobs[j] EXCEPT !.status = st]
  <2>2. st \in Timers!JobStatus
    BY DEF EndStatus, Timers!JobStatus
  <2>3. q \in JobRow /\ q.status = st
    BY <2>2, <2>JobRowKept
  <2>4. jobs' = [jobs EXCEPT ![j] = q] /\ jobs = [k \in Timers!JobIds |-> jobs[k]]
    BY <2>1, <2>2, <2>JobRowKept DEF Timers!Finish
  <2> HIDE DEF q
  <2>5. ~Ended(j) /\ (notices' = notices \/ notices' = notices \cup {j})
    BY <2>1
  <2>6. JobsMove
    BY <2>3, <2>4, <2>5, <1>StatusMoves
  <2> QED BY <2>1, <2>3, <2>4, <2>6
<1>OwnedRuns.
 ASSUME RInv, wk.pc # "idle", Timers!Owned
    PROVE wk.job \in Timers!JobIds /\ ~Ended(wk.job)
  BY <1>OwnedRuns DEF RInv, TurnOK, Timers!Owned, Ended, EndStatus
<1>WorkerClaimStep.
  ASSUME RInv, NEW j \in Timers!JobIds, Timers!WorkerClaim(j)
  PROVE  Moves
  <2> USE <1>WorkerClaimStep
  <2> DEFINE q == [jobs[j] EXCEPT !.status = "running", !.live = TRUE]
  <2>1. jobs[j] \in JobRow /\ jobs = [k \in Timers!JobIds |-> jobs[k]]
    BY DEF RInv, RowsOK
  <2>2. q \in JobRow
    BY <2>1 DEF JobRow, Timers!JobStatus
  <2>3. jobs' = [jobs EXCEPT ![j] = q] /\ ~Ended(j) /\ notices' = notices
    BY <2>1 DEF Timers!WorkerClaim, Ended, EndStatus
  <2> HIDE DEF q
  <2>4. JobsMove
    BY <2>2, <2>3, <1>StatusMoves
  <2>5. TurnOK'
    BY DEF Timers!WorkerClaim, TurnOK, Timers!WorkerIdle, WorkerFields
  <2> QED BY <2>4, <2>5, OtherStep, SamePasses DEF Timers!WorkerClaim
\* A turn that ends, with its job finished or not.
<1>TurnEnds.
  ASSUME RInv, JobsMove, wk' = Timers!WorkerIdle, UNCHANGED <<timers, pass, told>>
  PROVE  Moves
  BY <1>TurnEnds, OtherStep, SamePasses, TurnKept, SameTimers
<1>AssembleStep.
  ASSUME RInv, Timers!Assemble
  PROVE  Moves
  <2> USE <1>AssembleStep
  <2>1. CASE chat.sent > chat.answered
    <3>1. JobsMove
      <4>1. CASE Timers!Owned
        <5>1. wk.job \in Timers!JobIds /\ ~Ended(wk.job) /\ Timers!Finish("completed")
                  /\ "completed" \in EndStatus
          BY <2>1, <4>1, <1>OwnedRuns DEF Timers!Assemble, EndStatus
        <5> QED BY <5>1, <1>FinishMoves DEF Timers!Assemble
      <4>2. CASE ~Timers!Owned
        BY <2>1, <4>2, SameJobs DEF Timers!Assemble
      <4> QED BY <4>1, <4>2
    <3> QED BY <2>1, <3>1, <1>TurnEnds DEF Timers!Assemble
  <2>2. CASE ~(chat.sent > chat.answered)
    <3>1. wk' = [wk EXCEPT !.pc = "read", !.seen = chat.sent] /\ wk.pc = "assemble"
      BY <2>2 DEF Timers!Assemble
    <3>2. UNCHANGED <<timers, jobs, notices, pass, told>>
      BY <2>2 DEF Timers!Assemble
    <3>3. TurnOK'
      BY <3>1, <3>2 DEF RInv, TurnOK, WorkerFields
    <3> QED BY <3>2, <3>3, OtherStep, SameJobs, SamePasses
  <2> QED BY <2>1, <2>2
<1>ReadNotesStep.
  ASSUME RInv, Timers!ReadNotes
  PROVE  Moves
  <2> USE <1>ReadNotesStep
  <2>1. TurnOK'
    BY DEF Timers!ReadNotes, RInv, TurnOK, WorkerFields, Timers!FiredInto
  <2> QED BY <2>1, OtherStep, SameJobs, SamePasses DEF Timers!ReadNotes
<1>SupersededStep.
  ASSUME RInv, Timers!Superseded
  PROVE  Moves
  <2> USE <1>SupersededStep
  <2>1. CASE wk.rounds + 1 < MaxRounds
    <3>1. wk' = [wk EXCEPT !.rounds = wk.rounds + 1, !.seen = chat.sent]
      BY <2>1 DEF Timers!Superseded
    <3>2. UNCHANGED <<timers, jobs, notices, pass, told>> /\ wk.pc = "loop"
      BY <2>1 DEF Timers!Superseded
    <3>3. TurnOK'
      BY <3>1, <3>2 DEF RInv, TurnOK, WorkerFields
    <3> QED BY <3>2, <3>3, OtherStep, SameJobs, SamePasses
  <2>2. CASE ~(wk.rounds + 1 < MaxRounds)
    <3>1. wk.job \in Timers!JobIds /\ ~Ended(wk.job) /\ Timers!Finish("completed")
              /\ "completed" \in EndStatus
      BY <2>2, <1>OwnedRuns DEF Timers!Superseded, EndStatus
    <3>2. JobsMove
      BY <3>1, <1>FinishMoves DEF Timers!Superseded
    <3> QED BY <2>2, <3>2, <1>TurnEnds DEF Timers!Superseded
  <2> QED BY <2>1, <2>2
<1>FailStep.
  ASSUME RInv, Timers!Fail
  PROVE  Moves
  <2> USE <1>FailStep
  <2>1. wk.job \in Timers!JobIds /\ ~Ended(wk.job)
    BY <1>OwnedRuns DEF Timers!Fail
  <2>2. PICK j \in Timers!JobIds : j = wk.job
    BY <2>1
  <2>3. JobsMove
    <3>1. CASE Timers!Finish("failed") /\ notices' = notices \cup {wk.job}
      BY <2>1, <3>1, <1>FinishMoves DEF EndStatus
    <3>2. CASE ~(Timers!Finish("failed") /\ notices' = notices \cup {wk.job})
      <4> DEFINE q == [jobs[j] EXCEPT !.status = "pending", !.tries = jobs[j].tries + 1]
      <4>1. jobs[j] \in JobRow /\ jobs = [k \in Timers!JobIds |-> jobs[k]]
        BY DEF RInv, RowsOK
      <4>2. q \in JobRow
        <5>1. PICK n \in Nat : n = jobs[j].tries + 1
          BY SMT, <4>1 DEF JobRow
        <5> QED BY <4>1, <5>1 DEF JobRow, Timers!JobStatus
      <4>3. jobs' = [jobs EXCEPT ![j] = q] /\ ~Ended(j) /\ notices' = notices
        BY <2>1, <2>2, <3>2, <4>1 DEF Timers!Fail
      <4> HIDE DEF q
      <4> QED BY <4>2, <4>3, <1>StatusMoves
    <3> QED BY <3>1, <3>2
  <2> QED BY <2>3, <1>TurnEnds DEF Timers!Fail
<1>JobStep.
  ASSUME RInv, NEW j \in Timers!JobIds, Timers!JobLapses(j) \/ Timers!Reap(j)
  PROVE  Moves
  <2> USE <1>JobStep
  <2>1. jobs[j] \in JobRow /\ jobs = [k \in Timers!JobIds |-> jobs[k]] /\ ~Ended(j)
    BY DEF RInv, RowsOK, Timers!JobLapses, Timers!Reap, Ended, EndStatus
  <2>2. JobsMove
    <3>1. CASE Timers!JobLapses(j)
      <4> DEFINE q == [jobs[j] EXCEPT !.live = FALSE]
      <4>1. jobs' = [jobs EXCEPT ![j] = q] /\ notices' = notices /\ q \in JobRow
        BY <2>1, <3>1 DEF Timers!JobLapses, JobRow
      <4> HIDE DEF q
      <4> QED BY <2>1, <4>1, <1>StatusMoves
    <3>2. CASE Timers!Reap(j)
      <4> DEFINE q == [jobs[j] EXCEPT !.status = "expired"]
      <4>1. /\ jobs' = [jobs EXCEPT ![j] = q] /\ notices' = notices \cup {j}
            /\ q \in JobRow /\ q.status \in EndStatus
        BY <2>1, <3>2 DEF Timers!Reap, JobRow, Timers!JobStatus, EndStatus
      <4> HIDE DEF q
      <4> QED BY <2>1, <4>1, <1>StatusMoves
    <3> QED BY <3>1, <3>2
  <2>3. UNCHANGED <<timers, pass, wk, told>>
    BY DEF Timers!JobLapses, Timers!Reap
  <2> QED BY <2>2, <2>3, OtherStep, SamePasses, TurnKept, SameTimers
\* Telling the untold notes of a job that has ended and has no notice left.
<1>Telling.
  ASSUME RInv, timers' = timers, RowsOK', NEW j \in Timers!JobIds, NEW S, Timers!Tell(S),
         \A t \in S : t \in Timers!TimerIds /\ timers[t].status = "fired"
             /\ timers[t].job = j /\ told[t] = 0,
         jobs'[j].status \in EndStatus, j \notin notices',
         \A k \in Timers!JobIds : Ended(k) => jobs'[k].status \in EndStatus,
         notices' \subseteq notices
  PROVE  ToldOK'
  <2> USE <1>Telling
  <2>1. told' = [t \in Timers!TimerIds |-> IF t \in S THEN told[t] + 1 ELSE told[t]]
    BY DEF Timers!Tell
  <2>2. told \in [Timers!TimerIds -> {0, 1}]
    BY DEF RInv, ToldOK
  <2>3. \A t \in Timers!TimerIds : told'[t] = (IF t \in S THEN 1 ELSE told[t])
            /\ told'[t] \in {0, 1}
    BY SMT, <2>1, <2>2
  <2>4. ASSUME NEW t \in Timers!TimerIds, told'[t] = 1
        PROVE  /\ timers[t].status = "fired" /\ timers[t].job \in Timers!JobIds
               /\ jobs'[timers[t].job].status \in EndStatus /\ timers[t].job \notin notices'
    <3>1. CASE t \in S
      BY <3>1
    <3>2. CASE t \notin S
      <4>1. /\ timers[t].status = "fired" /\ timers[t].job \in Timers!JobIds
            /\ Ended(timers[t].job) /\ timers[t].job \notin notices
        BY <2>3, <2>4, <3>2 DEF RInv, ToldOK
      <4> QED BY <4>1
    <3> QED BY <3>1, <3>2
  <2>5. \A k \in notices' : k \in Timers!JobIds /\ jobs'[k].status \in EndStatus
    BY DEF RInv, ToldOK
  <2> QED BY <2>1, <2>3, <2>4, <2>5 DEF ToldOK, Ended
<1>ReplyStep.
  ASSUME RInv, Timers!Reply
  PROVE  Moves
  <2> USE <1>ReplyStep
  <2>1. wk.job \in Timers!JobIds /\ ~Ended(wk.job) /\ "completed" \in EndStatus
    BY <1>OwnedRuns DEF Timers!Reply, EndStatus
  <2>2. PICK j \in Timers!JobIds : j = wk.job
    BY <2>1
  <2>3. /\ Timers!Finish("completed") /\ Timers!Tell(wk.notes) /\ notices' = notices
        /\ UNCHANGED <<timers, pass>> /\ wk' = Timers!WorkerIdle
    BY DEF Timers!Reply
  <2>4. JobsMove /\ jobs'[j].status = "completed"
    BY <2>1, <2>2, <2>3, <1>FinishMoves
  <2>5. j \notin notices /\ ~Ended(j)
    BY <2>1, <2>2 DEF RInv, ToldOK
  <2>6. \A t \in wk.notes : t \in Timers!TimerIds /\ timers[t].status = "fired"
            /\ timers[t].job = j /\ told[t] = 0
    BY <2>2, <2>5 DEF RInv, TurnOK, ToldOK
  <2>7. RowsOK'
    BY <2>3, <2>4 DEF RInv, RowsOK, JobsMove
  <2>8. \A k \in Timers!JobIds : Ended(k) => jobs'[k].status \in EndStatus
    BY <2>4 DEF JobsMove, Ended
  <2>9. ToldOK'
    BY <2>1, <2>3, <2>4, <2>5, <2>6, <2>7, <2>8, <1>Telling
  <2> QED BY <2>3, <2>7, <2>9, SamePasses, TurnKept, SameTimers
             DEF RInv, Moves, TimerBounds
<1>ShowNoticeStep.
  ASSUME RInv, NEW j \in Timers!JobIds, Timers!ShowNotice(j)
  PROVE  Moves
  <2> USE <1>ShowNoticeStep
  <2>1. /\ j \in notices /\ notices' = notices \ {j} /\ Timers!Tell(Timers!FiredInto(j))
        /\ UNCHANGED <<timers, jobs, pass, wk>>
    BY DEF Timers!ShowNotice
  <2>2. Ended(j) /\ \A t \in Timers!FiredInto(j) :
          t \in Timers!TimerIds /\ timers[t].status = "fired" /\ timers[t].job = j /\ told[t] = 0
    BY <2>1 DEF RInv, ToldOK, Timers!FiredInto
  <2>3. RowsOK'
    BY <2>1 DEF RInv, RowsOK
  <2>4. /\ jobs'[j].status \in EndStatus /\ j \notin notices' /\ notices' \subseteq notices
        /\ \A k \in Timers!JobIds : Ended(k) => jobs'[k].status \in EndStatus
    BY <2>1, <2>2 DEF Ended
  <2>5. ToldOK'
    BY <2>1, <2>2, <2>3, <2>4, <1>Telling
  <2> QED BY <2>1, <2>3, <2>5, SamePasses, TurnKept, SameTimers
             DEF RInv, Moves, TimerBounds
<1>1. RInv /\ Timers!LostLease => Moves
  BY <1>TurnEnds, SameJobs DEF Timers!LostLease
<1>2. RInv /\ Timers!WorkerStep => Moves
  BY <1>1, <1>WorkerClaimStep, <1>AssembleStep, <1>ReadNotesStep, <1>ReplyStep, <1>SupersededStep
     DEF Timers!WorkerStep
<1> QED BY <1>2, <1>FailStep, <1>JobStep, <1>ShowNoticeStep

\* RInv holds before the first timer.
LEMMA RInit == TimerBounds /\ Timers!Init => RInv
<1> SUFFICES ASSUME TimerBounds, Timers!Init PROVE RInv
  OBVIOUS
<1>1. RowsOK
  BY DEF Timers!Init, RowsOK, Timers!NoTimer, TimerRow, Timers!TimerStatus, Timers!NoJob,
         JobRow, Timers!JobStatus
<1>2. PassesOK
  BY DEF Timers!Init, PassesOK, PassOK, Timers!PassIdle, PassFields
<1>3. TurnOK
  BY DEF Timers!Init, TurnOK, Timers!WorkerIdle, WorkerFields
<1>4. ToldOK
  BY SMT DEF Timers!Init, ToldOK
<1>5. \A t \in Timers!TimerIds : timers[t].series = 0 /\ timers[t].status = "none"
  BY DEF Timers!Init, Timers!NoTimer
<1>6. SoundRows(timers)
  BY <1>5 DEF SoundRows, Waits
<1> QED BY <1>1, <1>2, <1>3, <1>4, <1>6, ForklessIs DEF RInv

\* Every step moves timers, jobs and history as allowed.
LEMMA RSteps == RInv /\ [Timers!Next]_(Timers!vars) => Moves
<1> SUFFICES ASSUME RInv, [Timers!Next]_(Timers!vars) PROVE Moves
  OBVIOUS
<1>1. ASSUME NEW s \in Schedulers, Timers!PassStep(s) \/ Timers!CrashPass(s) PROVE Moves
  BY <1>1, PassSteps DEF Timers!PassStep
<1>2. ASSUME \/ Timers!AuthorCap \/ Timers!Toggle \/ Timers!Tick \/ Timers!Send
             \/ Timers!Answer \/ Timers!vars' = Timers!vars
      PROVE  Moves
  <2>1. UNCHANGED <<timers, jobs, notices, pass, wk, told>>
    BY <1>2
       DEF Timers!AuthorCap, Timers!Toggle, Timers!Tick, Timers!Send, Timers!Answer, Timers!vars
  <2> QED BY <2>1, OtherStep, SameJobs, SamePasses, TurnKept, SameTimers
<1> QED BY <1>1, <1>2, AuthorSteps, TurnSteps DEF Timers!Next

\* Every step keeps RInv.
LEMMA RNext == RInv /\ [Timers!Next]_(Timers!vars) => RInv'
BY RSteps DEF Moves

\* The invariant, from which the three theorems below follow.
LEMMA RAlways == ASSUME TimerBounds PROVE Timers!Spec => []RInv
<1>1. Timers!Init => RInv
  BY RInit
<1> QED BY <1>1, RNext, PTL DEF Timers!Spec

\* A reminder is told at most once, for any number of timers, jobs, passes and
\* disturbances: claim_due and mark_fired attach it to one job, and the reply
\* and the failure notice of a job exclude each other.
THEOREM RemindersToldOnce == ASSUME TimerBounds PROVE Timers!Spec => []ToldOnce
<1>1. RInv => ToldOnce
  BY SMT DEF RInv, ToldOK, ToldOnce
<1> QED BY <1>1, RAlways, PTL

\* Racing passes, dying passes, schedule_wake and cancel_wake never leave two
\* instances of a repeating series waiting, nor two timers in one slot, and
\* mark_fired does not revive a cancelled series.
THEOREM SeriesStayWhole == ASSUME TimerBounds PROVE Timers!Spec => []SeriesNeverForks
<1>1. RInv => SeriesNeverForks
  BY DEF RInv, Forkless, SeriesNeverForks
<1> QED BY <1>1, RAlways, PTL

\* A timer cancelled before mark_fired stays cancelled and is never told, and a
\* told one is never cancelled.
THEOREM CanceledIsSilent == ASSUME TimerBounds PROVE Timers!Spec => CanceledStaysUntold
<1>1. RInv /\ [Timers!Next]_(Timers!vars) =>
        [\A t \in DOMAIN timers :
           /\ timers[t].status = "canceled" => timers'[t].status = "canceled"
           /\ timers'[t].status = "canceled" => told'[t] = 0]_<<timers, told>>
  <2> SUFFICES ASSUME RInv, [Timers!Next]_(Timers!vars), NEW t \in Timers!TimerIds
               PROVE  /\ timers[t].status = "canceled" => timers'[t].status = "canceled"
                      /\ timers'[t].status = "canceled" => told'[t] = 0
    BY DEF RInv, RowsOK
  <2>1. RInv'
    BY RNext
  <2>2. timers[t].status = "canceled" => timers'[t].status = "canceled"
    BY RSteps DEF Moves, TimersMove, RowMoves
  <2>3. told'[t] \in {0, 1} /\ (told'[t] = 1 => timers'[t].status = "fired")
    BY <2>1 DEF RInv, ToldOK
  <2> QED BY <2>2, <2>3
<1> QED BY <1>1, RAlways, PTL DEF Timers!Spec, CanceledStaysUntold

=============================================================================
