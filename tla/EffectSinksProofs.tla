------------------------ MODULE EffectSinksProofs ------------------------
(***************************************************************************)
(* Proofs about EffectSinks for every set of appliers, every outbox, every *)
(* batch and every number of crashes.                                      *)
(*                                                                         *)
(* Owned is what keeps a write from happening twice, and it holds whatever *)
(* dies and whatever connection is lost: a claim row has one thread behind *)
(* it at most, and the state of that thread says what has landed. Lists    *)
(* and Locked are what the outer transaction gives the applier that holds  *)
(* its locks; NoLoss, that while no connection is lost every applier at    *)
(* work holds them; Decided, what it then knows about the row it opened.   *)
(***************************************************************************)
EXTENDS EffectSinks, TLAPS

(* Leaves are proved by Zenon unless they cite SMT.                        *)
USE Zenon

\* Every target write is a single statement or transaction.
SingleWrites == \A c \in Claims : Parts[c] = 1

Owning == {"write", "complete", "release_terminal", "release_retry"}
Holds(a, c) == app[a].pc = "dispatch" /\ app[a].th[c].st \in Owning

\* A thread past its claim and short of its verdict is alone with the claim.
Owned ==
    /\ \A a \in Appliers, c \in Claims : Holds(a, c) => claims[c] = "claimed"
    /\ \A a, b \in Appliers, c \in Claims : Holds(a, c) /\ Holds(b, c) => a = b
\* What the claim row and its thread say about the write.
Landing ==
    /\ \A c \in Claims : landed[c][1] <= 1
    /\ \A c \in Claims : claims[c] = "none" => landed[c][1] = 0
    /\ \A c \in Claims : claims[c] = "completed" => landed[c][1] = 1
    /\ \A a \in Appliers, c \in Claims : Holds(a, c) =>
         IF app[a].th[c].st = "complete" THEN landed[c][1] = 1
         ELSE landed[c][1] = 0 /\ app[a].th[c].k = 0

\* A pending row has attempts left.
Tries == \A e \in Effects : Pending(e) => outbox[e].attempts < MaxAttempts

\* An applier in a transaction has opened a row of its list.
Opened ==
    \A a \in Appliers : app[a].pc \in {"dispatch", "commit", "record"} =>
       app[a].eid \in Effects /\ app[a].wave \in 1..Len(Waves[app[a].eid])

\* Rows are inserted in order; an applier that has a row on its list has the
\* earlier pending ones too.
Lists ==
    /\ \A e \in Effects : \A d \in 1..e :
         outbox[d].status = "absent" => outbox[e].status = "absent"
    /\ \A a \in Appliers : \A e \in app[a].list :
         outbox[e].status # "absent" /\ \A d \in 1..e : Pending(d) => d \in app[a].list

InTx(a) == app[a].pc \in {"dispatch", "commit"}
Current(a, e) == Pending(e) /\ Fenced(e) /\ e \in app[a].list /\ \A d \in app[a].list : e <= d
\* The applier that holds the locks has opened a row that is pending, fenced and
\* the first of its list.
Locked == \A a \in Appliers : lock = a => InTx(a) /\ Current(a, app[a].eid)
\* While no connection is lost, an applier in a transaction holds the locks.
NoLoss == \A a \in Appliers : app[a].pc # "record" /\ (InTx(a) => lock = a)
Threads ==
    \A a \in Appliers, c \in Claims : app[a].pc = "dispatch" =>
       (app[a].th[c].st # "idle" <=> c \in Waves[app[a].eid][app[a].wave])

\* What is decided about claim c of effect e for good.
Resolved(e, c) == claims[c] = "completed" \/ (e \in BatchEffects /\ c \in rejected)
\* The waves behind applier a are resolved, and its threads tell the truth.
DispatchOK(a) ==
    /\ \A w \in 1..(app[a].wave - 1) : \A c \in Waves[app[a].eid][w] : Resolved(app[a].eid, c)
    /\ \A c \in Claims : app[a].th[c].st = "ok" => claims[c] = "completed"
    /\ \A c \in Claims : app[a].th[c].st = "terminal" => c \in rejected /\ landed[c][1] = 0
CommitOK(a) ==
    /\ app[a].err = "none" => \A c \in ClaimsOf(app[a].eid) : Resolved(app[a].eid, c)
    /\ app[a].err = "terminal" => \A c \in ClaimsOf(app[a].eid) : landed[c][1] = 0
\* The verdict of a row, and what leads to it.
Decided ==
    /\ \A e \in Effects : outbox[e].status = "applied" => \A c \in ClaimsOf(e) : Resolved(e, c)
    /\ \A e \in Effects : outbox[e].status = "rejected" =>
         \A c \in ClaimsOf(e) : landed[c][1] = 0
    /\ \A a \in Appliers : app[a].pc = "dispatch" => DispatchOK(a)
    /\ \A a \in Appliers : app[a].pc = "commit" => CommitOK(a)

\* A thread that may write has parts left, and starts with the first.
PartsOK(r) ==
    \A c \in Claims :
       /\ r.th[c].st = "claim" => r.th[c].k = 0
       /\ r.th[c].st = "write" => r.th[c].k < Parts[c]
PartsLeft == \A a \in Appliers : PartsOK(app[a])

Basic == TypeOK /\ Tries /\ Opened /\ PartsLeft

---------------------------------------------------------------------------
(***************************************************************************)
(* Facts about the constants.                                              *)
(***************************************************************************)
LEMMA Constants ==
    /\ Len(Waves) \in Nat /\ Effects = 1..Len(Waves) /\ DOMAIN Waves = Effects
    /\ \A e \in Effects : Len(Waves[e]) \in Nat /\ 1 \in 1..Len(Waves[e])
    /\ \A e \in Effects : DOMAIN Waves[e] = 1..Len(Waves[e])
    /\ 0 \notin Effects /\ Effects \subseteq Nat
    /\ MaxAttempts \in Nat /\ MaxAttempts > 0
    /\ MaxGen \in Nat /\ MaxCrashes \in Nat /\ MaxLost \in Nat
    /\ Nobody \notin Appliers
  BY SMT, WavesAssumption, BoundsAssumption, NobodyAssumption DEF Effects

\* What is in a wave of an effect is a claim of that effect.
LEMMA WaveClaims ==
    ASSUME NEW e \in Effects, NEW w \in 1..Len(Waves[e]), NEW c \in Waves[e][w]
    PROVE  c \in ClaimsOf(e) /\ c \in Claims
  BY SMT, Constants DEF ClaimsOf, Claims, Range

\* Every claim of an effect is in one of its waves.
LEMMA ClaimWave ==
    ASSUME NEW e \in Effects, NEW c \in ClaimsOf(e)
    PROVE  c \in Claims /\ \E w \in 1..Len(Waves[e]) : c \in Waves[e][w]
  BY SMT, Constants DEF ClaimsOf, Claims, Range

\* An idle applier is well formed and has nothing on its list.
LEMMA IdleType == Idle \in AppType /\ Idle.pc = "idle" /\ Idle.list = {} /\ PartsOK(Idle)
<1>1. NoThreads \in [Claims -> [st : ThreadStates, k : Nat]]
  BY DEF NoThreads, ThreadStates
<1>2. \A c \in Claims : NoThreads[c].st = "idle"
  BY DEF NoThreads
<1> QED
  BY <1>1, <1>2 DEF Idle, AppType, PartsOK

\* The threads of a wave that starts are well formed.
LEMMA StartWaveType ==
    ASSUME NEW e, NEW w
    PROVE  StartWave(e, w) \in [Claims -> [st : ThreadStates, k : Nat]]
  BY DEF StartWave, ThreadStates

---------------------------------------------------------------------------
(***************************************************************************)
(* One thread of applier a moves, or the whole record of a is replaced.    *)
(***************************************************************************)
Moved(a, c, t) ==
    /\ app' \in [Appliers -> AppType]
    /\ \A b \in Appliers : b # a => app'[b] = app[b]
    /\ app'[a].pc = app[a].pc /\ app'[a].list = app[a].list
    /\ app'[a].eid = app[a].eid /\ app'[a].wave = app[a].wave /\ app'[a].err = app[a].err
    /\ app'[a].th[c] = t
    /\ \A d \in Claims : d # c => app'[a].th[d] = app[a].th[d]

\* Setting one thread of an applier moves that thread and no other.
LEMMA ThreadMoves ==
    ASSUME TypeOK, NEW a \in Appliers, NEW c \in Claims,
           NEW t \in [st : ThreadStates, k : Nat], app' = [app EXCEPT ![a].th[c] = t]
    PROVE  Moved(a, c, t)
<1> DEFINE r == [app[a] EXCEPT !.th = [app[a].th EXCEPT ![c] = t]]
<1>1. app[a] \in AppType
  BY DEF TypeOK
<1>2. /\ r \in AppType /\ r.pc = app[a].pc /\ r.list = app[a].list /\ r.eid = app[a].eid
      /\ r.wave = app[a].wave /\ r.err = app[a].err
      /\ r.th[c] = t /\ \A d \in Claims : d # c => r.th[d] = app[a].th[d]
  BY <1>1 DEF AppType
<1>3. app' = [app EXCEPT ![a] = r]
  OBVIOUS
<1> HIDE DEF r
<1>4. app' \in [Appliers -> AppType] /\ app'[a] = r
      /\ \A b \in Appliers : b # a => app'[b] = app[b]
  BY SMT, <1>2, <1>3 DEF TypeOK
<1> QED
  BY <1>2, <1>4 DEF Moved

\* So does changing its state alone.
LEMMA ThreadSets ==
    ASSUME TypeOK, NEW a \in Appliers, NEW c \in Claims,
           NEW st \in ThreadStates, SetThread(a, c, st)
    PROVE  Moved(a, c, [st |-> st, k |-> app[a].th[c].k])
<1> DEFINE t == [st |-> st, k |-> app[a].th[c].k]
<1>1. app[a] \in AppType /\ app[a].th[c] \in [st : ThreadStates, k : Nat]
  BY SMT DEF TypeOK, AppType
<1>2. [app[a].th[c] EXCEPT !.st = st] = t /\ t \in [st : ThreadStates, k : Nat]
  BY SMT, <1>1
<1>3. app' = [app EXCEPT ![a].th[c] = [app[a].th[c] EXCEPT !.st = st]]
  BY DEF SetThread
<1>4. app' = [app EXCEPT ![a].th[c] = t]
  BY <1>2, <1>3
<1> QED
  BY <1>2, <1>4, ThreadMoves

\* Replacing one applier's record leaves the others.
LEMMA Replaced ==
    ASSUME TypeOK, NEW a \in Appliers, NEW r \in AppType, app' = [app EXCEPT ![a] = r]
    PROVE  /\ app' \in [Appliers -> AppType] /\ app'[a] = r
           /\ \A b \in Appliers : b # a => app'[b] = app[b]
  BY DEF TypeOK

\* The records that replace the one of a.
LEMMA AdvanceType ==
    ASSUME TypeOK, NEW a \in Appliers, NEW e \in Effects
    PROVE  /\ Advance(a, e) \in AppType /\ Advance(a, e).pc \in {"idle", "next"}
           /\ Advance(a, e).list = app[a].list \ {e}
           /\ PartsOK(Advance(a, e))
<1>1. app[a] \in AppType
  BY DEF TypeOK
<1>2. Advance(a, e).th = Idle.th
  BY DEF Advance, Idle
<1>3. PartsOK(Advance(a, e))
  BY <1>2, IdleType DEF PartsOK
<1> QED
  BY <1>1, <1>3, IdleType DEF Advance, AppType, Idle

\* An applier that has listed the due rows is well formed.
LEMMA SnapshotType ==
    /\ [Idle EXCEPT !.pc = "next", !.list = DuePrefix] \in AppType
    /\ [Idle EXCEPT !.pc = "next", !.list = DuePrefix].pc = "next"
    /\ [Idle EXCEPT !.pc = "next", !.list = DuePrefix].list = DuePrefix
    /\ PartsOK([Idle EXCEPT !.pc = "next", !.list = DuePrefix])
<1>1. DuePrefix \in SUBSET Effects
  BY DEF DuePrefix
<1>2. [Idle EXCEPT !.pc = "next", !.list = DuePrefix].th = Idle.th
  BY DEF Idle
<1>3. PartsOK([Idle EXCEPT !.pc = "next", !.list = DuePrefix])
  BY <1>2, IdleType DEF PartsOK
<1> QED
  BY <1>1, <1>3, IdleType DEF AppType, Idle

\* What the actions that open a row, start a wave or return from one make of it.
Reopened(a, pc, e, w, err, th) ==
    /\ app' \in [Appliers -> AppType]
    /\ \A b \in Appliers : b # a => app'[b] = app[b]
    /\ app'[a].list = app[a].list
    /\ app'[a].pc = pc /\ app'[a].eid = e /\ app'[a].wave = w /\ app'[a].err = err
    /\ app'[a].th = th

\* A dispatch opens the row at its first wave.
LEMMA DispatchMoves ==
    ASSUME TypeOK, NEW a \in Appliers, NEW e \in Effects, DispatchRow(a, e)
    PROVE  Reopened(a, "dispatch", e, 1, app[a].err, StartWave(e, 1))
<1> DEFINE T == StartWave(e, 1)
           r == [app[a] EXCEPT !.pc = "dispatch", !.eid = e, !.wave = 1, !.th = T]
<1>1. app[a] \in AppType /\ T \in [Claims -> [st : ThreadStates, k : Nat]]
  BY StartWaveType DEF TypeOK
<1>2. app' = [app EXCEPT ![a] = r]
  BY DEF DispatchRow
<1> HIDE DEF T
<1>3. /\ r \in AppType /\ r.list = app[a].list
      /\ r.pc = "dispatch" /\ r.eid = e /\ r.wave = 1 /\ r.err = app[a].err /\ r.th = T
  BY <1>1 DEF AppType
<1> HIDE DEF r
<1> QED
  BY <1>2, <1>3, Replaced DEF Reopened, T

\* A batch goes on to its next wave.
LEMMA NextWaveMoves ==
    ASSUME TypeOK, NEW a \in Appliers, NextWave(a)
    PROVE  Reopened(a, "dispatch", app[a].eid, app[a].wave + 1, app[a].err,
                    StartWave(app[a].eid, app[a].wave + 1))
<1> DEFINE w == app[a].wave + 1
           T == StartWave(app[a].eid, w)
           r == [app[a] EXCEPT !.wave = w, !.th = T]
<1>0. app[a] \in AppType
  BY DEF TypeOK
<1>1. w \in Nat /\ T \in [Claims -> [st : ThreadStates, k : Nat]]
  BY SMT, <1>0, StartWaveType DEF AppType
<1>2. app' = [app EXCEPT ![a] = r] /\ app[a].pc = "dispatch"
  BY DEF NextWave, WaveDone
<1> HIDE DEF T, w
<1>3. /\ r \in AppType /\ r.list = app[a].list /\ r.pc = app[a].pc /\ r.eid = app[a].eid
      /\ r.wave = w /\ r.err = app[a].err /\ r.th = T
  BY <1>0, <1>1 DEF AppType
<1> HIDE DEF r
<1> QED
  BY <1>2, <1>3, Replaced DEF Reopened, T, w

\* A dispatch that returns carries the error of its threads to the commit.
LEMMA ReturnMoves ==
    ASSUME TypeOK, NEW a \in Appliers, DispatchReturns(a)
    PROVE  Reopened(a, "commit", app[a].eid, app[a].wave, ErrorOf(a), app[a].th)
<1> DEFINE x == ErrorOf(a)
           r == [app[a] EXCEPT !.pc = "commit", !.err = x]
<1>1. app[a] \in AppType /\ x \in {"none", "terminal", "retry", "uncertain"}
  BY DEF TypeOK, ErrorOf
<1>2. app' = [app EXCEPT ![a] = r]
  BY DEF DispatchReturns
<1> HIDE DEF x
<1>3. /\ r \in AppType /\ r.list = app[a].list /\ r.pc = "commit" /\ r.eid = app[a].eid
      /\ r.wave = app[a].wave /\ r.err = x /\ r.th = app[a].th
  BY <1>1 DEF AppType
<1> HIDE DEF r
<1> QED
  BY <1>2, <1>3, Replaced DEF Reopened, x

\* What CommitOutcome, CommitFails and RecordAfterwards leave of the row's state.
LEMMA RecordErrorType ==
    ASSUME TypeOK, Tries, NEW e \in Effects, NEW err
    PROVE  /\ RecordError(e, err) \in [Effects -> RowType]
           /\ \A d \in Effects : d # e => RecordError(e, err)[d] = outbox[d]
           /\ RecordError(e, err)[e].status \in
                {outbox[e].status, "needs_reconciliation"}
           /\ RecordError(e, err)[e].gen = outbox[e].gen
           /\ outbox[e].status # "pending" => RecordError(e, err)[e] = outbox[e]
           /\ RecordError(e, err)[e].status = "pending" =>
                RecordError(e, err)[e].attempts < MaxAttempts
<1> DEFINE n == outbox[e].attempts + 1
           st == IF err = "uncertain" \/ n >= MaxAttempts
                 THEN "needs_reconciliation" ELSE "pending"
           r == [outbox[e] EXCEPT !.attempts = n, !.due = FALSE, !.status = st]
           q == IF outbox[e].status # "pending" THEN outbox[e] ELSE r
<1>1. outbox[e] \in RowType
  BY DEF TypeOK
<1>2. outbox[e].status = "pending" => n \in 0..MaxAttempts
  BY SMT, <1>1, Constants DEF Tries, Pending, RowType
<1>3. st \in {"pending", "needs_reconciliation"} /\ (st = "pending" => n < MaxAttempts \/ n \notin 0..MaxAttempts)
  BY SMT, Constants
<1>4. RecordError(e, err) = [outbox EXCEPT ![e] = q]
  BY DEF RecordError, Recorded
<1> HIDE DEF n, st
<1>5. /\ n \in 0..MaxAttempts => r \in RowType
      /\ r.status = st /\ r.attempts = n /\ r.gen = outbox[e].gen
  BY <1>1, <1>3 DEF RowType
<1> HIDE DEF r
<1>6. /\ q \in RowType /\ q.gen = outbox[e].gen
      /\ q.status \in {outbox[e].status, "needs_reconciliation"}
      /\ outbox[e].status # "pending" => q = outbox[e]
      /\ q.status = "pending" => q.attempts < MaxAttempts
  BY <1>1, <1>2, <1>3, <1>5
<1> HIDE DEF q
<1> QED
  BY SMT, <1>4, <1>6 DEF TypeOK

\* A change of the status of one row.
LEMMA StatusSet ==
    ASSUME TypeOK, NEW e \in Effects, NEW st \in {"applied", "discarded", "rejected"},
           outbox' = [outbox EXCEPT ![e].status = st]
    PROVE  /\ outbox' \in [Effects -> RowType]
           /\ outbox'[e].status = st
           /\ \A d \in Effects : d # e => outbox'[d] = outbox[d]
<1> DEFINE r == [outbox[e] EXCEPT !.status = st]
<1>1. outbox[e] \in RowType
  BY DEF TypeOK
<1>2. r \in RowType /\ r.status = st
  BY <1>1 DEF RowType
<1>3. outbox' = [outbox EXCEPT ![e] = r]
  OBVIOUS
<1> HIDE DEF r
<1> QED
  BY SMT, <1>2, <1>3 DEF TypeOK

---------------------------------------------------------------------------
(***************************************************************************)
(* The types, and the rows the appliers have open.                         *)
(***************************************************************************)
LEMMA OpenedFrame ==
    ASSUME Opened, NEW a \in Appliers, \A b \in Appliers : b # a => app'[b] = app[b],
           app'[a].pc \in {"dispatch", "commit", "record"} =>
             app'[a].eid \in Effects /\ app'[a].wave \in 1..Len(Waves[app'[a].eid])
    PROVE  Opened'
  BY DEF Opened

\* An applier's step cannot disturb the parts of the others.
LEMMA PartsFrame ==
    ASSUME PartsLeft, NEW a \in Appliers, \A b \in Appliers : b # a => app'[b] = app[b],
           PartsOK(app'[a])
    PROVE  PartsLeft'
<1>1. \A b \in Appliers : PartsOK(app[b])' <=> PartsOK(app'[b])
  BY DEF PartsOK
<1> QED
  BY <1>1 DEF PartsLeft

\* A row's step cannot disturb the attempts of the others.
LEMMA TriesFrame ==
    ASSUME Tries, NEW e \in Effects, \A d \in Effects : d # e => outbox'[d] = outbox[d],
           outbox'[e].status = "pending" => outbox'[e].attempts < MaxAttempts
    PROVE  Tries'
  BY DEF Tries, Pending

\* The types and bounds hold of an empty outbox.
LEMMA BasicInit == Init => Basic
<1> SUFFICES ASSUME Init PROVE Basic
  OBVIOUS
<1>1. outbox \in [Effects -> RowType]
  BY SMT, Constants DEF Init, RowType
<1>2. /\ app \in [Appliers -> AppType]
      /\ \A a \in Appliers : app[a].pc = "idle" /\ PartsOK(app[a])
  BY IdleType DEF Init
<1>3. DOMAIN landed = Claims /\ \A c \in Claims : landed[c] \in [1..Parts[c] -> Nat]
  BY DEF Init
<1>4. TypeOK
  BY SMT, <1>1, <1>2, <1>3, Constants DEF Init, TypeOK
<1>5. Tries
  BY Constants DEF Init, Tries, Pending
<1>6. Opened
  BY <1>2 DEF Opened
<1> QED
  BY <1>2, <1>4, <1>5, <1>6 DEF Basic, PartsLeft

\* Inserting a row and the end of a backoff keep them.
LEMMA BasicRows ==
    ASSUME Basic, NEW e \in Effects, Enqueue(e) \/ BackoffElapses(e)
    PROVE  Basic'
<1> USE DEF Basic
<1>1. CASE Enqueue(e)
  <2>1. PICK g \in 0..rt.gen : outbox' = [outbox EXCEPT ![e] =
                      [status |-> "pending", gen |-> g, attempts |-> 0, due |-> TRUE]]
    BY <1>1 DEF Enqueue
  <2>2. g \in 0..MaxGen
    BY SMT, Constants DEF TypeOK
  <2>3. [status |-> "pending", gen |-> g, attempts |-> 0, due |-> TRUE] \in RowType
    BY SMT, <2>2, Constants DEF RowType
  <2>4. outbox' \in [Effects -> RowType]
    BY <2>1, <2>3 DEF TypeOK
  <2>5. TypeOK'
    BY <1>1, <2>4 DEF TypeOK, Enqueue
  <2>6. Tries'
    BY <2>1, Constants, TriesFrame DEF TypeOK
  <2> QED
    BY <1>1, <2>5, <2>6 DEF Enqueue, Opened, PartsLeft, PartsOK
<1>2. CASE BackoffElapses(e)
  <2> DEFINE r == [outbox[e] EXCEPT !.due = TRUE]
  <2>1. outbox[e] \in RowType
    BY DEF TypeOK
  <2>2. r \in RowType /\ r.status = outbox[e].status /\ r.attempts = outbox[e].attempts
    BY <2>1 DEF RowType
  <2>3. outbox' = [outbox EXCEPT ![e] = r]
    BY <1>2 DEF BackoffElapses
  <2> HIDE DEF r
  <2>4. TypeOK'
    BY <1>2, <2>2, <2>3 DEF TypeOK, BackoffElapses
  <2>5. Tries'
    BY <2>2, <2>3, TriesFrame DEF TypeOK, Tries, Pending
  <2> QED
    BY <1>2, <2>4, <2>5 DEF BackoffElapses, Opened, PartsLeft, PartsOK
<1> QED
  BY <1>1, <1>2

\* A cutover keeps them.
LEMMA BasicCutover ==
    ASSUME Basic, NEW s \in {"v2", "resident"}, Cutover(s)
    PROVE  Basic'
<1>1. rt.gen + 1 \in 0..MaxGen
  BY SMT, Constants DEF Basic, TypeOK, Cutover
<1>2. rt' \in [state : {"v2", "resident"}, gen : 0..MaxGen]
  BY <1>1 DEF Cutover
<1> QED
  BY <1>2 DEF Basic, TypeOK, Tries, Pending, Opened, PartsLeft, PartsOK, Cutover

\* The whole record of a is replaced by one that has no row open.
LEMMA BasicClosed ==
    ASSUME Basic, NEW a \in Appliers, NEW r \in AppType, app' = [app EXCEPT ![a] = r],
           r.pc \in {"idle", "next"}, PartsOK(r),
           outbox' \in [Effects -> RowType], Tries', lock' \in Appliers \cup {Nobody},
           faults' \in [crashes : 0..MaxCrashes, lost : 0..MaxLost],
           UNCHANGED <<rt, claims, landed, rejected>>
    PROVE  Basic'
<1> USE DEF Basic
<1>1. /\ app' \in [Appliers -> AppType] /\ app'[a] = r
      /\ \A b \in Appliers : b # a => app'[b] = app[b]
  BY Replaced
<1>2. TypeOK'
  BY <1>1 DEF TypeOK
<1> QED
  BY <1>1, <1>2, OpenedFrame, PartsFrame

\* Skipping, stopping at, discarding and dispatching a row keep them.
LEMMA BasicHead ==
    ASSUME Basic, NEW a \in Appliers, NEW e \in Effects,
           SkipRow(a, e) \/ StopAtRow(a, e) \/ DiscardRow(a, e) \/ DispatchRow(a, e)
    PROVE  Basic'
<1> USE DEF Basic
<1>0. TypeOK /\ (outbox' = outbox => outbox' \in [Effects -> RowType] /\ Tries')
  BY DEF TypeOK, Tries, Pending
<1>1. CASE SkipRow(a, e)
  BY <1>0, <1>1, AdvanceType, BasicClosed DEF SkipRow, TypeOK
<1>2. CASE StopAtRow(a, e)
  BY <1>0, <1>2, IdleType, BasicClosed DEF StopAtRow, TypeOK
<1>3. CASE DiscardRow(a, e)
  <2>1. outbox' \in [Effects -> RowType] /\ Tries'
    BY <1>3, StatusSet, TriesFrame DEF DiscardRow
  <2> QED
    BY <1>3, <2>1, AdvanceType, BasicClosed DEF DiscardRow, TypeOK
<1>4. CASE DispatchRow(a, e)
  <2>1. Reopened(a, "dispatch", e, 1, app[a].err, StartWave(e, 1))
    BY <1>4, DispatchMoves
  <2>2. TypeOK'
    BY <1>4, <2>1 DEF DispatchRow, Reopened, TypeOK
  <2>3. Opened'
    BY <2>1, Constants, OpenedFrame DEF Reopened
  <2>4. PartsLeft'
    BY SMT, <2>1, PartsFrame DEF Reopened, PartsOK, StartWave
  <2> QED
    BY <1>0, <1>4, <2>2, <2>3, <2>4 DEF DispatchRow
<1> QED
  BY <1>1, <1>2, <1>3, <1>4

\* A thread of a moves; claims and landed keep their types.
LEMMA BasicThread ==
    ASSUME Basic, NEW a \in Appliers, NEW c \in Claims, NEW t, Moved(a, c, t),
           claims' \in [Claims -> {"none", "claimed", "completed"}],
           DOMAIN landed' = Claims, \A d \in Claims : landed'[d] \in [1..Parts[d] -> Nat],
           rejected' \subseteq Claims,
           t.st = "claim" => t.k = 0, t.st = "write" => t.k < Parts[c],
           UNCHANGED <<rt, outbox, lock, faults>>
    PROVE  Basic'
<1> USE DEF Basic
<1>1. TypeOK'
  BY DEF TypeOK, Moved
<1>2. Opened'
  BY SMT, OpenedFrame DEF Moved, Opened
<1>3. PartsOK(app'[a])
  BY SMT DEF Moved, PartsOK, PartsLeft
<1>4. PartsLeft'
  BY <1>3, PartsFrame DEF Moved
<1> QED
  BY <1>1, <1>2, <1>4 DEF Tries, Pending

\* The next part of the write of c, when all parts are one.
LEMMA LandedType ==
    ASSUME TypeOK, NEW c \in Claims, NEW k \in 1..Parts[c],
           landed' = [landed EXCEPT ![c][k] = @ + 1]
    PROVE  /\ DOMAIN landed' = Claims
           /\ \A d \in Claims : landed'[d] \in [1..Parts[d] -> Nat]
           /\ landed'[c][k] = landed[c][k] + 1
           /\ \A d \in Claims : d # c => landed'[d] = landed[d]
<1> DEFINE n == landed[c][k] + 1
           f == [landed[c] EXCEPT ![k] = n]
<1>0. landed[c] \in [1..Parts[c] -> Nat]
  BY DEF TypeOK
<1>a. landed[c][k] \in Nat
  BY <1>0
<1>1. landed[c] \in [1..Parts[c] -> Nat] /\ n \in Nat
  BY SMT, <1>0, <1>a
<1>2. landed' = [landed EXCEPT ![c] = f]
  OBVIOUS
<1> HIDE DEF n
<1>3. f \in [1..Parts[c] -> Nat] /\ f[k] = n
  BY <1>1
<1> HIDE DEF f
<1> QED
  BY <1>2, <1>3 DEF TypeOK, n

\* A step of a sink keeps them.
LEMMA BasicSink ==
    ASSUME Basic, NEW a \in Appliers, SinkStep(a)
    PROVE  Basic'
<1> USE DEF Basic
<1>1. PICK c \in Claims :
         \/ SinkClaim(a, c) \/ SinkWrite(a, c) \/ SinkRelease(a, c) \/ SinkComplete(a, c)
         \/ \E kind \in {"retry", "terminal"} : SinkRaises(a, c, kind)
  BY DEF SinkStep
<1>2. /\ \A st \in ThreadStates : SetThread(a, c, st) =>
           Moved(a, c, [st |-> st, k |-> app[a].th[c].k])
      /\ claims \in [Claims -> {"none", "claimed", "completed"}]
      /\ DOMAIN landed = Claims /\ \A d \in Claims : landed[d] \in [1..Parts[d] -> Nat]
      /\ rejected \subseteq Claims
  BY ThreadSets DEF TypeOK
<1>a. Parts[c] \in Nat /\ Parts[c] > 0
  BY SMT, PartsAssumption
<1>b. app[a].th[c].k \in Nat
  BY SMT DEF TypeOK, AppType
<1>c. /\ app[a].th[c].st = "claim" => app[a].th[c].k = 0
      /\ app[a].th[c].st = "write" => app[a].th[c].k < Parts[c]
  <2>1. PartsOK(app[a])
    BY DEF PartsLeft
  <2> QED
    BY <2>1 DEF PartsOK
<1>3. CASE SinkClaim(a, c)
  <2>1. \E st \in ThreadStates : SetThread(a, c, st) /\ st # "claim"
    BY <1>2, <1>3 DEF SinkClaim, ThreadStates
  <2>2. app[a].th[c].k = 0
    BY <1>c, <1>3 DEF SinkClaim, Running
  <2>3. claims' \in [Claims -> {"none", "claimed", "completed"}]
    BY <1>2, <1>3 DEF SinkClaim
  <2> QED
    BY <1>2, <1>3, <1>a, <2>1, <2>2, <2>3, BasicThread DEF SinkClaim
<1>4. CASE SinkWrite(a, c)
  <2> DEFINE k == app[a].th[c].k + 1
             t == [st |-> IF k = Parts[c] THEN "complete" ELSE "write", k |-> k]
  <2>1. app[a].th[c].st = "write"
    BY <1>4 DEF SinkWrite, Running
  <2>2. k \in 1..Parts[c] /\ k \in Nat
    BY SMT, <1>a, <1>b, <1>c, <2>1
  <2>3. /\ t \in [st : ThreadStates, k : Nat]
        /\ t.st = "claim" => t.k = 0
        /\ t.st = "write" => t.k < Parts[c]
    BY SMT, <1>a, <2>2 DEF ThreadStates
  <2>4. landed' = [landed EXCEPT ![c][k] = @ + 1] /\ app' = [app EXCEPT ![a].th[c] = t]
    BY <1>4 DEF SinkWrite
  <2> HIDE DEF k, t
  <2>5. Moved(a, c, t)
    BY <2>3, <2>4, ThreadMoves
  <2>6. DOMAIN landed' = Claims /\ \A d \in Claims : landed'[d] \in [1..Parts[d] -> Nat]
    BY <2>2, <2>4, LandedType
  <2> QED
    BY <1>2, <1>4, <2>3, <2>5, <2>6, BasicThread DEF SinkWrite
<1>5. CASE SinkRelease(a, c)
  <2>1. \E st \in ThreadStates : SetThread(a, c, st) /\ st \notin {"claim", "write"}
    BY <1>5 DEF SinkRelease, ThreadStates
  <2>2. claims' \in [Claims -> {"none", "claimed", "completed"}] /\ rejected' \subseteq Claims
    BY <1>2, <1>5 DEF SinkRelease
  <2> QED
    BY <1>2, <1>5, <2>1, <2>2, BasicThread DEF SinkRelease
<1>6. CASE SinkComplete(a, c)
  <2>1. \E st \in ThreadStates : SetThread(a, c, st) /\ st \notin {"claim", "write"}
    BY <1>6 DEF SinkComplete, ThreadStates
  <2>2. claims' \in [Claims -> {"none", "claimed", "completed"}]
    BY <1>2, <1>6 DEF SinkComplete
  <2> QED
    BY <1>2, <1>6, <2>1, <2>2, BasicThread DEF SinkComplete
<1>7. ASSUME NEW kind \in {"retry", "terminal"}, SinkRaises(a, c, kind)
      PROVE  Basic'
  <2>1. \E st \in ThreadStates : SetThread(a, c, st) /\ st \notin {"claim", "write"}
    BY <1>7 DEF SinkRaises, ThreadStates
  <2> QED
    BY <1>2, <1>7, <2>1, BasicThread DEF SinkRaises
<1> QED
  BY <1>1, <1>3, <1>4, <1>5, <1>6, <1>7

\* The next wave and the return of a dispatch keep them.
LEMMA BasicWave ==
    ASSUME Basic, NEW a \in Appliers, NextWave(a) \/ DispatchReturns(a)
    PROVE  Basic'
<1> USE DEF Basic
<1>1. CASE NextWave(a)
  <2>1. Reopened(a, "dispatch", app[a].eid, app[a].wave + 1, app[a].err,
                 StartWave(app[a].eid, app[a].wave + 1))
    BY <1>1, NextWaveMoves
  <2>2. TypeOK'
    BY <1>1, <2>1 DEF NextWave, Reopened, TypeOK
  <2>3. /\ app[a].eid \in Effects /\ app[a].wave \in 1..Len(Waves[app[a].eid])
        /\ app[a].wave < Len(Waves[app[a].eid])
    BY <1>1 DEF NextWave, WaveDone, Opened
  <2>4. app[a].wave + 1 \in 1..Len(Waves[app[a].eid])
    BY SMT, <2>3, Constants
  <2>5. Opened'
    BY <2>1, <2>3, <2>4, OpenedFrame DEF Reopened
  <2>6. PartsLeft'
    BY SMT, <2>1, PartsFrame DEF Reopened, PartsOK, StartWave
  <2> QED
    BY <1>1, <2>2, <2>5, <2>6 DEF NextWave, Tries, Pending
<1>2. CASE DispatchReturns(a)
  <2>1. Reopened(a, "commit", app[a].eid, app[a].wave, ErrorOf(a), app[a].th)
    BY <1>2, ReturnMoves
  <2>2. TypeOK'
    BY <1>2, <2>1 DEF DispatchReturns, Reopened, TypeOK
  <2>3. Opened'
    BY <1>2, <2>1, OpenedFrame DEF Reopened, DispatchReturns, WaveDone, Opened
  <2>4. PartsLeft'
    BY SMT, <2>1, PartsFrame DEF Reopened, PartsOK, PartsLeft
  <2> QED
    BY <1>2, <2>2, <2>3, <2>4 DEF DispatchReturns, Tries, Pending
<1> QED
  BY <1>1, <1>2

\* Committing an outcome, or failing to, keeps them.
LEMMA BasicOutcome ==
    ASSUME Basic, NEW a \in Appliers,
           CommitOutcome(a) \/ CommitFails(a) \/ RecordAfterwards(a)
    PROVE  Basic'
<1> USE DEF Basic
<1>0. TypeOK /\ (outbox' = outbox => outbox' \in [Effects -> RowType] /\ Tries')
  BY DEF TypeOK, Tries, Pending
<1> DEFINE e == app[a].eid
<1>1. app[a].pc \in {"commit", "record"} => e \in Effects
  BY DEF Opened
<1>2. e \in Effects /\ outbox' = RecordError(e, app[a].err) =>
         outbox' \in [Effects -> RowType] /\ Tries'
  BY SMT, <1>0, RecordErrorType, TriesFrame
<1>3. CASE CommitOutcome(a)
  <2>1. e \in Effects
    BY <1>1, <1>3 DEF CommitOutcome
  <2>2. outbox' \in [Effects -> RowType] /\ Tries'
    BY <1>2, <1>3, <2>1, StatusSet, TriesFrame DEF CommitOutcome
  <2>3. app' = [app EXCEPT ![a] = Advance(a, e)] \/ app' = [app EXCEPT ![a] = Idle]
    BY <1>3 DEF CommitOutcome
  <2>4. /\ UNCHANGED <<rt, claims, landed, rejected, faults>>
        /\ lock' \in Appliers \cup {Nobody}
        /\ faults' \in [crashes : 0..MaxCrashes, lost : 0..MaxLost]
    BY <1>3 DEF CommitOutcome, TypeOK
  <2> HIDE DEF e
  <2>5. Advance(a, e) \in AppType /\ Advance(a, e).pc \in {"idle", "next"}
        /\ PartsOK(Advance(a, e))
    BY <2>1, AdvanceType
  <2> QED
    BY <2>2, <2>3, <2>4, <2>5, IdleType, BasicClosed
<1>4. CASE CommitFails(a)
  <2>1. CASE app[a].err = "none"
    BY <1>0, <1>4, <2>1, IdleType, BasicClosed DEF CommitFails, TypeOK
  <2>2. CASE app[a].err # "none"
    <3> DEFINE r == [app[a] EXCEPT !.pc = "record"]
    <3>1. app[a] \in AppType
      BY DEF TypeOK
    <3>2. r \in AppType /\ r.eid = app[a].eid /\ r.wave = app[a].wave /\ r.th = app[a].th
      BY <3>1 DEF AppType
    <3>3. app' = [app EXCEPT ![a] = r]
      BY <1>4, <2>2 DEF CommitFails
    <3> HIDE DEF r
    <3>4. /\ app' \in [Appliers -> AppType] /\ app'[a] = r
          /\ \A b \in Appliers : b # a => app'[b] = app[b]
      BY <3>2, <3>3, Replaced
    <3>5. TypeOK'
      BY <1>4, <3>4 DEF CommitFails, TypeOK
    <3>6. Opened'
      BY <1>4, <3>2, <3>4, OpenedFrame DEF CommitFails, Opened
    <3>7. PartsOK(app'[a])
      BY <3>2, <3>4 DEF PartsLeft, PartsOK
    <3> QED
      BY <1>0, <1>4, <3>4, <3>5, <3>6, <3>7, PartsFrame DEF CommitFails
  <2> QED
    BY <2>1, <2>2
<1>5. CASE RecordAfterwards(a)
  BY <1>1, <1>2, <1>5, IdleType, BasicClosed DEF RecordAfterwards, TypeOK
<1> QED
  BY <1>3, <1>4, <1>5

\* A snapshot, a lost connection and a death keep them.
LEMMA BasicFault ==
    ASSUME Basic, NEW a \in Appliers, Snapshot(a) \/ ConnectionLost(a) \/ Crash(a)
    PROVE  Basic'
<1> USE DEF Basic
<1>0. TypeOK /\ (outbox' = outbox => outbox' \in [Effects -> RowType] /\ Tries')
  BY DEF TypeOK, Tries, Pending
<1>1. CASE Snapshot(a)
  BY <1>0, <1>1, SnapshotType, BasicClosed DEF Snapshot, TypeOK
<1>2. CASE ConnectionLost(a)
  <2>1. faults' \in [crashes : 0..MaxCrashes, lost : 0..MaxLost]
    <3>1. faults.lost + 1 \in 0..MaxLost
      BY SMT, <1>2, Constants DEF ConnectionLost, TypeOK
    <3> QED
      BY <1>2, <3>1 DEF ConnectionLost, TypeOK
  <2>2. TypeOK'
    BY <1>2, <2>1 DEF ConnectionLost, TypeOK
  <2> QED
    BY <1>0, <1>2, <2>2 DEF ConnectionLost, Opened, PartsLeft, PartsOK
<1>3. CASE Crash(a)
  <2>1. faults' \in [crashes : 0..MaxCrashes, lost : 0..MaxLost]
    <3>1. faults.crashes + 1 \in 0..MaxCrashes
      BY SMT, <1>3, Constants DEF Crash, TypeOK
    <3> QED
      BY <1>3, <3>1 DEF Crash, TypeOK
  <2>2. lock' \in Appliers \cup {Nobody}
    BY <1>3 DEF Crash, TypeOK
  <2> QED
    BY <1>0, <1>3, <2>1, <2>2, IdleType, BasicClosed DEF Crash
<1> QED
  BY <1>1, <1>2, <1>3

\* Every step keeps them.
LEMMA BasicStep == Basic /\ [Next]_vars => Basic'
<1> SUFFICES ASSUME Basic, [Next]_vars PROVE Basic'
  OBVIOUS
<1>1. ASSUME UNCHANGED vars PROVE Basic'
  BY <1>1 DEF vars, Basic, TypeOK, Tries, Pending, Opened, PartsLeft, PartsOK
<1>2. ASSUME NEW a \in Appliers, ApplierStep(a) PROVE Basic'
  BY <1>2, BasicHead, BasicSink, BasicWave, BasicOutcome DEF ApplierStep
<1> QED
  BY <1>1, <1>2, BasicRows, BasicCutover, BasicFault DEF Next, Done

---------------------------------------------------------------------------
(***************************************************************************)
(* The claim rows: who is behind a claim, and what has landed under it.    *)
(***************************************************************************)
LEMMA Calm ==
    ASSUME Owned, Landing, claims' = claims, landed' = landed,
           \A b \in Appliers, d \in Claims :
              Holds(b, d)' => Holds(b, d) /\ app'[b].th[d] = app[b].th[d]
    PROVE  Owned' /\ Landing'
<1>1. Owned'
  BY DEF Owned
<1>2. \A b \in Appliers, d \in Claims : Holds(b, d)' =>
         IF app'[b].th[d].st = "complete" THEN landed'[d][1] = 1
         ELSE landed'[d][1] = 0 /\ app'[b].th[d].k = 0
  BY SMT DEF Landing
<1> QED
  BY <1>1, <1>2 DEF Landing

\* A record that is not dispatching, or has just started a wave, holds nothing.
LEMMA Released ==
    ASSUME Owned, Landing, NEW a \in Appliers,
           \A b \in Appliers : b # a => app'[b] = app[b],
           app'[a].pc = "dispatch" =>
              \A c \in Claims : app'[a].th[c].st \in {"idle", "claim"},
           claims' = claims, landed' = landed
    PROVE  Owned' /\ Landing'
<1>1. ASSUME NEW b \in Appliers, NEW d \in Claims, Holds(b, d)'
      PROVE  Holds(b, d) /\ app'[b].th[d] = app[b].th[d]
  BY <1>1 DEF Holds, Owning
<1> QED
  BY <1>1, Calm

\* A step of the only thread behind a claim keeps Owned and Landing, if
\* what it leaves agrees with the claim row.
LEMMA SoleOwner ==
    ASSUME Owned, Landing, NEW a \in Appliers, NEW c \in Claims, NEW t, Moved(a, c, t),
           \A d \in Claims : d # c => claims'[d] = claims[d] /\ landed'[d] = landed[d],
           \A b \in Appliers : b # a => ~Holds(b, c),
           t.st \in Owning => claims'[c] = "claimed",
           landed'[c][1] <= 1,
           claims'[c] = "none" => landed'[c][1] = 0,
           claims'[c] = "completed" => landed'[c][1] = 1,
           t.st \in Owning => IF t.st = "complete" THEN landed'[c][1] = 1
                              ELSE landed'[c][1] = 0 /\ t.k = 0
    PROVE  Owned' /\ Landing'
<1>1. ASSUME NEW b \in Appliers, NEW d \in Claims, b # a \/ d # c, Holds(b, d)'
      PROVE  Holds(b, d) /\ app'[b].th[d] = app[b].th[d] /\ d # c
  BY SMT, <1>1 DEF Holds, Moved
<1>2. Holds(a, c)' => t.st \in Owning /\ app'[a].th[c] = t
  BY DEF Holds, Moved
<1>3. \A b \in Appliers, d \in Claims : Holds(b, d)' => claims'[d] = "claimed"
  BY SMT, <1>1, <1>2 DEF Owned
<1>4. \A b1, b2 \in Appliers, d \in Claims : Holds(b1, d)' /\ Holds(b2, d)' => b1 = b2
  BY SMT, <1>1 DEF Owned
<1>5. Owned'
  BY <1>3, <1>4 DEF Owned
<1>6. \A b \in Appliers, d \in Claims : Holds(b, d)' =>
         IF app'[b].th[d].st = "complete" THEN landed'[d][1] = 1
         ELSE landed'[d][1] = 0 /\ app'[b].th[d].k = 0
  <2> TAKE b \in Appliers, d \in Claims
  <2>1. CASE b = a /\ d = c
    BY <1>2, <2>1
  <2>2. CASE ~(b = a /\ d = c)
    BY SMT, <1>1, <2>2 DEF Landing
  <2> QED
    BY <2>1, <2>2
<1>7. \A d \in Claims : /\ landed'[d][1] <= 1
                        /\ claims'[d] = "none" => landed'[d][1] = 0
                        /\ claims'[d] = "completed" => landed'[d][1] = 1
  BY SMT DEF Landing
<1>8. Landing'
  BY <1>6, <1>7 DEF Landing
<1> QED
  BY <1>5, <1>8

\* At the start nothing is claimed and nothing has landed.
LEMMA OwnedInit == SingleWrites /\ Init => Owned /\ Landing
<1> SUFFICES ASSUME SingleWrites, Init PROVE Owned /\ Landing
  OBVIOUS
<1>1. \A a \in Appliers, c \in Claims : ~Holds(a, c)
  BY IdleType DEF Init, Holds
<1>2. \A c \in Claims : landed[c] = [k \in 1..1 |-> 0] /\ claims[c] = "none"
  BY DEF Init, SingleWrites
<1>3. \A c \in Claims : landed[c][1] = 0
  BY SMT, <1>2
<1> QED
  BY SMT, <1>1, <1>2, <1>3 DEF Owned, Landing

\* effect_sink_claim, the write, completion and release keep Owned and
\* Landing.
LEMMA OwnedSink ==
    ASSUME SingleWrites, Basic, Owned, Landing, NEW a \in Appliers, SinkStep(a)
    PROVE  Owned' /\ Landing'
<1>1. PICK c \in Claims :
         \/ SinkClaim(a, c) \/ SinkWrite(a, c) \/ SinkRelease(a, c) \/ SinkComplete(a, c)
         \/ \E kind \in {"retry", "terminal"} : SinkRaises(a, c, kind)
  BY DEF SinkStep
<1> DEFINE x == app[a].th[c]
<1>2. /\ TypeOK /\ Parts[c] = 1
      /\ claims[c] \in {"none", "claimed", "completed"}
      /\ \A st \in ThreadStates : SetThread(a, c, st) => Moved(a, c, [st |-> st, k |-> x.k])
  BY ThreadSets DEF Basic, TypeOK, SingleWrites
<1>3. /\ landed[c][1] <= 1
      /\ claims[c] = "none" => landed[c][1] = 0
      /\ claims[c] = "completed" => landed[c][1] = 1
  BY DEF Landing
<1>4. Holds(a, c) =>
         /\ claims[c] = "claimed" /\ \A b \in Appliers : b # a => ~Holds(b, c)
         /\ IF x.st = "complete" THEN landed[c][1] = 1 ELSE landed[c][1] = 0 /\ x.k = 0
  BY DEF Owned, Landing
<1>5. DOMAIN claims = Claims
  BY DEF Basic, TypeOK
<1>6. x.st = "claim" => x.k = 0
  BY DEF Basic, PartsLeft, PartsOK
<1> HIDE DEF x
<1>7. CASE SinkClaim(a, c)
  <2>1. app[a].pc = "dispatch" /\ x.st = "claim" /\ landed' = landed
    BY <1>7 DEF SinkClaim, Running, x
  <2>2. CASE claims[c] = "none"
    <3>1. claims' = [claims EXCEPT ![c] = "claimed"] /\ SetThread(a, c, "write")
      BY <1>7, <2>2 DEF SinkClaim
    <3>2. Moved(a, c, [st |-> "write", k |-> x.k])
      BY <1>2, <3>1 DEF ThreadStates
    <3>3. \A b \in Appliers : ~Holds(b, c)
      BY <2>2 DEF Owned
    <3> QED
      BY <1>3, <1>5, <1>6, <2>1, <2>2, <3>1, <3>2, <3>3, SoleOwner
  <2>3. CASE claims[c] # "none"
    <3>1. claims' = claims
      BY <1>7, <2>3 DEF SinkClaim
    <3>2. PICK st \in {"ok", "uncertain"} : SetThread(a, c, st)
      BY <1>2, <1>7, <2>3 DEF SinkClaim
    <3>3. Moved(a, c, [st |-> st, k |-> x.k])
      BY <1>2, <3>2 DEF ThreadStates
    <3>4. ASSUME NEW b \in Appliers, NEW d \in Claims, Holds(b, d)'
          PROVE  Holds(b, d) /\ app'[b].th[d] = app[b].th[d]
      BY SMT, <3>3, <3>4 DEF Holds, Moved, Owning
    <3> QED
      BY <2>1, <3>1, <3>4, Calm
  <2> QED
    BY <2>2, <2>3
<1>8. CASE SinkWrite(a, c)
  <2>1. app[a].pc = "dispatch" /\ x.st = "write"
    BY <1>8 DEF SinkWrite, Running, x
  <2>2. Holds(a, c)
    BY <2>1 DEF Holds, Owning, x
  <2>3. x.k = 0 /\ landed[c][1] = 0
    BY <1>4, <2>1, <2>2
  <2> DEFINE k == app[a].th[c].k + 1
             t == [st |-> IF k = Parts[c] THEN "complete" ELSE "write", k |-> k]
  <2>4. landed' = [landed EXCEPT ![c][k] = @ + 1] /\ app' = [app EXCEPT ![a].th[c] = t]
    BY <1>8 DEF SinkWrite
  <2>a. k = 1
    BY SMT, <2>3 DEF x
  <2>b. t = [st |-> "complete", k |-> 1]
    BY <1>2, <2>a
  <2> HIDE DEF k, t
  <2>5. Moved(a, c, [st |-> "complete", k |-> 1])
    BY <1>2, <2>4, <2>b, ThreadMoves DEF ThreadStates
  <2>c. landed'[c][k] = landed[c][k] + 1 /\ \A d \in Claims : d # c => landed'[d] = landed[d]
    <3>1. k \in 1..Parts[c] /\ landed' = [landed EXCEPT ![c][k] = @ + 1] /\ TypeOK
      BY SMT, <1>2, <2>4, <2>a
    <3> QED
      BY <3>1, LandedType
  <2>6. landed'[c][1] = 1 /\ \A d \in Claims : d # c => landed'[d] = landed[d]
    BY SMT, <2>3, <2>a, <2>c
  <2>7. claims' = claims
    BY <1>8 DEF SinkWrite
  <2> QED
    BY SMT, <1>4, <2>2, <2>5, <2>6, <2>7, SoleOwner
<1>9. CASE SinkRelease(a, c)
  <2>1. app[a].pc = "dispatch" /\ x.st \in {"release_terminal", "release_retry"}
        /\ landed' = landed
    BY <1>9 DEF SinkRelease, Running, x
  <2>2. Holds(a, c)
    BY <2>1 DEF Holds, Owning, x
  <2>3. landed[c][1] = 0 /\ claims[c] = "claimed"
    BY <1>4, <2>1, <2>2
  <2>4. PICK st \in {"terminal", "retry"} : SetThread(a, c, st)
    BY <1>9 DEF SinkRelease
  <2>5. Moved(a, c, [st |-> st, k |-> x.k]) /\ st \notin Owning
    BY <1>2, <2>4 DEF ThreadStates, Owning
  <2>6. claims' = claims \/ claims' = [claims EXCEPT ![c] = "none"]
    BY <1>9, <2>3 DEF SinkRelease
  <2> QED
    BY SMT, <1>4, <1>5, <2>1, <2>2, <2>3, <2>5, <2>6, SoleOwner
<1>10. CASE SinkComplete(a, c)
  <2>1. app[a].pc = "dispatch" /\ x.st = "complete" /\ landed' = landed
    BY <1>10 DEF SinkComplete, Running, x
  <2>2. Holds(a, c)
    BY <2>1 DEF Holds, Owning, x
  <2>3. landed[c][1] = 1 /\ claims[c] = "claimed"
    BY <1>4, <2>1, <2>2
  <2>4. PICK st \in {"ok", "retry"} : SetThread(a, c, st)
    BY <1>10 DEF SinkComplete
  <2>5. Moved(a, c, [st |-> st, k |-> x.k]) /\ st \notin Owning
    BY <1>2, <2>4 DEF ThreadStates, Owning
  <2>6. claims' = claims \/ claims' = [claims EXCEPT ![c] = "completed"]
    BY <1>10, <2>3 DEF SinkComplete
  <2> QED
    BY SMT, <1>4, <1>5, <2>1, <2>2, <2>3, <2>5, <2>6, SoleOwner
<1>11. ASSUME NEW kind \in {"retry", "terminal"}, SinkRaises(a, c, kind)
       PROVE  Owned' /\ Landing'
  <2>1. app[a].pc = "dispatch" /\ x.st = "write" /\ landed' = landed /\ claims' = claims
    BY <1>11 DEF SinkRaises, Running, x
  <2>2. Holds(a, c)
    BY <2>1 DEF Holds, Owning, x
  <2>3. PICK st \in {"release_terminal", "release_retry"} : SetThread(a, c, st)
    BY <1>11 DEF SinkRaises
  <2>4. Moved(a, c, [st |-> st, k |-> x.k])
    BY <1>2, <2>3 DEF ThreadStates
  <2> QED
    BY <1>3, <1>4, <2>1, <2>2, <2>4, SoleOwner
<1> QED
  BY <1>1, <1>7, <1>8, <1>9, <1>10, <1>11

\* Every step keeps Owned and Landing, crashes and lost connections
\* included.
LEMMA OwnedStep == SingleWrites /\ Basic /\ Owned /\ Landing /\ [Next]_vars => Owned' /\ Landing'
<1> SUFFICES ASSUME SingleWrites, Basic, Owned, Landing, [Next]_vars
             PROVE  Owned' /\ Landing'
  OBVIOUS
<1>0. TypeOK
  BY DEF Basic
<1>1. ASSUME app' = app, claims' = claims, landed' = landed PROVE Owned' /\ Landing'
  BY <1>1, Calm DEF Holds
<1>2. ASSUME NEW a \in Appliers, NEW r \in AppType, app' = [app EXCEPT ![a] = r],
             r.pc # "dispatch", claims' = claims, landed' = landed
      PROVE  Owned' /\ Landing'
  BY <1>0, <1>2, Replaced, Released
<1>3. ASSUME NEW a \in Appliers, NEW e \in Effects,
             SkipRow(a, e) \/ StopAtRow(a, e) \/ DiscardRow(a, e)
      PROVE  Owned' /\ Landing'
  BY <1>0, <1>2, <1>3, AdvanceType, IdleType DEF SkipRow, StopAtRow, DiscardRow
<1>4. ASSUME NEW a \in Appliers, NEW e \in Effects, DispatchRow(a, e)
      PROVE  Owned' /\ Landing'
  <2>1. Reopened(a, "dispatch", e, 1, app[a].err, StartWave(e, 1))
    BY <1>0, <1>4, DispatchMoves
  <2>2. \A c \in Claims : StartWave(e, 1)[c].st \in {"idle", "claim"}
    BY DEF StartWave
  <2> QED
    BY <1>4, <2>1, <2>2, Released DEF Reopened, DispatchRow
<1>5. ASSUME NEW a \in Appliers, NextWave(a) PROVE Owned' /\ Landing'
  <2> DEFINE T == StartWave(app[a].eid, app[a].wave + 1)
  <2>1. Reopened(a, "dispatch", app[a].eid, app[a].wave + 1, app[a].err, T)
    BY <1>0, <1>5, NextWaveMoves
  <2>2. \A c \in Claims : T[c].st \in {"idle", "claim"}
    BY DEF StartWave
  <2> QED
    BY <1>5, <2>1, <2>2, Released DEF Reopened, NextWave
<1>6. ASSUME NEW a \in Appliers, DispatchReturns(a) PROVE Owned' /\ Landing'
  BY <1>0, <1>6, ReturnMoves, Released DEF Reopened, DispatchReturns
<1>7. ASSUME NEW a \in Appliers, CommitOutcome(a) \/ RecordAfterwards(a)
      PROVE  Owned' /\ Landing'
  <2>1. app[a].eid \in Effects
    BY <1>7 DEF Basic, Opened, CommitOutcome, RecordAfterwards
  <2>2. app' = [app EXCEPT ![a] = Advance(a, app[a].eid)] \/ app' = [app EXCEPT ![a] = Idle]
    BY <1>7 DEF CommitOutcome, RecordAfterwards
  <2>3. claims' = claims /\ landed' = landed
    BY <1>7 DEF CommitOutcome, RecordAfterwards
  <2> QED
    BY <1>0, <1>2, <2>1, <2>2, <2>3, AdvanceType, IdleType
<1>8. ASSUME NEW a \in Appliers, CommitFails(a) PROVE Owned' /\ Landing'
  <2>1. app[a] \in AppType
    BY <1>0 DEF TypeOK
  <2> DEFINE r == [app[a] EXCEPT !.pc = "record"]
  <2>2. r \in AppType /\ r.pc # "dispatch"
    BY <2>1 DEF AppType
  <2>3. app' = [app EXCEPT ![a] = Idle] \/ app' = [app EXCEPT ![a] = r]
    BY <1>8 DEF CommitFails
  <2> HIDE DEF r
  <2> QED
    BY <1>2, <1>8, <2>2, <2>3, IdleType DEF CommitFails
<1>9. ASSUME NEW a \in Appliers, Snapshot(a) \/ Crash(a) PROVE Owned' /\ Landing'
  BY <1>2, <1>9, SnapshotType, IdleType DEF Snapshot, Crash
<1>10. ASSUME NEW a \in Appliers, ApplierStep(a) PROVE Owned' /\ Landing'
  BY <1>3, <1>4, <1>5, <1>6, <1>7, <1>8, <1>10, OwnedSink DEF ApplierStep
<1>11. ASSUME NEW a \in Appliers, ConnectionLost(a) PROVE Owned' /\ Landing'
  BY <1>1, <1>11 DEF ConnectionLost
<1>12. ASSUME NEW e \in Effects, Enqueue(e) \/ BackoffElapses(e) PROVE Owned' /\ Landing'
  BY <1>1, <1>12 DEF Enqueue, BackoffElapses
<1>13. ASSUME NEW s \in {"v2", "resident"}, Cutover(s) PROVE Owned' /\ Landing'
  BY <1>1, <1>13 DEF Cutover
<1>14. ASSUME UNCHANGED vars PROVE Owned' /\ Landing'
  BY <1>1, <1>14 DEF vars
<1> QED
  BY <1>9, <1>10, <1>11, <1>12, <1>13, <1>14 DEF Next, Done

(***************************************************************************)
(* The types hold in every reachable state, for any constants.             *)
(***************************************************************************)
THEOREM TypeCorrect == Spec => []TypeOK
<1>1. Spec => []Basic
  BY BasicInit, BasicStep, PTL DEF Spec
<1>2. Basic => TypeOK
  BY DEF Basic
<1> QED
  BY <1>1, <1>2, PTL

(***************************************************************************)
(* NeverTwice for every target whose write is one statement or transaction *)
(* (a sink's write under effect_sink_claim): no crash, lost connection,    *)
(* concurrent drain, retry or failing release makes it land twice. A       *)
(* target of several separate writes is excluded: its failure between two  *)
(* of them releases the claim.                                             *)
(***************************************************************************)
THEOREM WritesOnce == SingleWrites => (Spec => []NeverTwice)
<1> SUFFICES ASSUME SingleWrites PROVE Spec => []NeverTwice
  OBVIOUS
<1> DEFINE Inv == Basic /\ Owned /\ Landing
<1>1. Init => Inv
  BY BasicInit, OwnedInit
<1>2. Inv /\ [Next]_vars => Inv'
  BY BasicStep, OwnedStep
<1>3. Inv => NeverTwice
  BY SMT DEF Basic, TypeOK, Landing, NeverTwice, SingleWrites
<1> HIDE DEF Inv
<1> QED
  BY <1>1, <1>2, <1>3, PTL DEF Spec

---------------------------------------------------------------------------
(***************************************************************************)
(* The lists of rows, and the turn of a row while no connection is lost.   *)
(***************************************************************************)
\* No row appears; rows leave a list only once they are decided.
LEMMA ListsSame ==
    ASSUME Basic, Lists,
           \A d \in Effects : outbox'[d].status = "absent" <=> outbox[d].status = "absent",
           \A d \in Effects : outbox'[d].status = "pending" => outbox[d].status = "pending",
           \A a \in Appliers : app'[a].list \subseteq app[a].list,
           \A a \in Appliers : \A e \in app'[a].list : \A d \in app[a].list :
              d \in app'[a].list \/ outbox'[d].status # "pending"
    PROVE  Lists'
<1>1. \A e \in Effects : \A d \in 1..e : d \in Effects
  BY SMT, Constants
<1>2. \A a \in Appliers : app[a].list \subseteq Effects
  BY DEF Basic, TypeOK, AppType
<1>3. \A e \in Effects : \A d \in 1..e :
         outbox'[d].status = "absent" => outbox'[e].status = "absent"
  BY <1>1 DEF Lists
<1>4. ASSUME NEW a \in Appliers, NEW e \in app'[a].list
      PROVE  outbox'[e].status # "absent" /\ \A d \in 1..e : Pending(d)' => d \in app'[a].list
  <2>1. e \in app[a].list /\ e \in Effects
    BY <1>2
  <2>2. outbox'[e].status # "absent"
    BY <2>1 DEF Lists
  <2>3. ASSUME NEW d \in 1..e, Pending(d)' PROVE d \in app'[a].list
    <3>1. d \in Effects /\ outbox'[d].status = "pending"
      BY <1>1, <2>1, <2>3 DEF Pending
    <3>2. Pending(d)
      BY <3>1 DEF Pending
    <3>3. d \in app[a].list
      BY <2>1, <3>2 DEF Lists
    <3> QED
      BY <3>1, <3>3
  <2> QED
    BY <2>2, <2>3
<1> QED
  BY <1>3, <1>4 DEF Lists

\* The list of a is dropped, or loses a row that is decided.
LEMMA ListsClosed ==
    ASSUME Basic, Lists, NEW a \in Appliers, NEW r \in AppType,
           app' = [app EXCEPT ![a] = r], NEW e \in Effects,
           \/ r.list = {}
           \/ r.list = app[a].list \ {e} /\ outbox'[e].status # "pending",
           \A d \in Effects : d # e => outbox'[d] = outbox[d],
           \/ outbox'[e].status = outbox[e].status
           \/ outbox[e].status = "pending" /\ outbox'[e].status \notin {"pending", "absent"}
    PROVE  Lists'
<1>1. app'[a] = r /\ \A b \in Appliers : b # a => app'[b] = app[b]
  BY Replaced DEF Basic
<1>2. \A b \in Appliers : app'[b].list \subseteq app[b].list
  BY <1>1
<1>3. \A b \in Appliers : \A x \in app'[b].list : \A d \in app[b].list :
            d \in app'[b].list \/ outbox'[d].status # "pending"
  BY <1>1
<1>4. \A d \in Effects : outbox'[d].status = "absent" <=> outbox[d].status = "absent"
  OBVIOUS
<1>5. \A d \in Effects : outbox'[d].status = "pending" => outbox[d].status = "pending"
  OBVIOUS
<1> QED
  BY <1>2, <1>3, <1>4, <1>5, ListsSame

\* A step that changes neither rows nor lists keeps Lists.
LEMMA ListsKept ==
    ASSUME Basic, Lists, outbox' = outbox, \A a \in Appliers : app'[a].list = app[a].list
    PROVE  Lists'
  BY ListsSame

\* effect_pending lists a prefix of the pending rows.
LEMMA ListsSnapshot ==
    ASSUME Basic, Lists, NEW a \in Appliers, Snapshot(a)
    PROVE  Lists'
<1>1. \A e \in Effects : \A d \in 1..e : d \in Effects /\ \A x \in 1..d : x \in 1..e
  BY SMT, Constants
<1>2. app'[a].list = DuePrefix /\ \A b \in Appliers : b # a => app'[b] = app[b]
  BY SnapshotType, Replaced DEF Basic, Snapshot
<1>3. ASSUME NEW e \in DuePrefix
      PROVE  e \in Effects /\ outbox[e].status # "absent"
             /\ \A d \in 1..e : Pending(d) => d \in DuePrefix
  BY <1>1 DEF DuePrefix, Pending
<1>4. outbox' = outbox
  BY DEF Snapshot
<1>5. ASSUME NEW b \in Appliers, NEW e \in app'[b].list
      PROVE  outbox'[e].status # "absent" /\ \A d \in 1..e : Pending(d)' => d \in app'[b].list
  <2>1. CASE b = a
    BY <1>2, <1>3, <1>4, <2>1 DEF Pending
  <2>2. CASE b # a
    BY <1>2, <1>4, <2>2 DEF Pending, Lists
  <2> QED
    BY <2>1, <2>2
<1> QED
  BY <1>4, <1>5 DEF Lists

\* A new row is behind every listed one.
LEMMA ListsEnqueue ==
    ASSUME Basic, Lists, NEW e \in Effects, Enqueue(e)
    PROVE  Lists'
<1>1. \A x \in Effects : \A d \in 1..x : d \in Effects
  BY SMT, Constants
<1>2. /\ outbox[e].status = "absent" /\ outbox'[e].status = "pending" /\ app' = app
      /\ \A d \in Effects : d # e => outbox'[d] = outbox[d]
  BY SMT DEF Enqueue, Basic, TypeOK
<1>3. \A d \in 1..e : d # e => outbox[d].status # "absent"
  BY SMT, Constants DEF Enqueue
<1>4. \A x \in Effects : \A d \in 1..x :
         outbox'[d].status = "absent" => outbox'[x].status = "absent"
  BY <1>1, <1>2, <1>3 DEF Lists
<1>5. ASSUME NEW b \in Appliers, NEW x \in app[b].list
      PROVE  outbox'[x].status # "absent" /\ \A d \in 1..x : Pending(d)' => d \in app[b].list
  <2>1. x \in Effects /\ outbox[x].status # "absent"
    BY DEF Lists, Basic, TypeOK, AppType
  <2>2. \A d \in 1..x : d # e
    BY <1>2, <2>1 DEF Lists
  <2>3. \A d \in 1..x : outbox'[d] = outbox[d]
    BY <1>1, <1>2, <2>1, <2>2
  <2> QED
    BY <1>2, <2>1, <2>3 DEF Lists, Pending
<1> QED
  BY <1>2, <1>4, <1>5 DEF Lists

\* A thread of a moves and no list does.
LEMMA SinkMoves ==
    ASSUME Basic, NEW a \in Appliers, SinkStep(a)
    PROVE  /\ app[a].pc = "dispatch"
           /\ UNCHANGED <<rt, outbox, lock, faults>>
           /\ \A b \in Appliers : b # a => app'[b] = app[b]
           /\ app'[a].pc = app[a].pc /\ app'[a].list = app[a].list
           /\ app'[a].eid = app[a].eid /\ app'[a].wave = app[a].wave
<1>1. PICK c \in Claims :
         \/ SinkClaim(a, c) \/ SinkWrite(a, c) \/ SinkRelease(a, c) \/ SinkComplete(a, c)
         \/ \E kind \in {"retry", "terminal"} : SinkRaises(a, c, kind)
  BY DEF SinkStep
<1>2. UNCHANGED <<rt, outbox, lock, faults>> /\ app[a].pc = "dispatch"
  BY <1>1 DEF SinkClaim, SinkWrite, SinkRelease, SinkComplete, SinkRaises, Running
<1>3. \E th : app' = [app EXCEPT ![a].th = th]
  BY <1>1 DEF SinkClaim, SinkWrite, SinkRelease, SinkComplete, SinkRaises, SetThread
<1>4. app \in [Appliers -> AppType]
  BY DEF Basic, TypeOK
<1> QED
  BY SMT, <1>2, <1>3, <1>4 DEF AppType

\* The holder of the locks keeps its row, and the row its status and generation.
LEMMA LockedKept ==
    ASSUME Locked, rt' = rt, lock' = lock,
           \A b \in Appliers : lock = b =>
              /\ InTx(b)' /\ app'[b].eid = app[b].eid /\ app'[b].list = app[b].list
              /\ outbox'[app[b].eid].status = outbox[app[b].eid].status
              /\ outbox'[app[b].eid].gen = outbox[app[b].eid].gen
    PROVE  Locked'
<1>1. ASSUME NEW b \in Appliers, lock' = b PROVE InTx(b)' /\ Current(b, app[b].eid)'
  <2>1. Current(b, app[b].eid)
    BY <1>1 DEF Locked
  <2> QED
    BY <1>1, <2>1 DEF Current, Pending, Fenced
<1> QED
  BY <1>1 DEF Locked, Current, Pending, Fenced

\* Nothing is claimed of an applier when nobody holds the runtime row.
LEMMA LockedFree == ASSUME lock' = Nobody PROVE Locked'
  BY Constants DEF Locked

\* The holder of the locks has an effect of the outbox open.
LEMMA HolderOpen ==
    ASSUME Basic, Locked, NEW a \in Appliers, lock = a
    PROVE  app[a].eid \in Effects /\ outbox[app[a].eid].status = "pending"
  BY DEF Basic, Opened, Locked, InTx, Current, Pending

\* Inserting a row and the end of a backoff keep Lists and Locked.
LEMMA TurnRows ==
    ASSUME Basic, Lists, Locked, NEW e \in Effects, Enqueue(e) \/ BackoffElapses(e)
    PROVE  Lists' /\ Locked'
<1>1. CASE Enqueue(e)
  <2>1. outbox[e].status = "absent" /\ \A d \in Effects : d # e => outbox'[d] = outbox[d]
    BY <1>1 DEF Enqueue, Basic, TypeOK
  <2>2. Locked'
    BY <1>1, <2>1, HolderOpen, LockedKept DEF Enqueue, Locked, InTx
  <2> QED
    BY <1>1, <2>2, ListsEnqueue
<1>2. CASE BackoffElapses(e)
  <2>1. outbox \in [Effects -> RowType]
    BY DEF Basic, TypeOK
  <2>2. \A d \in Effects : outbox'[d].status = outbox[d].status /\ outbox'[d].gen = outbox[d].gen
    BY <1>2, <2>1 DEF BackoffElapses, RowType
  <2>3. Locked'
    BY <1>2, <2>2, HolderOpen, LockedKept DEF BackoffElapses, Locked, InTx
  <2>4. app' = app
    BY <1>2 DEF BackoffElapses
  <2>5. Lists'
    BY <2>2, <2>4, ListsSame
  <2> QED
    BY <2>3, <2>5
<1> QED
  BY <1>1, <1>2

\* Taking the next row of the list keeps them.
LEMMA TurnHead ==
    ASSUME Basic, Lists, Locked, NEW a \in Appliers, NEW e \in Effects,
           SkipRow(a, e) \/ StopAtRow(a, e) \/ DiscardRow(a, e) \/ DispatchRow(a, e)
    PROVE  Lists' /\ Locked'
<1>0. TypeOK
  BY DEF Basic
<1>1. CASE SkipRow(a, e)
  <2>1. Lists'
    <3>1. /\ outbox' = outbox /\ outbox[e].status # "pending"
          /\ app' = [app EXCEPT ![a] = Advance(a, e)]
      BY <1>1 DEF SkipRow, Pending
    <3>2. Advance(a, e) \in AppType /\ Advance(a, e).list = app[a].list \ {e}
      BY <1>0, AdvanceType
    <3> QED
      BY <3>1, <3>2, ListsClosed
  <2> QED
    BY <1>1, <2>1, LockedFree DEF SkipRow, AtRow
<1>2. CASE StopAtRow(a, e)
  <2>1. Lists'
    BY <1>2, IdleType, ListsClosed DEF StopAtRow
  <2> QED
    BY <1>2, <2>1, LockedFree DEF StopAtRow, AtRow
<1>3. CASE DiscardRow(a, e)
  <2>1. outbox'[e].status = "discarded" /\ \A d \in Effects : d # e => outbox'[d] = outbox[d]
    BY <1>0, <1>3, StatusSet DEF DiscardRow
  <2>2. Lists'
    <3>1. outbox[e].status = "pending" /\ app' = [app EXCEPT ![a] = Advance(a, e)]
      BY <1>3 DEF DiscardRow, Pending
    <3>2. Advance(a, e) \in AppType /\ Advance(a, e).list = app[a].list \ {e}
      BY <1>0, AdvanceType
    <3> QED
      BY <2>1, <3>1, <3>2, ListsClosed
  <2> QED
    BY <1>3, <2>2, LockedFree DEF DiscardRow, AtRow
<1>4. CASE DispatchRow(a, e)
  <2>1. Reopened(a, "dispatch", e, 1, app[a].err, StartWave(e, 1))
    BY <1>0, <1>4, DispatchMoves
  <2>2. Lists'
    BY <1>4, <2>1, ListsKept DEF Reopened, DispatchRow
  <2>3. /\ outbox' = outbox /\ rt' = rt /\ lock' = a
        /\ Pending(e) /\ Fenced(e) /\ e \in app[a].list /\ \A d \in app[a].list : e <= d
    BY <1>4 DEF DispatchRow, AtRow
  <2>4. /\ app'[a].pc = "dispatch" /\ app'[a].eid = e /\ app'[a].list = app[a].list
    BY <2>1 DEF Reopened
  <2>5. InTx(a)' /\ Current(a, app[a].eid)'
    BY <2>3, <2>4 DEF InTx, Current, Pending, Fenced
  <2> QED
    BY <2>2, <2>3, <2>5 DEF Locked
<1> QED
  BY <1>1, <1>2, <1>3, <1>4

\* The dispatch of a row keeps them.
LEMMA TurnWave ==
    ASSUME Basic, Lists, Locked, NEW a \in Appliers,
           SinkStep(a) \/ NextWave(a) \/ DispatchReturns(a)
    PROVE  Lists' /\ Locked'
<1>0. TypeOK
  BY DEF Basic
<1>1. /\ UNCHANGED <<rt, outbox, lock>>
      /\ \A b \in Appliers : b # a => app'[b] = app[b]
      /\ app'[a].pc \in {"dispatch", "commit"}
      /\ app'[a].list = app[a].list /\ app'[a].eid = app[a].eid
  <2>1. CASE SinkStep(a)
    BY <2>1, SinkMoves
  <2>2. CASE NextWave(a)
    BY <1>0, <2>2, NextWaveMoves DEF Reopened, NextWave
  <2>3. CASE DispatchReturns(a)
    BY <1>0, <2>3, ReturnMoves DEF Reopened, DispatchReturns
  <2> QED
    BY <2>1, <2>2, <2>3
<1>2. Lists'
  BY <1>1, ListsKept
<1>3. Locked'
  BY <1>1, LockedKept DEF InTx, Locked
<1> QED
  BY <1>2, <1>3

\* The outcome of a row, committed with the lock's release, keeps them.
LEMMA TurnOutcome ==
    ASSUME Basic, Lists, Locked, NEW a \in Appliers,
           CommitOutcome(a) \/ CommitFails(a) \/ RecordAfterwards(a)
    PROVE  Lists' /\ Locked'
<1>0. TypeOK /\ Tries
  BY DEF Basic
<1> DEFINE e == app[a].eid
<1>1. e \in Effects
  BY DEF Basic, Opened, CommitOutcome, CommitFails, RecordAfterwards
<1>2. ASSUME outbox' = RecordError(e, app[a].err), app' = [app EXCEPT ![a] = Idle]
      PROVE  Lists' /\ \A d \in Effects : d # e => outbox'[d] = outbox[d]
  <2>1. /\ \A d \in Effects : d # e => outbox'[d] = outbox[d]
        /\ outbox'[e].status \in {outbox[e].status, "needs_reconciliation"}
        /\ outbox[e].status # "pending" => outbox'[e] = outbox[e]
    BY SMT, <1>0, <1>1, <1>2, RecordErrorType
  <2> HIDE DEF e
  <2>2. Lists'
    BY <1>1, <1>2, <2>1, IdleType, ListsClosed
  <2> QED
    BY <2>1, <2>2
<1>3. CASE CommitOutcome(a)
  <2>1. lock = a /\ lock' = Nobody
    BY <1>3 DEF CommitOutcome
  <2>2. outbox[e].status = "pending"
    BY <2>1, HolderOpen
  <2>3. ASSUME NEW st \in {"applied", "rejected"}, outbox' = [outbox EXCEPT ![e].status = st],
               app' = [app EXCEPT ![a] = Advance(a, e)]
        PROVE  Lists'
    <3> HIDE DEF e
    <3>1. outbox'[e].status = st /\ \A d \in Effects : d # e => outbox'[d] = outbox[d]
      BY <1>0, <1>1, <2>3, StatusSet
    <3>2. Advance(a, e) \in AppType /\ Advance(a, e).list = app[a].list \ {e}
      BY <1>0, <1>1, AdvanceType
    <3> QED
      BY <1>1, <2>2, <2>3, <3>1, <3>2, ListsClosed
  <2>4. Lists'
    BY <1>2, <1>3, <2>3 DEF CommitOutcome
  <2> QED
    BY <2>1, <2>4, LockedFree
<1>4. CASE CommitFails(a)
  <2>1. lock # a /\ UNCHANGED <<rt, outbox, lock>>
    BY <1>4 DEF CommitFails
  <2> DEFINE r == IF app[a].err = "none" THEN Idle ELSE [app[a] EXCEPT !.pc = "record"]
  <2>2. app' = [app EXCEPT ![a] = r]
    BY <1>4 DEF CommitFails
  <2>3. r \in AppType /\ (r.list = {} \/ r.list = app[a].list)
    <3>1. app[a] \in AppType
      BY <1>0 DEF TypeOK
    <3>2. [app[a] EXCEPT !.pc = "record"] \in AppType
          /\ [app[a] EXCEPT !.pc = "record"].list = app[a].list
      BY <3>1 DEF AppType
    <3> QED
      BY <3>2, IdleType
  <2> HIDE DEF r
  <2>4. app'[a] = r /\ \A b \in Appliers : b # a => app'[b] = app[b]
    BY <1>0, <2>2, <2>3, Replaced
  <2>5. Lists'
    BY <1>1, <2>1, <2>2, <2>3, <2>4, ListsClosed, ListsKept
  <2>6. Locked'
    BY <2>1, <2>4, LockedKept DEF Locked, InTx
  <2> QED
    BY <2>5, <2>6
<1>5. CASE RecordAfterwards(a)
  <2>1. /\ app[a].pc = "record" /\ UNCHANGED <<rt, lock>>
        /\ \A b \in Appliers : lock = b => app[b].eid # e
        /\ outbox' = RecordError(e, app[a].err) /\ app' = [app EXCEPT ![a] = Idle]
    BY <1>5 DEF RecordAfterwards
  <2>2. lock # a
    BY <2>1 DEF Locked, InTx
  <2>3. \A b \in Appliers : b # a => app'[b] = app[b]
    BY <1>0, <2>1, IdleType, Replaced
  <2>4. Lists' /\ \A d \in Effects : d # e => outbox'[d] = outbox[d]
    BY <1>2, <2>1
  <2> HIDE DEF e
  <2>5. Locked'
    BY <2>1, <2>2, <2>3, <2>4, HolderOpen, LockedKept DEF Locked, InTx
  <2> QED
    BY <2>4, <2>5
<1> QED
  BY <1>3, <1>4, <1>5

\* A snapshot, a lost connection and a death keep them.
LEMMA TurnFault ==
    ASSUME Basic, Lists, Locked, NEW a \in Appliers,
           Snapshot(a) \/ ConnectionLost(a) \/ Crash(a)
    PROVE  Lists' /\ Locked'
<1>0. TypeOK
  BY DEF Basic
<1>1. CASE Snapshot(a)
  <2>1. lock # a /\ UNCHANGED <<rt, outbox, lock>>
    BY <1>1 DEF Snapshot, Locked, InTx
  <2>2. \A b \in Appliers : b # a => app'[b] = app[b]
    BY <1>0, <1>1, SnapshotType, Replaced DEF Snapshot
  <2>3. Locked'
    BY <2>1, <2>2, LockedKept DEF Locked, InTx
  <2> QED
    BY <1>1, <2>3, ListsSnapshot
<1>2. CASE ConnectionLost(a)
  BY <1>2, LockedFree, ListsKept DEF ConnectionLost
<1>3. CASE Crash(a)
  <2>1. /\ \A b \in Appliers : b # a => app'[b] = app[b]
        /\ app'[a].list = {} /\ UNCHANGED <<rt, outbox>>
    BY <1>0, <1>3, IdleType, Replaced DEF Crash
  <2>2. Lists'
    BY <2>1, ListsSame
  <2>3. CASE lock = a
    BY <1>3, <2>2, <2>3, LockedFree DEF Crash
  <2>4. CASE lock # a
    BY <1>3, <2>1, <2>2, <2>4, LockedKept DEF Crash, Locked, InTx
  <2> QED
    BY <2>3, <2>4
<1> QED
  BY <1>1, <1>2, <1>3

\* Every step keeps them.
LEMMA TurnStep == Basic /\ Lists /\ Locked /\ [Next]_vars => Lists' /\ Locked'
<1> SUFFICES ASSUME Basic, Lists, Locked, [Next]_vars PROVE Lists' /\ Locked'
  OBVIOUS
<1>1. ASSUME UNCHANGED vars PROVE Lists' /\ Locked'
  BY <1>1, ListsKept, LockedKept DEF vars, Locked, InTx
<1>2. ASSUME NEW s \in {"v2", "resident"}, Cutover(s) PROVE Lists' /\ Locked'
  BY <1>2, ListsKept, LockedFree DEF Cutover
<1>3. ASSUME NEW a \in Appliers, ApplierStep(a) PROVE Lists' /\ Locked'
  BY <1>3, TurnHead, TurnWave, TurnOutcome DEF ApplierStep
<1> QED
  BY <1>1, <1>2, <1>3, TurnRows, TurnFault DEF Next, Done

\* They hold of an empty outbox.
LEMMA TurnInit == Init => Lists /\ Locked
  BY SMT, Constants, IdleType DEF Init, Lists, Locked

---------------------------------------------------------------------------
(***************************************************************************)
(* No connection is lost: a dispatching applier is alone, and its threads  *)
(* are those of the wave it is in.                                         *)
(***************************************************************************)
LEMMA ThreadsFrame ==
    ASSUME Threads, NEW a \in Appliers, \A b \in Appliers : b # a => app'[b] = app[b],
           app'[a].pc = "dispatch" => \A c \in Claims :
              app'[a].th[c].st # "idle" <=> c \in Waves[app'[a].eid][app'[a].wave]
    PROVE  Threads'
  BY SMT DEF Threads

\* A step of a sink leaves only threads of the current wave at work.
LEMMA ThreadsSink ==
    ASSUME Basic, Threads, NEW a \in Appliers, SinkStep(a)
    PROVE  Threads'
<1>1. PICK c \in Claims :
         \/ SinkClaim(a, c) \/ SinkWrite(a, c) \/ SinkRelease(a, c) \/ SinkComplete(a, c)
         \/ \E kind \in {"retry", "terminal"} : SinkRaises(a, c, kind)
  BY DEF SinkStep
<1>2. app[a].th[c].st # "idle" /\ app[a].pc = "dispatch"
  BY <1>1 DEF SinkClaim, SinkWrite, SinkRelease, SinkComplete, SinkRaises, Running
<1>3. PICK t : Moved(a, c, t) /\ t.st # "idle"
  <2>1. TypeOK
    BY DEF Basic
  <2>2. ASSUME NEW st \in ThreadStates \ {"idle"}, SetThread(a, c, st)
        PROVE  \E t : Moved(a, c, t) /\ t.st # "idle"
    <3> DEFINE t == [st |-> st, k |-> app[a].th[c].k]
    <3>1. Moved(a, c, t)
      BY <2>1, <2>2, ThreadSets
    <3>2. t.st # "idle"
      BY <2>2
    <3> HIDE DEF t
    <3> QED
      BY <3>1, <3>2
  <2>3. CASE SinkWrite(a, c)
    <3> DEFINE k == app[a].th[c].k + 1
               t == [st |-> IF k = Parts[c] THEN "complete" ELSE "write", k |-> k]
    <3>1. app[a].th[c].k \in Nat
      BY SMT, <2>1 DEF TypeOK, AppType
    <3>2. t \in [st : ThreadStates, k : Nat] /\ t.st # "idle"
      BY SMT, <3>1 DEF ThreadStates
    <3>3. app' = [app EXCEPT ![a].th[c] = t]
      BY <2>3 DEF SinkWrite
    <3> HIDE DEF t
    <3> QED
      BY <2>1, <3>2, <3>3, ThreadMoves
  <2>4. CASE SinkClaim(a, c)
    <3>1. claims[c] \in {"none", "claimed", "completed"}
      BY <2>1 DEF TypeOK
    <3> QED
      BY <2>2, <2>4, <3>1 DEF SinkClaim, ThreadStates
  <2>5. CASE SinkRelease(a, c)
    BY <2>2, <2>5 DEF SinkRelease, ThreadStates
  <2>6. CASE SinkComplete(a, c)
    BY <2>2, <2>6 DEF SinkComplete, ThreadStates
  <2>7. ASSUME NEW kind \in {"retry", "terminal"}, SinkRaises(a, c, kind)
        PROVE  \E t : Moved(a, c, t) /\ t.st # "idle"
    BY <2>2, <2>7 DEF SinkRaises, ThreadStates
  <2> QED
    BY <1>1, <2>3, <2>4, <2>5, <2>6, <2>7
<1> QED
  BY SMT, <1>2, <1>3, ThreadsFrame DEF Moved, Threads

\* Every step does.
LEMMA ThreadsStep == Basic /\ Threads /\ [Next]_vars => Threads'
<1> SUFFICES ASSUME Basic, Threads, [Next]_vars PROVE Threads'
  OBVIOUS
<1>0. TypeOK
  BY DEF Basic
<1>1. ASSUME app' = app PROVE Threads'
  BY <1>1 DEF Threads
<1>2. ASSUME NEW a \in Appliers, NEW r \in AppType, app' = [app EXCEPT ![a] = r],
             r.pc # "dispatch"
      PROVE  Threads'
  BY <1>0, <1>2, Replaced, ThreadsFrame
<1>3. ASSUME NEW a \in Appliers, NEW e \in Effects,
             SkipRow(a, e) \/ StopAtRow(a, e) \/ DiscardRow(a, e)
      PROVE  Threads'
  BY <1>0, <1>2, <1>3, AdvanceType, IdleType DEF SkipRow, StopAtRow, DiscardRow
<1>4. ASSUME NEW a \in Appliers, NEW e \in Effects, DispatchRow(a, e) PROVE Threads'
  <2>1. Reopened(a, "dispatch", e, 1, app[a].err, StartWave(e, 1))
    BY <1>0, <1>4, DispatchMoves
  <2>2. \A c \in Claims : StartWave(e, 1)[c].st # "idle" <=> c \in Waves[e][1]
    BY DEF StartWave
  <2> QED
    BY <2>1, <2>2, ThreadsFrame DEF Reopened
<1>5. ASSUME NEW a \in Appliers, NextWave(a) PROVE Threads'
  <2> DEFINE w == app[a].wave + 1
             T == StartWave(app[a].eid, w)
  <2>1. Reopened(a, "dispatch", app[a].eid, w, app[a].err, T)
    BY <1>0, <1>5, NextWaveMoves
  <2>2. \A c \in Claims : T[c].st # "idle" <=> c \in Waves[app[a].eid][w]
    BY DEF StartWave
  <2> HIDE DEF w, T
  <2> QED
    BY <2>1, <2>2, ThreadsFrame DEF Reopened
<1>6. ASSUME NEW a \in Appliers, DispatchReturns(a) PROVE Threads'
  BY <1>0, <1>6, ReturnMoves, ThreadsFrame DEF Reopened
<1>7. ASSUME NEW a \in Appliers, CommitOutcome(a) \/ RecordAfterwards(a) PROVE Threads'
  <2>1. app[a].eid \in Effects
    BY <1>7 DEF Basic, Opened, CommitOutcome, RecordAfterwards
  <2>2. app' = [app EXCEPT ![a] = Advance(a, app[a].eid)] \/ app' = [app EXCEPT ![a] = Idle]
    BY <1>7 DEF CommitOutcome, RecordAfterwards
  <2> QED
    BY <1>0, <1>2, <2>1, <2>2, AdvanceType, IdleType
<1>8. ASSUME NEW a \in Appliers, CommitFails(a) PROVE Threads'
  <2>1. app[a] \in AppType
    BY <1>0 DEF TypeOK
  <2> DEFINE r == [app[a] EXCEPT !.pc = "record"]
  <2>2. r \in AppType /\ r.pc # "dispatch"
    BY <2>1 DEF AppType
  <2>3. app' = [app EXCEPT ![a] = Idle] \/ app' = [app EXCEPT ![a] = r]
    BY <1>8 DEF CommitFails
  <2> HIDE DEF r
  <2> QED
    BY <1>2, <2>2, <2>3, IdleType
<1>9. ASSUME NEW a \in Appliers, Snapshot(a) \/ Crash(a) PROVE Threads'
  BY <1>2, <1>9, SnapshotType, IdleType DEF Snapshot, Crash
<1>10. ASSUME NEW a \in Appliers, ApplierStep(a) PROVE Threads'
  BY <1>3, <1>4, <1>5, <1>6, <1>7, <1>8, <1>10, ThreadsSink DEF ApplierStep
<1>11. ASSUME NEW a \in Appliers, ConnectionLost(a) PROVE Threads'
  BY <1>1, <1>11 DEF ConnectionLost
<1>12. ASSUME NEW e \in Effects, Enqueue(e) \/ BackoffElapses(e) PROVE Threads'
  BY <1>1, <1>12 DEF Enqueue, BackoffElapses
<1>13. ASSUME NEW s \in {"v2", "resident"}, Cutover(s) PROVE Threads'
  BY <1>1, <1>13 DEF Cutover
<1>14. ASSUME UNCHANGED vars PROVE Threads'
  BY <1>1, <1>14 DEF vars
<1> QED
  BY <1>9, <1>10, <1>11, <1>12, <1>13, <1>14 DEF Next, Done

\* While no connection is lost, an applier at work holds its locks.
LEMMA NoLossStep == MaxLost = 0 /\ Basic /\ NoLoss /\ [Next]_vars => NoLoss'
<1> SUFFICES ASSUME MaxLost = 0, Basic, NoLoss, [Next]_vars PROVE NoLoss'
  OBVIOUS
<1>0. TypeOK
  BY DEF Basic
<1>1. ASSUME NEW a \in Appliers, NEW r \in AppType, app' = [app EXCEPT ![a] = r],
             r.pc \in {"idle", "next"},
             lock' = lock \/ lock = a \/ \A b \in Appliers : lock # b
      PROVE  NoLoss'
  <2>1. app'[a] = r /\ \A b \in Appliers : b # a => app'[b] = app[b]
    BY <1>0, <1>1, Replaced
  <2> QED
    BY <1>1, <2>1 DEF NoLoss, InTx
<1>2. ASSUME app' = app, lock' = lock PROVE NoLoss'
  BY <1>2 DEF NoLoss, InTx
<1>3. ASSUME NEW a \in Appliers, NEW e \in Effects,
             SkipRow(a, e) \/ StopAtRow(a, e) \/ DiscardRow(a, e)
      PROVE  NoLoss'
  BY <1>0, <1>1, <1>3, AdvanceType, IdleType DEF SkipRow, StopAtRow, DiscardRow
<1>4. ASSUME NEW a \in Appliers, NEW e \in Effects, DispatchRow(a, e) PROVE NoLoss'
  <2>1. Reopened(a, "dispatch", e, 1, app[a].err, StartWave(e, 1))
    BY <1>0, <1>4, DispatchMoves
  <2>2. lock' = a /\ \A b \in Appliers : lock # b
    BY <1>4, Constants DEF DispatchRow, AtRow
  <2> QED
    BY <2>1, <2>2 DEF Reopened, NoLoss, InTx
<1>5. ASSUME NEW a \in Appliers, NextWave(a) PROVE NoLoss'
  BY ZenonT(30), <1>0, <1>5, NextWaveMoves DEF Reopened, NoLoss, InTx, NextWave, WaveDone
<1>6. ASSUME NEW a \in Appliers, DispatchReturns(a) PROVE NoLoss'
  BY ZenonT(30), <1>0, <1>6, ReturnMoves DEF Reopened, NoLoss, InTx, DispatchReturns, WaveDone
<1>7. ASSUME NEW a \in Appliers, SinkStep(a) PROVE NoLoss'
  BY <1>7, SinkMoves DEF NoLoss, InTx
<1>8. ASSUME NEW a \in Appliers, CommitOutcome(a) PROVE NoLoss'
  <2>1. app[a].eid \in Effects /\ lock = a
    BY <1>8 DEF Basic, Opened, CommitOutcome
  <2>2. app' = [app EXCEPT ![a] = Advance(a, app[a].eid)] \/ app' = [app EXCEPT ![a] = Idle]
    BY <1>8 DEF CommitOutcome
  <2> QED
    BY <1>0, <1>1, <2>1, <2>2, AdvanceType, IdleType
<1>9. ASSUME NEW a \in Appliers, CommitFails(a) \/ RecordAfterwards(a) PROVE NoLoss'
  BY <1>9 DEF CommitFails, RecordAfterwards, NoLoss, InTx
<1>10. ASSUME NEW a \in Appliers, Snapshot(a) \/ Crash(a) PROVE NoLoss'
  BY <1>1, <1>10, SnapshotType, IdleType DEF Snapshot, Crash
<1>11. ASSUME NEW a \in Appliers, ConnectionLost(a) PROVE NoLoss'
  BY SMT, <1>0, <1>11 DEF ConnectionLost, TypeOK
<1>12. ASSUME NEW a \in Appliers, ApplierStep(a) PROVE NoLoss'
  BY <1>3, <1>4, <1>5, <1>6, <1>7, <1>8, <1>9, <1>12 DEF ApplierStep
<1>13. ASSUME NEW e \in Effects, Enqueue(e) \/ BackoffElapses(e) PROVE NoLoss'
  BY <1>2, <1>13 DEF Enqueue, BackoffElapses
<1>14. ASSUME NEW s \in {"v2", "resident"}, Cutover(s) PROVE NoLoss'
  BY <1>2, <1>14 DEF Cutover
<1>15. ASSUME UNCHANGED vars PROVE NoLoss'
  BY <1>2, <1>15 DEF vars
<1> QED
  BY <1>10, <1>11, <1>12, <1>13, <1>14, <1>15 DEF Next, Done

\* Only SinkWrite lands a part, and of a claim of the row its applier has open.
LEMMA WhoLands ==
    ASSUME Basic, Threads, [Next]_vars, NEW e \in Effects, LandsNow(e)
    PROVE  \E a \in Appliers : app[a].pc = "dispatch" /\ app[a].eid = e
<1>1. PICK c \in ClaimsOf(e) : landed'[c] # landed[c]
  BY DEF LandsNow
<1>2. \E a \in Appliers : SinkStep(a)
  <2>1. ASSUME NEW a \in Appliers, ApplierStep(a), ~SinkStep(a) PROVE landed' = landed
    BY <2>1 DEF ApplierStep, SkipRow, StopAtRow, DiscardRow, DispatchRow, NextWave,
                DispatchReturns, CommitOutcome, CommitFails, RecordAfterwards
  <2>2. ASSUME NEW a \in Appliers, Snapshot(a) \/ ConnectionLost(a) \/ Crash(a)
        PROVE  landed' = landed
    BY <2>2 DEF Snapshot, ConnectionLost, Crash
  <2>3. ASSUME NEW d \in Effects, Enqueue(d) \/ BackoffElapses(d) PROVE landed' = landed
    BY <2>3 DEF Enqueue, BackoffElapses
  <2>4. ASSUME NEW s \in {"v2", "resident"}, Cutover(s) PROVE landed' = landed
    BY <2>4 DEF Cutover
  <2>5. UNCHANGED vars => landed' = landed
    BY DEF vars
  <2> QED
    BY <1>1, <2>1, <2>2, <2>3, <2>4, <2>5 DEF Next, Done
<1>3. PICK a \in Appliers, d \in Claims : SinkWrite(a, d)
  BY SMT, <1>1, <1>2 DEF SinkStep, SinkClaim, SinkRelease, SinkComplete, SinkRaises
<1>4. d = c
  <2>1. \A x \in Claims : x # d => landed'[x] = landed[x]
    BY <1>3 DEF SinkWrite, Basic, TypeOK
  <2>2. c \in Claims
    BY ClaimWave
  <2> QED
    BY <1>1, <2>1, <2>2
<1>5. app[a].pc = "dispatch" /\ app[a].th[c].st = "write"
  BY <1>3, <1>4 DEF SinkWrite, Running
<1>6. app[a].eid \in Effects /\ app[a].wave \in 1..Len(Waves[app[a].eid])
  BY <1>5 DEF Basic, Opened
<1>7. c \in Waves[app[a].eid][app[a].wave]
  BY <1>3, <1>4, <1>5 DEF Threads
<1>8. c \in ClaimsOf(app[a].eid)
  BY <1>6, <1>7, WaveClaims
<1>9. app[a].eid = e
  BY <1>1, <1>6, <1>8, WavesAssumption
<1> QED
  BY <1>5, <1>9

\* A write lands for the row whose turn it is, in the generation the user has.
LEMMA LandsInTurn ==
    ASSUME Basic, Lists, Locked, NoLoss, Threads, [Next]_vars, NEW e \in Effects, LandsNow(e)
    PROVE  Fenced(e) /\ \A d \in 1..(e - 1) : ~Pending(d)
<1>1. PICK a \in Appliers : app[a].pc = "dispatch" /\ app[a].eid = e
  BY WhoLands
<1>2. Current(a, e)
  BY <1>1 DEF NoLoss, Locked, InTx
<1>3. ASSUME NEW d \in 1..(e - 1), Pending(d) PROVE FALSE
  <2>1. d \in 1..e /\ d < e
    BY SMT, Constants
  <2>2. d \in app[a].list
    BY <1>2, <1>3, <2>1 DEF Lists, Current
  <2>3. e <= d
    BY <1>2, <2>2 DEF Current
  <2> QED
    BY SMT, <2>1, <2>3, Constants
<1> QED
  BY <1>2, <1>3 DEF Current

TurnInv == Basic /\ Lists /\ Locked /\ NoLoss /\ Threads

\* While no connection is lost, these invariants hold together.
LEMMA TurnInvariance == ASSUME MaxLost = 0 PROVE Spec => []TurnInv
<1>1. Init => TurnInv
  BY BasicInit, TurnInit, IdleType DEF TurnInv, Init, NoLoss, Threads, InTx
<1>2. TurnInv /\ [Next]_vars => TurnInv'
  BY BasicStep, TurnStep, ThreadsStep, NoLossStep DEF TurnInv
<1> QED
  BY <1>1, <1>2, PTL DEF Spec

(***************************************************************************)
(* InOrder and FencedLanding while no outer connection is lost: because    *)
(* apply_pending_effects holds the runtime row and the outbox row across   *)
(* the dispatch, a write lands only after every earlier effect of the user *)
(* has left the pending state and only for the generation and the runtime  *)
(* the user has, whatever backs off, dies, drains at once or cuts over.    *)
(***************************************************************************)
THEOREM WritesInTurn == MaxLost = 0 => (Spec => InOrder /\ FencedLanding)
<1> SUFFICES ASSUME MaxLost = 0 PROVE Spec => InOrder /\ FencedLanding
  OBVIOUS
<1>1. TurnInv /\ [Next]_vars =>
        [\A e \in Effects : LandsNow(e) => \A d \in 1..(e - 1) : ~Pending(d)]_vars
  BY LandsInTurn DEF TurnInv
<1>2. TurnInv /\ [Next]_vars => [\A e \in Effects : LandsNow(e) => Fenced(e)]_vars
  BY LandsInTurn DEF TurnInv
<1> QED
  BY <1>1, <1>2, TurnInvariance, PTL DEF Spec, InOrder, FencedLanding

---------------------------------------------------------------------------
(***************************************************************************)
(* The verdicts, while no connection is lost.                              *)
(***************************************************************************)
\* The claims stand; a row that gets a verdict gets a true one.
LEMMA DecidedFrame ==
    ASSUME Decided, UNCHANGED <<claims, landed, rejected>>,
           \A e \in Effects : outbox'[e].status = "applied" /\ outbox[e].status # "applied" =>
              \A c \in ClaimsOf(e) : Resolved(e, c),
           \A e \in Effects : outbox'[e].status = "rejected" /\ outbox[e].status # "rejected" =>
              \A c \in ClaimsOf(e) : landed[c][1] = 0,
           \A a \in Appliers : app'[a] # app[a] /\ app'[a].pc = "dispatch" => DispatchOK(a)',
           \A a \in Appliers : app'[a] # app[a] /\ app'[a].pc = "commit" => CommitOK(a)'
    PROVE  Decided'
<1>1. \A e \in Effects : outbox'[e].status = "applied" => \A c \in ClaimsOf(e) : Resolved(e, c)'
  BY DEF Decided, Resolved
<1>2. \A e \in Effects : outbox'[e].status = "rejected" =>
        \A c \in ClaimsOf(e) : landed'[c][1] = 0
  BY DEF Decided
<1>3. ASSUME NEW a \in Appliers, app'[a].pc = "dispatch" PROVE DispatchOK(a)'
  <2>1. CASE app'[a] = app[a]
    <3>1. DispatchOK(a)
      BY <1>3, <2>1 DEF Decided
    <3> QED
      BY <2>1, <3>1 DEF DispatchOK, Resolved
  <2> QED
    BY <1>3, <2>1
<1>4. ASSUME NEW a \in Appliers, app'[a].pc = "commit" PROVE CommitOK(a)'
  <2>1. CASE app'[a] = app[a]
    <3>1. CommitOK(a)
      BY <1>4, <2>1 DEF Decided
    <3> QED
      BY <2>1, <3>1 DEF CommitOK, Resolved
  <2> QED
    BY <1>4, <2>1
<1> QED
  BY <1>1, <1>2, <1>3, <1>4 DEF Decided

\* The record of a is replaced by one that is in no transaction.
LEMMA DecidedClosed ==
    ASSUME TypeOK, Decided, NEW a \in Appliers, NEW r \in AppType, app' = [app EXCEPT ![a] = r],
           r.pc \in {"idle", "next"}, UNCHANGED <<claims, landed, rejected>>,
           \A e \in Effects : outbox'[e].status = "applied" /\ outbox[e].status # "applied" =>
              \A c \in ClaimsOf(e) : Resolved(e, c),
           \A e \in Effects : outbox'[e].status = "rejected" /\ outbox[e].status # "rejected" =>
              \A c \in ClaimsOf(e) : landed[c][1] = 0
    PROVE  Decided'
<1>1. app'[a] = r /\ \A b \in Appliers : b # a => app'[b] = app[b]
  BY Replaced
<1>2. \A b \in Appliers : app'[b] # app[b] => app'[b].pc \notin {"dispatch", "commit"}
  BY <1>1
<1> QED
  BY <1>2, DecidedFrame

\* The applier in a transaction is alone.
LEMMA Alone ==
    ASSUME TurnInv, NEW a \in Appliers, InTx(a), NEW b \in Appliers, b # a
    PROVE  ~InTx(b)
  BY DEF TurnInv, NoLoss

\* A thread's verdict, once recorded with its claim, is kept by Decided.
LEMMA DecidedThread ==
    ASSUME TurnInv, Decided, NEW a \in Appliers, app[a].pc = "dispatch",
           NEW c \in Claims, c \in Waves[app[a].eid][app[a].wave], NEW t, Moved(a, c, t),
           \A d \in Claims : d # c => /\ claims'[d] = claims[d] /\ landed'[d] = landed[d]
                                      /\ d \in rejected' <=> d \in rejected,
           outbox' = outbox,
           t.st = "ok" => claims'[c] = "completed",
           t.st = "terminal" => c \in rejected' /\ landed'[c][1] = 0
    PROVE  Decided'
<1> DEFINE f == app[a].eid
<1>1. /\ f \in Effects /\ app[a].wave \in 1..Len(Waves[f]) /\ Len(Waves[f]) \in Nat
      /\ outbox[f].status = "pending"
  BY Constants DEF TurnInv, Basic, Opened, NoLoss, Locked, InTx, Current, Pending
<1>2. c \in ClaimsOf(f)
  BY <1>1, WaveClaims
<1>3. ASSUME NEW e \in Effects, e # f, NEW d \in ClaimsOf(e)
      PROVE  d \in Claims /\ d # c
  BY SMT, <1>1, <1>2, <1>3, ClaimWave, WavesAssumption
<1>4. ASSUME NEW w \in 1..(app[a].wave - 1), NEW d \in Waves[f][w]
      PROVE  d \in Claims /\ d # c
  <2>1. w \in 1..Len(Waves[f]) /\ w # app[a].wave
    BY SMT, <1>1
  <2>2. d \in Claims
    BY <1>1, <2>1, WaveClaims
  <2>3. f \in BatchEffects
    <3>1. Len(Waves[f]) > 1
      BY SMT, <1>1, <2>1
    <3>2. ASSUME f \notin BatchEffects PROVE FALSE
      <4>1. PICK x \in Claims : Waves[f] = << {x} >>
        BY <1>1, <3>2, WavesAssumption
      <4>2. Len(Waves[f]) = 1
        BY SMT, <4>1
      <4> QED
        BY SMT, <3>1, <4>2
    <3> QED
      BY <3>2
  <2>4. DOMAIN Waves[f] = 1..Len(Waves[f])
    BY <1>1, Constants
  <2>5. Waves[f][w] \cap Waves[f][app[a].wave] = {}
    BY <1>1, <2>1, <2>3, <2>4, WavesAssumption
  <2> QED
    BY <2>2, <2>5
<1> HIDE DEF f
<1>5. \A e \in Effects : outbox'[e].status = "applied" => \A d \in ClaimsOf(e) : Resolved(e, d)'
  BY <1>1, <1>3 DEF Decided, Resolved
<1>6. \A e \in Effects : outbox'[e].status = "rejected" =>
        \A d \in ClaimsOf(e) : landed'[d][1] = 0
  BY SMT, <1>1, <1>3 DEF Decided
<1>7. DispatchOK(a)'
  <2>1. DispatchOK(a) /\ app'[a].eid = f /\ app[a].eid = f /\ app'[a].wave = app[a].wave
    BY DEF Decided, Moved, f
  <2>2. \A w \in 1..(app[a].wave - 1) : \A d \in Waves[f][w] :
           claims[d] = "completed" \/ (f \in BatchEffects /\ d \in rejected)
    BY <2>1 DEF DispatchOK, Resolved
  <2>3. \A d \in Claims : app'[a].th[d].st = "ok" => claims'[d] = "completed"
    BY SMT, <2>1 DEF DispatchOK, Moved
  <2>4. \A d \in Claims : app'[a].th[d].st = "terminal" => d \in rejected' /\ landed'[d][1] = 0
    BY SMT, <2>1 DEF DispatchOK, Moved
  <2>5. \A w \in 1..(app[a].wave - 1) : \A d \in Waves[f][w] :
           claims'[d] = "completed" \/ (f \in BatchEffects /\ d \in rejected')
    BY <1>4, <2>2
  <2> QED
    BY <2>1, <2>3, <2>4, <2>5 DEF DispatchOK, Resolved
<1>8. app'[a].pc = "dispatch" /\ \A b \in Appliers : b # a => ~InTx(b)'
  BY Alone DEF Moved, InTx
<1> QED
  BY <1>5, <1>6, <1>7, <1>8 DEF Decided, InTx

\* Every step of a sink keeps Decided.
LEMMA DecidedSink ==
    ASSUME SingleWrites, TurnInv, Owned, Landing, Decided, NEW a \in Appliers, SinkStep(a)
    PROVE  Decided'
<1>1. PICK c \in Claims :
         \/ SinkClaim(a, c) \/ SinkWrite(a, c) \/ SinkRelease(a, c) \/ SinkComplete(a, c)
         \/ \E kind \in {"retry", "terminal"} : SinkRaises(a, c, kind)
  BY DEF SinkStep
<1> DEFINE x == app[a].th[c]
<1>2. /\ TypeOK /\ DOMAIN claims = Claims /\ claims[c] \in {"none", "claimed", "completed"}
      /\ \A st \in ThreadStates : SetThread(a, c, st) => Moved(a, c, [st |-> st, k |-> x.k])
  BY ThreadSets DEF TurnInv, Basic, TypeOK
<1>3. app[a].pc = "dispatch" /\ x.st # "idle"
  BY <1>1 DEF SinkClaim, SinkWrite, SinkRelease, SinkComplete, SinkRaises, Running
<1>4. c \in Waves[app[a].eid][app[a].wave]
  BY <1>3 DEF TurnInv, Threads
<1>5. outbox' = outbox
  BY <1>1 DEF SinkClaim, SinkWrite, SinkRelease, SinkComplete, SinkRaises
<1> HIDE DEF x
<1>6. CASE SinkClaim(a, c)
  <2>1. PICK st \in {"write", "ok", "uncertain"} :
           SetThread(a, c, st) /\ (st = "ok" => claims[c] = "completed")
    BY <1>2, <1>6 DEF SinkClaim
  <2>2. Moved(a, c, [st |-> st, k |-> x.k])
    BY <1>2, <2>1 DEF ThreadStates
  <2>3. /\ landed' = landed /\ rejected' = rejected \ {c}
        /\ claims[c] = "completed" => claims' = claims
        /\ \A d \in Claims : d # c => claims'[d] = claims[d]
    BY <1>2, <1>6 DEF SinkClaim
  <2> QED
    BY <1>3, <1>4, <1>5, <2>1, <2>2, <2>3, DecidedThread
<1>7. CASE SinkWrite(a, c)
  <2> DEFINE k == app[a].th[c].k + 1
             t == [st |-> IF k = Parts[c] THEN "complete" ELSE "write", k |-> k]
  <2>1. app[a].th[c].k \in Nat
    BY SMT, <1>2 DEF TypeOK, AppType
  <2>2. t \in [st : ThreadStates, k : Nat] /\ t.st \notin {"ok", "terminal"}
    BY SMT, <2>1 DEF ThreadStates
  <2>3. app' = [app EXCEPT ![a].th[c] = t]
    BY <1>7 DEF SinkWrite
  <2> HIDE DEF t
  <2>4. Moved(a, c, t)
    BY <1>2, <2>2, <2>3, ThreadMoves
  <2>5. claims' = claims /\ rejected' = rejected
        /\ \A d \in Claims : d # c => landed'[d] = landed[d]
    BY <1>2, <1>7 DEF SinkWrite, TypeOK
  <2> QED
    BY <1>3, <1>4, <1>5, <2>2, <2>4, <2>5, DecidedThread
<1>8. CASE SinkRelease(a, c)
  <2>1. x.st \in {"release_terminal", "release_retry"} /\ landed' = landed
    BY <1>8 DEF SinkRelease, Running, x
  <2>2. landed[c][1] = 0
    BY <1>3, <2>1 DEF Landing, Holds, Owning, x
  <2>3. PICK st \in {"terminal", "retry"} :
          SetThread(a, c, st) /\ (st = "terminal" => c \in rejected')
    BY <1>8 DEF SinkRelease
  <2>4. Moved(a, c, [st |-> st, k |-> x.k])
    BY <1>2, <2>3 DEF ThreadStates
  <2>5. \A d \in Claims : d # c => claims'[d] = claims[d] /\ (d \in rejected' <=> d \in rejected)
    BY <1>2, <1>8 DEF SinkRelease
  <2> QED
    BY <1>3, <1>4, <1>5, <2>1, <2>2, <2>3, <2>4, <2>5, DecidedThread
<1>9. CASE SinkComplete(a, c)
  <2>1. PICK st \in {"ok", "retry"} :
          SetThread(a, c, st) /\ (st = "ok" => claims' = [claims EXCEPT ![c] = "completed"])
    BY <1>9 DEF SinkComplete
  <2>2. Moved(a, c, [st |-> st, k |-> x.k])
    BY <1>2, <2>1 DEF ThreadStates
  <2>3. /\ landed' = landed /\ rejected' = rejected
        /\ \A d \in Claims : d # c => claims'[d] = claims[d]
    BY <1>2, <1>9 DEF SinkComplete
  <2> QED
    BY <1>2, <1>3, <1>4, <1>5, <2>1, <2>2, <2>3, DecidedThread
<1>10. ASSUME NEW kind \in {"retry", "terminal"}, SinkRaises(a, c, kind) PROVE Decided'
  <2>1. PICK st \in {"release_terminal", "release_retry"} : SetThread(a, c, st)
    BY <1>10 DEF SinkRaises
  <2>2. Moved(a, c, [st |-> st, k |-> x.k])
    BY <1>2, <2>1 DEF ThreadStates
  <2>3. landed' = landed /\ rejected' = rejected /\ claims' = claims
    BY <1>10 DEF SinkRaises
  <2> QED
    BY <1>3, <1>4, <1>5, <2>1, <2>2, <2>3, DecidedThread
<1> QED
  BY <1>1, <1>6, <1>7, <1>8, <1>9, <1>10

\* The next wave and the return of a dispatch keep it: the wave is
\* decided.
LEMMA DecidedWave ==
    ASSUME TurnInv, Decided, NEW a \in Appliers, NextWave(a) \/ DispatchReturns(a)
    PROVE  Decided'
<1> DEFINE f == app[a].eid
           n == app[a].wave
<1>0. TypeOK /\ UNCHANGED <<claims, landed, rejected, outbox>>
  BY DEF TurnInv, Basic, NextWave, DispatchReturns
<1>1. /\ app[a].pc = "dispatch"
      /\ \A c \in Waves[f][n] : app[a].th[c].st \in {"ok", "terminal", "retry", "uncertain"}
  BY DEF NextWave, DispatchReturns, WaveDone, Outcomes
<1>2. f \in Effects /\ n \in 1..Len(Waves[f]) /\ Len(Waves[f]) \in Nat
  BY <1>1, Constants DEF TurnInv, Basic, Opened
<1>3. DispatchOK(a)
  BY <1>1 DEF Decided
<1>4. \A c \in Waves[f][n] : c \in Claims
  BY <1>2, WaveClaims
<1>5. ErrorOf(a) = "none" => \A c \in Waves[f][n] : Resolved(f, c)
  <2> SUFFICES ASSUME ErrorOf(a) = "none", NEW c \in Waves[f][n] PROVE Resolved(f, c)
    OBVIOUS
  <2>1. app[a].th[c].st \in Outcomes(a)
    BY DEF Outcomes
  <2>2. app[a].th[c].st \in {"ok", "terminal"}
        /\ (app[a].th[c].st = "terminal" => f \in BatchEffects)
    BY <1>1, <2>1 DEF ErrorOf
  <2> QED
    BY <1>3, <1>4, <2>2 DEF DispatchOK, Resolved
<1>6. CASE NextWave(a)
  <2>1. Reopened(a, "dispatch", f, n + 1, app[a].err, StartWave(f, n + 1))
    BY <1>0, <1>6, NextWaveMoves
  <2>2. \A c \in Claims : StartWave(f, n + 1)[c].st \notin {"ok", "terminal"}
    BY DEF StartWave
  <2>3. \A w \in 1..n : \A c \in Waves[f][w] :
           claims[c] = "completed" \/ (f \in BatchEffects /\ c \in rejected)
    <3> SUFFICES ASSUME NEW w \in 1..n, NEW c \in Waves[f][w]
                 PROVE  claims[c] = "completed" \/ (f \in BatchEffects /\ c \in rejected)
      OBVIOUS
    <3>1. CASE w = n
      BY <1>5, <1>6, <3>1 DEF NextWave, Resolved
    <3>2. CASE w # n
      <4>1. w \in 1..(n - 1)
        BY SMT, <1>2, <3>2
      <4> QED
        BY <1>3, <4>1 DEF DispatchOK, Resolved
    <3> QED
      BY <3>1, <3>2
  <2>4. /\ app'[a].pc = "dispatch" /\ app'[a].eid = f /\ app'[a].wave = n + 1
        /\ app'[a].th = StartWave(f, n + 1) /\ \A b \in Appliers : b # a => app'[b] = app[b]
    BY <2>1 DEF Reopened
  <2>5. app'[a].wave - 1 = n
    BY SMT, <1>2, <2>4
  <2>6. DispatchOK(a)'
    <3> HIDE DEF f, n
    <3>1. \A w \in 1..(app'[a].wave - 1) : \A c \in Waves[app'[a].eid][w] :
            claims'[c] = "completed" \/ (app'[a].eid \in BatchEffects /\ c \in rejected')
      BY <1>0, <2>3, <2>4, <2>5
    <3>2. \A c \in Claims : app'[a].th[c].st \notin {"ok", "terminal"}
      BY <2>2, <2>4
    <3> QED
      BY <3>1, <3>2 DEF DispatchOK, Resolved
  <2> QED
    BY <1>0, <2>4, <2>6, DecidedFrame
<1>7. CASE DispatchReturns(a)
  <2>1. Reopened(a, "commit", f, n, ErrorOf(a), app[a].th)
    BY <1>0, <1>7, ReturnMoves
  <2>2. /\ app'[a].pc = "commit" /\ app'[a].eid = f /\ app'[a].err = ErrorOf(a)
        /\ \A b \in Appliers : b # a => app'[b] = app[b]
    BY <2>1 DEF Reopened
  <2>3. ErrorOf(a) = "none" => \A c \in ClaimsOf(f) : Resolved(f, c)
    <3> SUFFICES ASSUME ErrorOf(a) = "none", NEW c \in ClaimsOf(f) PROVE Resolved(f, c)
      OBVIOUS
    <3>1. n = Len(Waves[f])
      BY <1>7 DEF DispatchReturns
    <3>2. PICK w \in 1..Len(Waves[f]) : c \in Waves[f][w]
      BY <1>2, ClaimWave
    <3>3. CASE w = n
      BY <1>5, <3>2, <3>3
    <3>4. CASE w # n
      <4>1. w \in 1..(n - 1)
        BY SMT, <1>2, <3>1, <3>4
      <4> QED
        BY <1>3, <3>2, <4>1 DEF DispatchOK
    <3> QED
      BY <3>3, <3>4
  <2>4. ErrorOf(a) = "terminal" => \A c \in ClaimsOf(f) : landed[c][1] = 0
    <3> SUFFICES ASSUME ErrorOf(a) = "terminal" PROVE \A c \in ClaimsOf(f) : landed[c][1] = 0
      OBVIOUS
    <3>1. "terminal" \in Outcomes(a) /\ f \notin BatchEffects
      BY DEF ErrorOf
    <3>2. PICK c \in Waves[f][n] : app[a].th[c].st = "terminal"
      BY <3>1 DEF Outcomes
    <3>3. PICK x \in Claims : Waves[f] = << {x} >>
      BY <1>2, <3>1, WavesAssumption
    <3>4. Len(Waves[f]) = 1 /\ Waves[f][1] = {x}
      BY SMT, <3>3
    <3>5. n = 1
      BY SMT, <1>2, <3>4
    <3>6. \A d \in ClaimsOf(f) : d = c
      BY SMT, <1>2, <3>2, <3>4, <3>5, ClaimWave
    <3> QED
      BY <1>3, <1>4, <3>2, <3>6 DEF DispatchOK
  <2>5. CommitOK(a)'
    <3>1. app'[a].err = "none" => \A c \in ClaimsOf(app'[a].eid) :
             claims'[c] = "completed" \/ (app'[a].eid \in BatchEffects /\ c \in rejected')
      BY <1>0, <2>2, <2>3 DEF Resolved
    <3>2. app'[a].err = "terminal" => \A c \in ClaimsOf(app'[a].eid) : landed'[c][1] = 0
      BY <1>0, <2>2, <2>4
    <3> QED
      BY <3>1, <3>2 DEF CommitOK, Resolved
  <2> QED
    BY <1>0, <2>2, <2>5, DecidedFrame
<1> QED
  BY <1>6, <1>7

\* Every step keeps Decided, while no connection is lost.
LEMMA DecidedStep ==
    MaxLost = 0 /\ SingleWrites /\ TurnInv /\ Owned /\ Landing /\ Decided /\ [Next]_vars => Decided'
<1> SUFFICES ASSUME MaxLost = 0, SingleWrites, TurnInv, Owned, Landing, Decided, [Next]_vars
             PROVE  Decided'
  OBVIOUS
<1>0. TypeOK /\ Tries /\ Basic
  BY DEF TurnInv, Basic
<1>1. ASSUME UNCHANGED <<app, claims, landed, rejected>>,
             \A e \in Effects : outbox'[e].status \in {outbox[e].status, "pending"}
      PROVE  Decided'
  BY <1>1, DecidedFrame
<1>2. ASSUME NEW a \in Appliers, NEW e \in Effects,
             SkipRow(a, e) \/ StopAtRow(a, e) \/ DiscardRow(a, e)
      PROVE  Decided'
  <2>1. \A d \in Effects : outbox'[d].status \in {outbox[d].status, "discarded"}
    BY <1>0, <1>2, StatusSet DEF SkipRow, StopAtRow, DiscardRow
  <2>2. app' = [app EXCEPT ![a] = Advance(a, e)] \/ app' = [app EXCEPT ![a] = Idle]
    BY <1>2 DEF SkipRow, StopAtRow, DiscardRow
  <2>3. UNCHANGED <<claims, landed, rejected>>
    BY <1>2 DEF SkipRow, StopAtRow, DiscardRow
  <2>4. Advance(a, e) \in AppType /\ Advance(a, e).pc \in {"idle", "next"}
    BY <1>0, AdvanceType
  <2>5. \A d \in Effects : /\ outbox'[d].status = "applied" => outbox[d].status = "applied"
                           /\ outbox'[d].status = "rejected" => outbox[d].status = "rejected"
    BY <2>1
  <2> QED
    BY <1>0, <2>2, <2>3, <2>4, <2>5, IdleType, DecidedClosed
<1>3. ASSUME NEW a \in Appliers, NEW e \in Effects, DispatchRow(a, e) PROVE Decided'
  <2>1. Reopened(a, "dispatch", e, 1, app[a].err, StartWave(e, 1))
    BY <1>0, <1>3, DispatchMoves
  <2>2. /\ app'[a].pc = "dispatch" /\ app'[a].wave = 1 /\ app'[a].th = StartWave(e, 1)
        /\ \A b \in Appliers : b # a => app'[b] = app[b]
    BY <2>1 DEF Reopened
  <2>3. \A c \in Claims : StartWave(e, 1)[c].st \notin {"ok", "terminal"}
    BY DEF StartWave
  <2>4. 1..(app'[a].wave - 1) = {}
    BY SMT, <2>2
  <2>5. DispatchOK(a)'
    BY <2>2, <2>3, <2>4 DEF DispatchOK
  <2>6. UNCHANGED <<claims, landed, rejected, outbox>>
    BY <1>3 DEF DispatchRow
  <2> QED
    BY <2>2, <2>5, <2>6, DecidedFrame
<1>4. ASSUME NEW a \in Appliers, CommitOutcome(a) PROVE Decided'
  <2> DEFINE e == app[a].eid
  <2>1. e \in Effects /\ CommitOK(a) /\ UNCHANGED <<claims, landed, rejected>>
    BY <1>0, <1>4 DEF Basic, Opened, CommitOutcome, Decided
  <2>2. app' = [app EXCEPT ![a] = Advance(a, e)] \/ app' = [app EXCEPT ![a] = Idle]
    BY <1>4 DEF CommitOutcome
  <2>3. /\ \A d \in Effects : d # e => outbox'[d] = outbox[d]
        /\ \/ app[a].err = "none" /\ outbox'[e].status = "applied"
           \/ app[a].err = "terminal" /\ outbox'[e].status = "rejected"
           \/ outbox'[e].status \in {outbox[e].status, "needs_reconciliation"}
    BY SMT, <1>0, <1>4, <2>1, StatusSet, RecordErrorType DEF CommitOutcome
  <2>4. Advance(a, e) \in AppType /\ Advance(a, e).pc \in {"idle", "next"}
    BY <1>0, <2>1, AdvanceType
  <2>5. \A d \in Effects : outbox'[d].status = "applied" /\ outbox[d].status # "applied" =>
           \A c \in ClaimsOf(d) : Resolved(d, c)
    BY <2>1, <2>3 DEF CommitOK
  <2>6. \A d \in Effects : outbox'[d].status = "rejected" /\ outbox[d].status # "rejected" =>
           \A c \in ClaimsOf(d) : landed[c][1] = 0
    BY <2>1, <2>3 DEF CommitOK
  <2> HIDE DEF e
  <2> QED
    BY <1>0, <2>1, <2>2, <2>4, <2>5, <2>6, IdleType, DecidedClosed
<1>5. ASSUME NEW a \in Appliers, CommitFails(a) \/ RecordAfterwards(a) PROVE Decided'
  BY <1>5 DEF CommitFails, RecordAfterwards, TurnInv, NoLoss, InTx
<1>6. ASSUME NEW a \in Appliers, Snapshot(a) \/ Crash(a) PROVE Decided'
  BY ZenonT(30), <1>0, <1>6, SnapshotType, IdleType, DecidedClosed DEF Snapshot, Crash
<1>7. ASSUME NEW a \in Appliers, ConnectionLost(a) PROVE Decided'
  BY SMT, <1>0, <1>7 DEF ConnectionLost, TypeOK
<1>8. ASSUME NEW a \in Appliers, ApplierStep(a) PROVE Decided'
  BY <1>2, <1>3, <1>4, <1>5, <1>8, DecidedSink, DecidedWave DEF ApplierStep
<1>9. ASSUME NEW e \in Effects, Enqueue(e) \/ BackoffElapses(e) PROVE Decided'
  <2>1. \A d \in Effects : outbox'[d].status \in {outbox[d].status, "pending"}
    BY SMT, <1>0, <1>9 DEF Enqueue, BackoffElapses, TypeOK, RowType
  <2> QED
    BY <1>1, <1>9, <2>1 DEF Enqueue, BackoffElapses
<1>10. ASSUME NEW s \in {"v2", "resident"}, Cutover(s) PROVE Decided'
  BY <1>1, <1>10 DEF Cutover
<1>11. ASSUME UNCHANGED vars PROVE Decided'
  BY <1>1, <1>11 DEF vars
<1> QED
  BY <1>6, <1>7, <1>8, <1>9, <1>10, <1>11 DEF Next, Done

(***************************************************************************)
(* AppliedMeansLanded and RejectedMeansNotLanded for single-write targets  *)
(* while no outer connection is lost: the verdict apply_pending_effects    *)
(* stages for a row is true of every write of it, batches of parallel and  *)
(* ordered mutations, failing releases and repeated attempts included.     *)
(***************************************************************************)
THEOREM VerdictsAreTrue ==
    MaxLost = 0 /\ SingleWrites => (Spec => [](AppliedMeansLanded /\ RejectedMeansNotLanded))
<1> SUFFICES ASSUME MaxLost = 0, SingleWrites
             PROVE  Spec => [](AppliedMeansLanded /\ RejectedMeansNotLanded)
  OBVIOUS
<1> DEFINE Inv == Owned /\ Landing /\ Decided
<1>1. Init => Inv
  <2> SUFFICES ASSUME Init PROVE Decided
    BY OwnedInit
  <2> QED
    BY IdleType DEF Init, Decided
<1>2. TurnInv /\ Inv /\ [Next]_vars => Inv'
  BY OwnedStep, DecidedStep DEF TurnInv
<1>3. TurnInv /\ Inv => AppliedMeansLanded /\ RejectedMeansNotLanded
  <2> SUFFICES ASSUME TurnInv, Inv PROVE AppliedMeansLanded /\ RejectedMeansNotLanded
    OBVIOUS
  <2>1. \A e \in Effects : \A c \in ClaimsOf(e) : c \in Claims /\ 1..Parts[c] = {1}
    BY SMT, ClaimWave DEF SingleWrites
  <2>2. AppliedMeansLanded
    BY SMT, <2>1 DEF AppliedMeansLanded, Decided, Resolved, Landing
  <2>3. RejectedMeansNotLanded
    BY <2>1 DEF RejectedMeansNotLanded, Decided
  <2> QED
    BY <2>2, <2>3
<1> HIDE DEF Inv
<1> QED
  BY <1>1, <1>2, <1>3, TurnInvariance, PTL DEF Spec
==========================================================================
