---------------------------- MODULE EffectSinks ----------------------------
(***************************************************************************)
(* The effect outbox of one Runtime V2 user and the generic sink protocol   *)
(* that delivers its rows: effect_outbox.apply_pending_effects, the sinks   *)
(* of serve_worker and the claim table v2_effect_sink_applied.              *)
(*                                                                         *)
(* The applier runs one transaction per row. It holds the runtime row and   *)
(* the outbox row, but the claim, the target write and the completion mark  *)
(* commit on connections of their own, so a process that dies, or loses the *)
(* connection of its outer transaction, leaves them behind.                 *)
(***************************************************************************)
EXTENDS Naturals, Sequences, Functions

CONSTANTS
    Appliers,     \* the draining turns and the parent's sweeper
    Waves,        \* Waves[e]: the waves of claim ids of effect e, in order
    Parts,        \* Parts[c]: how many separate writes the target of c makes
    BatchEffects, \* the effects that are workspace batches
    Target,       \* Target[c]: [op, path, expected] of a workspace mutation
    Rev0,         \* the workspace's revisions at the start, 0: no entry
    MaxAttempts,  \* max_attempts of _effect_record_error_on_cursor
    MaxGen,       \* bound on cutovers
    MaxCrashes,   \* bound on process deaths
    MaxLost,      \* bound on lost outer connections
    Nobody

Effects == 1..Len(Waves)
ClaimsOf(e) == UNION Range(Waves[e])
Claims == UNION {ClaimsOf(e) : e \in Effects}

\* Every effect has its own claim ids, each in one wave; only the effects that
\* are batches have more than one.
ASSUME WavesAssumption ==
    /\ Waves \in Seq(Seq(SUBSET Claims))
    /\ \A e \in Effects : Len(Waves[e]) > 0
    /\ \A d, e \in Effects : d # e => ClaimsOf(d) \cap ClaimsOf(e) = {}
    /\ \A e \in BatchEffects : \A v, w \in DOMAIN Waves[e] :
          v # w => Waves[e][v] \cap Waves[e][w] = {}
    /\ \A e \in Effects \ BatchEffects : \E c \in Claims : Waves[e] = << {c} >>
    /\ BatchEffects \subseteq Effects
ASSUME PartsAssumption == Parts \in [Claims -> Nat \ {0}]
ASSUME NobodyAssumption == Nobody \notin Appliers
ASSUME BoundsAssumption ==
    MaxAttempts \in Nat \ {0} /\ MaxGen \in Nat /\ MaxCrashes \in Nat /\ MaxLost \in Nat

VARIABLES
    rt,       \* v2_runtime_state: [state, gen]
    outbox,   \* v2_effect_outbox: effect -> [status, gen, attempts, due]
    claims,   \* v2_effect_sink_applied.claim_state, "none" when no row
    landed,   \* history: how often each part of the target write landed
    rejected, \* the children of a batch the running attempts found in conflict
    rev,      \* v2_workspace_entries: path -> revision, 0 when absent
    lock,     \* who holds the runtime row FOR UPDATE
    app,      \* applier -> [pc, list, eid, wave, err, th]
    faults    \* [crashes, lost]

vars == <<rt, outbox, claims, landed, rejected, rev, lock, app, faults>>

NoThreads == [c \in Claims |-> [st |-> "idle", k |-> 0]]
Idle == [pc |-> "idle", list |-> {}, eid |-> 0, wave |-> 0,
         err |-> "none", th |-> NoThreads]

Init ==
    /\ rt = [state |-> "v2", gen |-> 0]
    /\ outbox = [e \in Effects |->
                   [status |-> "absent", gen |-> 0, attempts |-> 0, due |-> TRUE]]
    /\ claims = [c \in Claims |-> "none"]
    /\ landed = [c \in Claims |-> [k \in 1..Parts[c] |-> 0]]
    /\ rejected = {}
    /\ rev = Rev0
    /\ lock = Nobody
    /\ app = [a \in Appliers |-> Idle]
    /\ faults = [crashes |-> 0, lost |-> 0]

Pending(e) == outbox[e].status = "pending"

(***************************************************************************)
(* effect_enqueue: the row is inserted once, under the generation the       *)
(* producing turn read, which may be an older one by now. A second call     *)
(* with the same id is a no-op.                                             *)
(***************************************************************************)
Enqueue(e) ==
    /\ outbox[e].status = "absent"
    /\ \A d \in 1..(e - 1) : outbox[d].status # "absent"
    /\ \E g \in 0..rt.gen :
         outbox' = [outbox EXCEPT ![e] =
                      [status |-> "pending", gen |-> g, attempts |-> 0, due |-> TRUE]]
    /\ UNCHANGED <<rt, claims, landed, rejected, rev, lock, app, faults>>

\* A cutover rewrites the runtime row, so it waits for the lock.
Cutover(s) ==
    /\ lock = Nobody
    /\ rt.gen < MaxGen
    /\ rt' = [state |-> s, gen |-> rt.gen + 1]
    /\ UNCHANGED <<outbox, claims, landed, rejected, rev, lock, app, faults>>

BackoffElapses(e) ==
    /\ Pending(e) /\ ~outbox[e].due
    /\ outbox' = [outbox EXCEPT ![e].due = TRUE]
    /\ UNCHANGED <<rt, claims, landed, rejected, rev, lock, app, faults>>

\* effect_pending(due_prefix_only=True): the pending rows in insertion order,
\* up to the first one whose backoff still runs.
DueRows == {e \in Effects : Pending(e) /\ outbox[e].due}
DuePrefix ==
    {e \in Effects : Pending(e) /\ \A d \in 1..e : Pending(d) => outbox[d].due}

Snapshot(a) ==
    /\ app[a].pc = "idle"
    /\ DuePrefix # {}
    /\ app' = [app EXCEPT ![a] = [Idle EXCEPT !.pc = "next", !.list = DuePrefix]]
    /\ UNCHANGED <<rt, outbox, claims, landed, rejected, rev, lock, faults>>

\* The rows of the list are taken in insertion order: e is the one to open.
AtRow(a, e) ==
    /\ app[a].pc = "next" /\ lock = Nobody
    /\ e \in app[a].list /\ \A d \in app[a].list : e <= d

\* The applier goes on to the next row of its list, or stops.
Advance(a, e) == [Idle EXCEPT !.pc = IF app[a].list = {e} THEN "idle" ELSE "next",
                              !.list = app[a].list \ {e}]

StartWave(e, w) ==
    [c \in Claims |-> [st |-> IF c \in Waves[e][w] THEN "claim" ELSE "idle", k |-> 0]]

Fenced(e) == rt.state = "v2" /\ outbox[e].gen = rt.gen

(***************************************************************************)
(* The head of the transaction: lock the runtime row, re-read the outbox    *)
(* row, skip it, stop at it, discard it, or dispatch it.                    *)
(***************************************************************************)
SkipRow(a, e) ==
    /\ AtRow(a, e)
    /\ ~Pending(e)
    /\ app' = [app EXCEPT ![a] = Advance(a, e)]
    /\ UNCHANGED <<rt, outbox, claims, landed, rejected, rev, lock, faults>>

StopAtRow(a, e) ==
    /\ AtRow(a, e)
    /\ Pending(e) /\ ~outbox[e].due
    /\ app' = [app EXCEPT ![a] = Idle]
    /\ UNCHANGED <<rt, outbox, claims, landed, rejected, rev, lock, faults>>

DiscardRow(a, e) ==
    /\ AtRow(a, e)
    /\ Pending(e) /\ outbox[e].due /\ ~Fenced(e)
    /\ outbox' = [outbox EXCEPT ![e].status = "discarded"]
    /\ app' = [app EXCEPT ![a] = Advance(a, e)]
    /\ UNCHANGED <<rt, claims, landed, rejected, rev, lock, faults>>

DispatchRow(a, e) ==
    /\ AtRow(a, e)
    /\ Pending(e) /\ outbox[e].due /\ Fenced(e)
    /\ lock' = a
    /\ app' = [app EXCEPT ![a].pc = "dispatch", ![a].eid = e, ![a].wave = 1,
                          ![a].th = StartWave(e, 1)]
    /\ UNCHANGED <<rt, outbox, claims, landed, rejected, rev, faults>>

-----------------------------------------------------------------------------
(***************************************************************************)
(* One sink delivery, per claim id. The children of a batch wave run in     *)
(* parallel threads; any other effect has a single child.                   *)
(***************************************************************************)
Running(a, c, st) == app[a].pc = "dispatch" /\ app[a].th[c].st = st
SetThread(a, c, st) == app' = [app EXCEPT ![a].th[c].st = st]

\* effect_sink_claim.
SinkClaimSweeps(a, c) ==
    /\ Running(a, c, "claim")
    /\ claims' = IF claims[c] = "completed" THEN claims
                 ELSE [claims EXCEPT ![c] = "claimed"]
    /\ SetThread(a, c, IF claims[c] = "completed" THEN "ok" ELSE "write")
    /\ rejected' = rejected \ {c}
    /\ UNCHANGED <<rt, outbox, landed, rev, lock, faults>>
SinkClaim(a, c) ==
    /\ Running(a, c, "claim")
    /\ claims' = IF claims[c] = "none" THEN [claims EXCEPT ![c] = "claimed"] ELSE claims
    /\ SetThread(a, c, CASE claims[c] = "none" -> "write"
                         [] claims[c] = "completed" -> "ok"
                         [] claims[c] = "claimed" -> "uncertain")
    /\ rejected' = rejected \ {c}
    /\ UNCHANGED <<rt, outbox, landed, rev, lock, faults>>

\* put_workspace_entry_cas and delete_workspace_entry_cas compare revisions.
InBatch(c) == \E e \in BatchEffects : c \in ClaimsOf(e)
Conflict(c) == InBatch(c) /\ rev[Target[c].path] # Target[c].expected
Mutated(c) ==
    IF ~InBatch(c) THEN rev
    ELSE [rev EXCEPT ![Target[c].path] = IF Target[c].op = "delete" THEN 0 ELSE @ + 1]

\* The target write: one part lands; after the last the claim is completed.
SinkWrite(a, c) ==
    LET k == app[a].th[c].k + 1
    IN /\ Running(a, c, "write") /\ ~Conflict(c)
       /\ landed' = [landed EXCEPT ![c][k] = @ + 1]
       /\ rev' = Mutated(c)
       /\ app' = [app EXCEPT ![a].th[c] =
                    [st |-> IF k = Parts[c] THEN "complete" ELSE "write", k |-> k]]
       /\ UNCHANGED <<rt, outbox, claims, rejected, lock, faults>>

\* The target write raises before its next part lands: a transient failure, or
\* a deterministic one (EffectTerminalError). A workspace mutation raises the
\* deterministic one exactly when its expected revision is not the current one.
SinkRaises(a, c, kind) ==
    /\ Running(a, c, "write")
    /\ kind = "terminal" => IF InBatch(c) THEN Conflict(c) ELSE Parts[c] = 1
    /\ SetThread(a, c, IF kind = "terminal" THEN "release_terminal" ELSE "release_retry")
    /\ UNCHANGED <<rt, outbox, claims, landed, rejected, rev, lock, faults>>

\* effect_sink_release, or its own failure, which leaves the claim standing.
SinkRelease(a, c) ==
    /\ \/ Running(a, c, "release_terminal")
       \/ Running(a, c, "release_retry")
    /\ LET terminal == app[a].th[c].st = "release_terminal"
       IN \/ /\ claims' = [claims EXCEPT ![c] = IF @ = "claimed" THEN "none" ELSE @]
             /\ SetThread(a, c, IF terminal THEN "terminal" ELSE "retry")
             /\ rejected' = IF terminal THEN rejected \cup {c} ELSE rejected
          \/ /\ SetThread(a, c, "retry")
             /\ UNCHANGED <<claims, rejected>>
    /\ UNCHANGED <<rt, outbox, landed, rev, lock, faults>>

SinkComplete(a, c) ==
    /\ Running(a, c, "complete")
    /\ \/ claims' = [claims EXCEPT ![c] = "completed"] /\ SetThread(a, c, "ok")
       \/ SetThread(a, c, "retry") /\ UNCHANGED claims
    /\ UNCHANGED <<rt, outbox, landed, rejected, rev, lock, faults>>

-----------------------------------------------------------------------------
Outcomes(a) == {app[a].th[c].st : c \in Waves[app[a].eid][app[a].wave]}
WaveDone(a) ==
    app[a].pc = "dispatch" /\ Outcomes(a) \subseteq {"ok", "terminal", "retry", "uncertain"}

\* Delivery uncertainty dominates a retryable failure, which dominates a
\* deterministic rejection.
ErrorOf(a) ==
    IF "uncertain" \in Outcomes(a) THEN "uncertain"
    ELSE IF "retry" \in Outcomes(a) THEN "retry"
    ELSE IF "terminal" \in Outcomes(a) /\ app[a].eid \notin BatchEffects THEN "terminal"
    ELSE "none"

NextWave(a) ==
    /\ WaveDone(a) /\ ErrorOf(a) = "none"
    /\ app[a].wave < Len(Waves[app[a].eid])
    /\ app' = [app EXCEPT ![a].wave = @ + 1,
                          ![a].th = StartWave(app[a].eid, app[a].wave + 1)]
    /\ UNCHANGED <<rt, outbox, claims, landed, rejected, rev, lock, faults>>

DispatchReturnsLast(a) ==
    /\ WaveDone(a)
    /\ ErrorOf(a) # "none" \/ app[a].wave = Len(Waves[app[a].eid])
    /\ app' = [app EXCEPT ![a].pc = "commit",
                 ![a].err = IF app[a].wave = Len(Waves[app[a].eid]) THEN "none" ELSE ErrorOf(a)]
    /\ UNCHANGED <<rt, outbox, claims, landed, rejected, rev, lock, faults>>
DispatchReturns(a) ==
    /\ WaveDone(a)
    /\ ErrorOf(a) # "none" \/ app[a].wave = Len(Waves[app[a].eid])
    /\ app' = [app EXCEPT ![a].pc = "commit", ![a].err = ErrorOf(a)]
    /\ UNCHANGED <<rt, outbox, claims, landed, rejected, rev, lock, faults>>

RecordErrorForever(e, err) ==
    [outbox EXCEPT ![e] = IF @.status # "pending" THEN @ ELSE [@ EXCEPT !.due = FALSE]]
Recorded(row, err) ==
    IF row.status # "pending" THEN row
    ELSE [row EXCEPT !.attempts = row.attempts + 1, !.due = FALSE,
                     !.status = IF err = "uncertain" \/ row.attempts + 1 >= MaxAttempts
                                THEN "needs_reconciliation" ELSE "pending"]
RecordError(e, err) == [outbox EXCEPT ![e] = Recorded(outbox[e], err)]

\* The outcome is staged in the transaction that holds the locks.
CommitOutcome(a) ==
    LET e == app[a].eid
    IN /\ app[a].pc = "commit" /\ lock = a
       /\ lock' = Nobody
       /\ \/ /\ app[a].err = "none"
             /\ outbox' = [outbox EXCEPT ![e].status = "applied"]
             /\ app' = [app EXCEPT ![a] = Advance(a, e)]
          \/ /\ app[a].err = "terminal"
             /\ outbox' = [outbox EXCEPT ![e].status = "rejected"]
             /\ app' = [app EXCEPT ![a] = Advance(a, e)]
          \/ /\ app[a].err \in {"retry", "uncertain"}
             /\ outbox' = RecordError(e, app[a].err)
             /\ app' = [app EXCEPT ![a] = Idle]
       /\ UNCHANGED <<rt, claims, landed, rejected, rev, faults>>

\* The outer connection was lost: the transaction rolled back. A dispatch
\* failure is still recorded afterwards, on a connection of its own.
CommitFails(a) ==
    /\ app[a].pc = "commit" /\ lock # a
    /\ app' = [app EXCEPT ![a] =
                 IF app[a].err = "none" THEN Idle ELSE [@ EXCEPT !.pc = "record"]]
    /\ UNCHANGED <<rt, outbox, claims, landed, rejected, rev, lock, faults>>

\* The update waits for the transaction that has the row locked.
RecordAfterwards(a) ==
    /\ app[a].pc = "record"
    /\ \A b \in Appliers : lock = b => app[b].eid # app[a].eid
    /\ outbox' = RecordError(app[a].eid, app[a].err)
    /\ app' = [app EXCEPT ![a] = Idle]
    /\ UNCHANGED <<rt, claims, landed, rejected, rev, lock, faults>>

ConnectionLost(a) ==
    /\ lock = a /\ faults.lost < MaxLost
    /\ lock' = Nobody
    /\ faults' = [faults EXCEPT !.lost = @ + 1]
    /\ UNCHANGED <<rt, outbox, claims, landed, rejected, rev, app>>

Crash(a) ==
    /\ app[a].pc # "idle" /\ faults.crashes < MaxCrashes
    /\ app' = [app EXCEPT ![a] = Idle]
    /\ lock' = IF lock = a THEN Nobody ELSE lock
    /\ faults' = [faults EXCEPT !.crashes = @ + 1]
    /\ UNCHANGED <<rt, outbox, claims, landed, rejected, rev>>

\* Every effect is settled, nobody runs and nothing more can happen.
Done ==
    /\ \A e \in Effects : outbox[e].status \notin {"absent", "pending"}
    /\ \A a \in Appliers : app[a].pc = "idle"
    /\ rt.gen = MaxGen
    /\ UNCHANGED vars

SinkStep(a) ==
    \E c \in Claims :
       \/ SinkClaim(a, c) \/ SinkWrite(a, c) \/ SinkRelease(a, c) \/ SinkComplete(a, c)
       \/ \E kind \in {"retry", "terminal"} : SinkRaises(a, c, kind)

ApplierStep(a) ==
    \/ \E e \in Effects : SkipRow(a, e) \/ StopAtRow(a, e) \/ DiscardRow(a, e)
                          \/ DispatchRow(a, e)
    \/ SinkStep(a) \/ NextWave(a) \/ DispatchReturns(a)
    \/ CommitOutcome(a) \/ CommitFails(a) \/ RecordAfterwards(a)

Next ==
    \/ \E e \in Effects : Enqueue(e) \/ BackoffElapses(e)
    \/ \E s \in {"v2", "resident"} : Cutover(s)
    \/ \E a \in Appliers : Snapshot(a) \/ ApplierStep(a) \/ ConnectionLost(a) \/ Crash(a)
    \/ Done

Spec == Init /\ [][Next]_vars

(***************************************************************************)
(* The sweeper is a periodic loop, backoffs elapse, a running applier goes  *)
(* on, and a waiter for a row lock is served.                               *)
(***************************************************************************)
Fairness ==
    /\ \A e \in Effects : WF_vars(BackoffElapses(e))
    /\ \A a \in Appliers : WF_vars(Snapshot(a)) /\ SF_vars(ApplierStep(a))

FairSpec == Spec /\ Fairness

-----------------------------------------------------------------------------
ThreadStates == {"idle", "claim", "write", "complete", "release_terminal", "release_retry",
                 "ok", "terminal", "retry", "uncertain"}
RowType == [status : {"absent", "pending", "applied", "discarded", "rejected",
                      "needs_reconciliation"},
            gen : 0..MaxGen, attempts : 0..MaxAttempts, due : BOOLEAN]
AppType == [pc : {"idle", "next", "dispatch", "commit", "record"}, list : SUBSET Effects,
            eid : Effects \cup {0}, wave : Nat,
            err : {"none", "terminal", "retry", "uncertain"},
            th : [Claims -> [st : ThreadStates, k : Nat]]]
TypeOK ==
    /\ rt \in [state : {"v2", "resident"}, gen : 0..MaxGen]
    /\ outbox \in [Effects -> RowType]
    /\ claims \in [Claims -> {"none", "claimed", "completed"}]
    /\ DOMAIN landed = Claims /\ \A c \in Claims : landed[c] \in [1..Parts[c] -> Nat]
    /\ rejected \subseteq Claims
    /\ lock \in Appliers \cup {Nobody}
    /\ app \in [Appliers -> AppType]
    /\ faults \in [crashes : 0..MaxCrashes, lost : 0..MaxLost]

(***************************************************************************)
(* No target write of an effect happens twice, whatever dies or retries     *)
(* (the promise of v2_effect_sink_applied).                                 *)
(***************************************************************************)
NeverTwice == \A c \in DOMAIN landed : \A k \in DOMAIN landed[c] : landed[c][k] <= 1

(***************************************************************************)
(* A row marked applied has had every one of its writes, except the items   *)
(* of a batch that were rejected for good.                                  *)
(***************************************************************************)
AppliedMeansLanded ==
    \A e \in Effects : outbox[e].status = "applied" =>
       \A c \in ClaimsOf(e) :
          \/ \A k \in 1..Parts[c] : landed[c][k] = 1
          \/ e \in BatchEffects /\ c \in rejected

(***************************************************************************)
(* An effect dropped as rejected for good (EffectTerminalError) has had no  *)
(* write: "the write provably did not land, so dropping it loses nothing".  *)
(***************************************************************************)
RejectedMeansNotLanded ==
    \A e \in Effects : outbox[e].status = "rejected" =>
       \A c \in ClaimsOf(e) : \A k \in 1..Parts[c] : landed[c][k] = 0

(***************************************************************************)
(* A target write of an effect happens only when every effect enqueued      *)
(* before it has left the pending state: the order of a turn's writes       *)
(* survives backoff, concurrent drains and crashes.                         *)
(***************************************************************************)
LandsNow(e) == \E c \in ClaimsOf(e) : landed'[c] # landed[c]
InOrder ==
    [][\A e \in Effects : LandsNow(e) => \A d \in 1..(e - 1) : ~Pending(d)]_vars

(***************************************************************************)
(* While the outer transaction is alive, a write lands only for a user that *)
(* V2 owns and in the generation the effect was produced under.             *)
(***************************************************************************)
FencedLanding == [][\A e \in Effects : LandsNow(e) => Fenced(e)]_vars

(***************************************************************************)
(* A mutation of a later wave of a batch lands only after every mutation of *)
(* the earlier waves was completed or found in conflict.                    *)
(***************************************************************************)
Lands(c) == landed'[c] # landed[c]
=============================================================================
