---------------------------- MODULE RuntimeLease ----------------------------
(***************************************************************************)
(* The resident (V1) runtime: supervisors that host one consumer process   *)
(* per user, arbitrated by the lease row agent_runtime_instances           *)
(* (agent_runtime/leases.py, supervisor.py, admission.py, spawners.py).    *)
(*                                                                         *)
(* A supervisor has two threads.  tick walks the roster, one user at a     *)
(* time under that user's configuration lock (admission.guard): it renews, *)
(* respawns, reaps, or takes the row and puts the user in a batch that is  *)
(* spawned after the walk.  renew_live snapshots the children, renews all  *)
(* their rows in one statement outside every lock, and stops the children  *)
(* whose row is no longer ours.  The two share `children' and the restart  *)
(* ledger under self._lock: an action that holds the lock is one step.     *)
(*                                                                         *)
(* A child is stopped by a signal whose success must be confirmed; a stop  *)
(* that is not confirmed leaves the child tracked.  The supervisor is the  *)
(* init process of its container: its consumers end with it, and restarted *)
(* it has the owner name it had.                                           *)
(*                                                                         *)
(* A configuration is [epoch, id]: the admission witness (route,           *)
(* credential, generation) and the spawn identity (driver, model, key,     *)
(* persona).  Epoch 0 is a user without an active route.                   *)
(***************************************************************************)
EXTENDS Integers, FiniteSets

CONSTANTS
  Sups,           \* supervisors, by owner name
  Users,
  MaxChildren,    \* AGENT_MAX_CHILDREN, 0 is unlimited
  MaxSpawns,      \* AGENT_MAX_SPAWNS_PER_TICK, 0 is unlimited
  Faults,         \* the kinds of fault that may happen
  MaxFaults,      \* bound: faults in one behaviour
  Edits,          \* the kinds of configuration change that may happen
  MaxEdits,       \* bound: configuration changes in one behaviour
  None

FaultKinds ==
  {"lapse",       \* a pass takes longer than the TTL
   "crash",       \* the supervisor is killed
   "stop",        \* the supervisor is interrupted
   "exit",        \* a consumer exits by itself
   "stuck",       \* a stop that cannot be confirmed
   "nospawn",     \* spawn_fn raises
   "unknown",     \* the admission guard cannot be entered
   "unresolved",  \* the user's credentials were not resolved this pass
   "notready",    \* genesis in progress, or no provider key yet
   "dberr"}       \* a statement raises and ends the pass

ASSUME RuntimeLeaseAssumption ==
  /\ None \notin Sups \cup Users
  /\ IsFiniteSet(Users)
  /\ {MaxChildren, MaxSpawns, MaxFaults, MaxEdits} \subseteq Nat
  /\ Faults \subseteq FaultKinds
  /\ Edits \subseteq {"setting", "persona"}

VARIABLES
  row,        \* agent_runtime_instances: owner and whether the lease is live
  conf,       \* the user's configuration
  lock,       \* hosted_runtime_config_mutation_lock: the tick that holds it
  state,      \* a supervisor is up, stopping or down
  children,   \* Supervisor.children
  ledger,     \* Supervisor._restart_ledger
  alive,      \* consumer processes
  tick,       \* the tick thread
  pass,       \* the renew thread
  left,       \* faults left
  edits       \* configuration changes left

vars == <<row, conf, lock, state, children, ledger, alive, tick, pass, left, edits>>

Epochs == 0 .. MaxEdits + 1
Unresolved == [epoch |-> -1, id |-> 0]
NoChild == [pid |-> 0, epoch |-> 0, id |-> 0]
NoChildren == [u \in Users |-> NoChild]
Pids == 1 .. 4 * Cardinality(Users)
Entries == [epoch : {-1} \cup Epochs, id : Epochs]
Children == [pid : {0} \cup Pids, epoch : {-1} \cup Epochs, id : Epochs]

Unheld == [owner |-> None, live |-> FALSE]

NoRoster == [u \in Users |-> [epoch |-> 0, id |-> 0]]
TickIdle == [pc |-> "idle", user |-> None, seen |-> NoChildren, late |-> {},
             roster |-> NoRoster, todo |-> {}, batch |-> {}]
PassIdle == [pc |-> "idle", snap |-> NoChildren, todo |-> {}, checked |-> {},
             live |-> {}]

Charge(f) == f \in Faults /\ left > 0 /\ left' = left - 1

(***************************************************************************)
(* Processes                                                               *)
(***************************************************************************)
Proc(s, u, c) == [sup |-> s, user |-> u, pid |-> c.pid]

IsAlive(s, u, c) == Proc(s, u, c) \in alive

\* The pid of the next process: one no process and no variable of the supervisor
\* refers to.
FreePids(s) ==
  LET used == {p.pid : p \in {q \in alive : q.sup = s}}
              \cup UNION {{children[s][u].pid, tick[s].seen[u].pid,
                           pass[s].snap[u].pid} : u \in Users}
  IN {p \in Pids \ used : \A q \in Pids \ used : p <= q}

\* _stop_child stops only the child the caller read.
Tracked(s, u, c) == c # NoChild /\ children[s][u] = c

Forget(s, u) ==
  /\ children' = [children EXCEPT ![s][u] = NoChild]
  /\ ledger' = [ledger EXCEPT ![s][u] = "none"]

\* The child tracked for u is gone after a confirmed stop.
Killed(s, u) == alive' = alive \ {Proc(s, u, children[s][u])}

StopUnconfirmed(s, u) ==
  /\ IsAlive(s, u, children[s][u]) /\ Charge("stuck")
  /\ UNCHANGED <<alive, children, ledger>>

(***************************************************************************)
(* The lease row                                                           *)
(***************************************************************************)
\* leases.renew and renew_many: ownership alone decides, not expiry.
Renewed(s, U) ==
  [u \in Users |-> IF u \in U /\ row[u].owner = s
                     THEN [row[u] EXCEPT !.live = TRUE] ELSE row[u]]

\* leases.release: only our own row.
Released(s, U) ==
  [u \in Users |-> IF u \in U /\ row[u].owner = s THEN Unheld ELSE row[u]]

\* leases.acquire: an absent, expired or own row.
MayAcquire(s, u) == ~row[u].live \/ row[u].owner = s

Acquired(s, u) == row' = [row EXCEPT ![u] = [owner |-> s, live |-> TRUE]]

\* Mutant: the row of a running child is left to the next pass.
AbandonedByRenewLive(s, u) ==
  \/ state[s] = "down"
  \/ ledger[s][u] = "none" /\ u \notin tick[s].batch

\* Time passes over a row.  Nobody renews the row of a supervisor that is
\* down, or that has neither a child, a backoff nor a pending spawn for it.
Abandoned(s, u) ==
  \/ state[s] = "down"
  \/ /\ children[s][u] = NoChild /\ ledger[s][u] = "none"
     /\ u \notin tick[s].batch

Expire(u) ==
  /\ row[u].live
  /\ \/ Abandoned(row[u].owner, u) /\ UNCHANGED left
     \/ ~Abandoned(row[u].owner, u) /\ Charge("lapse")
  /\ row' = [row EXCEPT ![u].live = FALSE]
  /\ UNCHANGED <<conf, lock, state, children, ledger, alive, tick, pass, edits>>

(***************************************************************************)
(* Steps of both threads                                                   *)
(***************************************************************************)

\* _reap_crashed_child: the child leaves and the backoff begins in one
\* critical section, and the row is kept through the wait.
Reap(s, u, c) ==
  IF Tracked(s, u, c)
    THEN /\ children' = [children EXCEPT ![s][u] = NoChild]
         /\ ledger' = [ledger EXCEPT ![s][u] = "wait"]
         /\ row' = Renewed(s, {u})
    ELSE UNCHANGED <<children, ledger, row>>

\* Mutant: the row is given up although the stop was not confirmed.
RevokeAnyway(s, u) ==
  /\ \/ Killed(s, u) /\ Forget(s, u) /\ UNCHANGED left
     \/ StopUnconfirmed(s, u)
  /\ row' = Released(s, {u})

\* _revoke_admission: stop, and only then give up the row.
Revoke(s, u) ==
  \/ /\ Killed(s, u) /\ Forget(s, u) /\ row' = Released(s, {u})
     /\ UNCHANGED left
  \/ StopUnconfirmed(s, u) /\ UNCHANGED row

\* The row belongs to somebody else: stop our child, leave the row alone.
DropOrphan(s, u, c) ==
  IF Tracked(s, u, c)
    THEN \/ Killed(s, u) /\ Forget(s, u) /\ UNCHANGED left
         \/ StopUnconfirmed(s, u)
    ELSE UNCHANGED <<alive, children, ledger, left>>

\* _mark_child_healthy: a child up for 300 s clears the crash history.
MaybeHealthy(s, u, c) ==
  \/ UNCHANGED ledger
  \/ /\ Tracked(s, u, c) /\ ledger[s][u] # "none"
     /\ ledger' = [ledger EXCEPT ![s][u] = "none"]

\* spawn_fn succeeded: the process runs and is tracked.
Start(s, u, e) ==
  \E p \in FreePids(s) :
    LET c == [pid |-> p, epoch |-> e.epoch, id |-> e.id]
    IN /\ alive' = (alive \ {Proc(s, u, children[s][u])}) \cup {Proc(s, u, c)}
       /\ children' = [children EXCEPT ![s][u] = c]

(***************************************************************************)
(* The tick thread                                                         *)
(***************************************************************************)
\* The pass is done with the user it holds.
Leave(s) ==
  /\ tick' = [tick EXCEPT ![s].pc = "walk", ![s].user = None,
                          ![s].seen = NoChildren,
                          ![s].todo = @ \ {tick[s].user}]
  /\ lock' = [lock EXCEPT ![tick[s].user] = None]

\* Discovery and credential resolution, and the snapshot tick begins with.
TickStart(s) ==
  /\ state[s] = "up" /\ tick[s].pc = "idle"
  /\ \E bad \in {{}} \cup {{u} : u \in {v \in Users : conf[v].epoch # 0}} :
       /\ IF bad = {} THEN UNCHANGED left ELSE Charge("unresolved")
       /\ tick' = [tick EXCEPT ![s] =
            [pc |-> "drop", user |-> None, seen |-> children[s],
             late |-> {u \in Users : ledger[s][u] # "none"},
             roster |-> [u \in Users |-> IF u \in bad THEN Unresolved ELSE conf[u]],
             todo |-> {u \in Users : conf[u].epoch = 0}, batch |-> {}]]
  /\ UNCHANGED <<row, conf, lock, state, children, ledger, alive, pass, edits>>

\* A user who left the roster: stop the child and release, or release the
\* row a backoff kept.
TickDrop(s, u) ==
  LET c == tick[s].seen[u] IN
  /\ tick[s].pc = "drop" /\ u \in tick[s].todo
  /\ \/ /\ Tracked(s, u, c) /\ Killed(s, u)
        /\ Forget(s, u) /\ row' = Released(s, {u}) /\ UNCHANGED left
     \/ Tracked(s, u, c) /\ StopUnconfirmed(s, u) /\ UNCHANGED row
     \/ /\ ~Tracked(s, u, c) /\ UNCHANGED <<alive, left>>
        /\ IF u \in tick[s].late /\ children[s][u] = NoChild
             THEN Forget(s, u) /\ row' = Released(s, {u})
             ELSE UNCHANGED <<children, ledger, row>>
  /\ tick' = [tick EXCEPT ![s].todo = @ \ {u}, ![s].seen[u] = NoChild]
  /\ UNCHANGED <<conf, lock, state, pass, edits>>

TickWalk(s) ==
  /\ tick[s].pc = "drop" /\ tick[s].todo = {}
  /\ tick' = [tick EXCEPT ![s].pc = "walk", ![s].seen = NoChildren,
                          ![s].late = {},
                          ![s].todo = {u \in Users : tick[s].roster[u].epoch # 0}]
  /\ UNCHANGED <<row, conf, lock, state, children, ledger, alive, pass, left, edits>>

\* Skipped: unresolved this pass, or the guard could not be entered.
TickSkip(s, u) ==
  /\ tick[s].pc = "walk" /\ u \in tick[s].todo
  /\ \/ tick[s].roster[u] = Unresolved /\ UNCHANGED left
     \/ tick[s].roster[u] # Unresolved /\ Charge("unknown")
  /\ tick' = [tick EXCEPT ![s].todo = @ \ {u}]
  /\ UNCHANGED <<row, conf, lock, state, children, ledger, alive, pass, edits>>

\* Same identity, other witness: the route was re-verified or replaced.
Rebound(e, c) == c # NoChild /\ c.epoch # e.epoch /\ c.id = e.id

\* The guard is entered: the entry's binding must be the current one.
TickEnter(s, u) ==
  LET e == tick[s].roster[u] c == children[s][u] IN
  /\ tick[s].pc = "walk" /\ u \in tick[s].todo
  /\ e # Unresolved /\ lock[u] = None
  /\ IF e.epoch # conf[u].epoch \/ Rebound(e, c)
       THEN /\ Revoke(s, u)
            /\ tick' = [tick EXCEPT ![s].todo = @ \ {u}]
            /\ UNCHANGED lock
       ELSE /\ tick' = [tick EXCEPT ![s].user = u, ![s].seen[u] = c,
                 ![s].pc = IF c = NoChild THEN "free" ELSE "child"]
            /\ lock' = [lock EXCEPT ![u] = s]
            /\ UNCHANGED <<row, children, ledger, alive, left>>
  /\ UNCHANGED <<conf, state, pass, edits>>

\* Mutant: identities are not compared.
TickRenewOnly(s) ==
  LET u == tick[s].user c == tick[s].seen[u] IN
  /\ tick[s].pc = "child" /\ IsAlive(s, u, c)
  /\ row' = Renewed(s, {u})
  /\ IF row[u].owner # s
       THEN tick' = [tick EXCEPT ![s].pc = "lost"] /\ UNCHANGED <<lock, ledger>>
       ELSE MaybeHealthy(s, u, c) /\ Leave(s)
  /\ UNCHANGED <<conf, state, children, alive, pass, left, edits>>

\* The child read is alive: renew, and compare identities.
TickRenew(s) ==
  LET u == tick[s].user c == tick[s].seen[u] IN
  /\ tick[s].pc = "child" /\ IsAlive(s, u, c)
  /\ row' = Renewed(s, {u})
  /\ IF row[u].owner # s
       THEN tick' = [tick EXCEPT ![s].pc = "lost"] /\ UNCHANGED <<lock, ledger>>
       ELSE /\ MaybeHealthy(s, u, c)
            /\ IF tick[s].roster[u].id # c.id
                 THEN tick' = [tick EXCEPT ![s].pc = "swap"] /\ UNCHANGED lock
                 ELSE Leave(s)
  /\ UNCHANGED <<conf, state, children, alive, pass, left, edits>>

TickLost(s) ==
  LET u == tick[s].user IN
  /\ tick[s].pc = "lost"
  /\ DropOrphan(s, u, tick[s].seen[u]) /\ Leave(s)
  /\ UNCHANGED <<row, conf, state, pass, edits>>

\* Mutant: the replacement does not wait for a confirmed stop.
SwapAnyway(s) ==
  LET u == tick[s].user c == tick[s].seen[u] e == tick[s].roster[u] IN
  /\ tick[s].pc = "swap"
  /\ \E p \in FreePids(s) :
       /\ alive' = alive \cup {[sup |-> s, user |-> u, pid |-> p]}
       /\ children' = [children EXCEPT ![s][u] = [pid |-> p, epoch |-> e.epoch, id |-> e.id]]
  /\ row' = Renewed(s, {u}) /\ Leave(s)
  /\ UNCHANGED <<conf, state, ledger, pass, left, edits>>

\* Respawn in place, under the lock: stop, spawn, track, renew.
TickSwap(s) ==
  LET u == tick[s].user c == tick[s].seen[u] IN
  /\ tick[s].pc = "swap"
  /\ \/ /\ ~Tracked(s, u, c)
        /\ UNCHANGED <<row, children, ledger, alive, left>>
     \/ /\ Tracked(s, u, c) /\ StopUnconfirmed(s, u) /\ UNCHANGED row
     \/ /\ Tracked(s, u, c) /\ Start(s, u, tick[s].roster[u])
        /\ row' = Renewed(s, {u}) /\ UNCHANGED <<ledger, left>>
     \/ /\ Tracked(s, u, c) /\ Charge("nospawn") /\ Killed(s, u)
        /\ children' = [children EXCEPT ![s][u] = NoChild]
        /\ ledger' = [ledger EXCEPT ![s][u] = "wait"]
        /\ row' = Renewed(s, {u})
  /\ Leave(s)
  /\ UNCHANGED <<conf, state, pass, edits>>

\* The child read is dead: reap it and go on as a user without a child.
TickReap(s) ==
  LET u == tick[s].user c == tick[s].seen[u] IN
  /\ tick[s].pc = "child" /\ ~IsAlive(s, u, c)
  /\ Reap(s, u, c)
  /\ tick' = [tick EXCEPT ![s].pc = "free"]
  /\ UNCHANGED <<conf, lock, state, alive, pass, left, edits>>

\* This pass's acquisitions that are not spawned yet count.
AtCapacity(s) ==
  /\ MaxChildren # 0
  /\ Cardinality({u \in Users : children[s][u] # NoChild})
       + Cardinality(tick[s].batch) >= MaxChildren

\* No child: wait out the backoff, or take the row for this pass's batch.
TickFree(s) ==
  LET u == tick[s].user
      full == AtCapacity(s)
              \/ (MaxSpawns # 0 /\ Cardinality(tick[s].batch) >= MaxSpawns)
      passed == /\ Leave(s) /\ UNCHANGED row
  IN
  /\ tick[s].pc = "free"
  /\ IF ledger[s][u] = "wait"
       THEN row' = Renewed(s, {u}) /\ Leave(s) /\ UNCHANGED left
       ELSE \/ Charge("notready") /\ passed
            \/ (full \/ ~MayAcquire(s, u)) /\ UNCHANGED left /\ passed
            \/ /\ ~full /\ MayAcquire(s, u) /\ Acquired(s, u)
               /\ tick' = [tick EXCEPT ![s].pc = "walk", ![s].user = None,
                             ![s].seen = NoChildren, ![s].todo = @ \ {u},
                             ![s].batch = @ \cup {u}]
               /\ lock' = [lock EXCEPT ![u] = None]
               /\ UNCHANGED left
  /\ UNCHANGED <<conf, state, children, ledger, alive, pass, edits>>

\* One user of the batch: the guard again, then spawn, track and renew.
\* What renew answers is not looked at.
TickSpawn(s, u) ==
  LET e == tick[s].roster[u] IN
  /\ tick[s].pc = "walk" /\ tick[s].todo = {} /\ u \in tick[s].batch
  /\ \/ Charge("unknown") /\ UNCHANGED <<row, children, ledger, alive>>
     \/ lock[u] = None /\ e.epoch # conf[u].epoch /\ Revoke(s, u)
     \/ /\ lock[u] = None /\ e.epoch = conf[u].epoch /\ Charge("nospawn")
        /\ ledger' = [ledger EXCEPT ![s][u] = "wait"]
        /\ row' = Renewed(s, {u}) /\ UNCHANGED <<children, alive>>
     \/ /\ lock[u] = None /\ e.epoch = conf[u].epoch
        /\ Start(s, u, e) /\ row' = Renewed(s, {u}) /\ UNCHANGED <<ledger, left>>
  /\ tick' = [tick EXCEPT ![s].batch = @ \ {u}]
  /\ UNCHANGED <<conf, lock, state, pass, edits>>

TickEnd(s) ==
  /\ tick[s].pc = "walk" /\ tick[s].todo = {} /\ tick[s].batch = {}
  /\ tick' = [tick EXCEPT ![s] = TickIdle]
  /\ UNCHANGED <<row, conf, lock, state, children, ledger, alive, pass, left, edits>>

Unlocked(s) == [u \in Users |-> IF lock[u] = s THEN None ELSE lock[u]]

\* A statement raises: the pass is abandoned, its batch forgotten.
TickFails(s) ==
  /\ tick[s].pc # "idle" /\ Charge("dberr")
  /\ tick' = [tick EXCEPT ![s] = TickIdle] /\ lock' = Unlocked(s)
  /\ UNCHANGED <<row, conf, state, children, ledger, alive, pass, edits>>

(***************************************************************************)
(* The renew thread                                                        *)
(***************************************************************************)
RenewStart(s) ==
  /\ state[s] = "up" /\ pass[s].pc = "idle" /\ children[s] # NoChildren
  /\ pass' = [pass EXCEPT ![s] =
       [pc |-> "check", snap |-> children[s], checked |-> {}, live |-> {},
        todo |-> {u \in Users : children[s][u] # NoChild}]]
  /\ UNCHANGED <<row, conf, lock, state, children, ledger, alive, tick, left, edits>>

\* The guard with the witness the child was admitted under.  A revocation
\* is of whatever child the user has by then.
RenewCheck(s, u) ==
  LET c == pass[s].snap[u] IN
  /\ pass[s].pc = "check" /\ u \in pass[s].todo
  /\ \/ /\ Charge("unknown")
        /\ pass' = [pass EXCEPT ![s].todo = @ \ {u},
             ![s].live = IF IsAlive(s, u, c) THEN @ \cup {u} ELSE @]
        /\ UNCHANGED <<row, children, ledger, alive>>
     \/ /\ lock[u] = None /\ c.epoch # conf[u].epoch
        /\ Revoke(s, u)
        /\ pass' = [pass EXCEPT ![s].todo = @ \ {u}]
     \/ /\ lock[u] = None /\ c.epoch = conf[u].epoch
        /\ pass' = [pass EXCEPT ![s].todo = @ \ {u}, ![s].checked = @ \cup {u}]
        /\ UNCHANGED <<row, children, ledger, alive, left>>
  /\ UNCHANGED <<conf, lock, state, tick, edits>>

RenewAlive(s, u) ==
  LET c == pass[s].snap[u] IN
  /\ pass[s].pc = "check" /\ u \in pass[s].checked
  /\ IF IsAlive(s, u, c)
       THEN /\ pass' = [pass EXCEPT ![s].checked = @ \ {u}, ![s].live = @ \cup {u}]
            /\ UNCHANGED <<row, children, ledger>>
       ELSE /\ Reap(s, u, c)
            /\ pass' = [pass EXCEPT ![s].checked = @ \ {u}, ![s].snap[u] = NoChild]
  /\ UNCHANGED <<conf, lock, state, alive, tick, left, edits>>

\* renew_many: one statement outside the lock.  What it does not hold is
\* reaped afterwards.
RenewMany(s) ==
  LET lost == {u \in pass[s].live : row[u].owner # s}
      held == pass[s].live \ lost
  IN
  /\ pass[s].pc = "check" /\ pass[s].todo = {} /\ pass[s].checked = {}
  /\ row' = Renewed(s, pass[s].live)
  /\ \E H \in SUBSET {u \in held : /\ Tracked(s, u, pass[s].snap[u])
                                   /\ ledger[s][u] # "none"} :
       ledger' = [ledger EXCEPT ![s] =
                    [u \in Users |-> IF u \in H THEN "none" ELSE @[u]]]
  /\ pass' = [pass EXCEPT ![s] =
       IF lost = {} THEN PassIdle
       ELSE [PassIdle EXCEPT !.pc = "reap", !.todo = lost,
               !.snap = [u \in Users |-> IF u \in lost THEN pass[s].snap[u] ELSE NoChild]]]
  /\ UNCHANGED <<conf, lock, state, children, alive, tick, left, edits>>

RenewLost(s, u) ==
  LET rest == pass[s].todo \ {u} IN
  /\ pass[s].pc = "reap" /\ u \in pass[s].todo
  /\ DropOrphan(s, u, pass[s].snap[u])
  /\ pass' = [pass EXCEPT ![s] =
       IF rest = {} THEN PassIdle
       ELSE [pass[s] EXCEPT !.todo = rest, !.snap[u] = NoChild]]
  /\ UNCHANGED <<row, conf, lock, state, tick, edits>>

(***************************************************************************)
(* The supervisor's life, the consumers, and the user                      *)
(***************************************************************************)
Gone(s) ==
  /\ alive' = {p \in alive : p.sup # s}
  /\ children' = [children EXCEPT ![s] = NoChildren]
  /\ ledger' = [ledger EXCEPT ![s] = [u \in Users |-> "none"]]
  /\ tick' = [tick EXCEPT ![s] = TickIdle]
  /\ pass' = [pass EXCEPT ![s] = PassIdle]
  /\ lock' = Unlocked(s)
  /\ state' = [state EXCEPT ![s] = "down"]

Crash(s) ==
  /\ state[s] = "up" /\ Charge("crash") /\ Gone(s)
  /\ UNCHANGED <<row, conf, edits>>

\* An interrupt ends the tick wherever it is; shutdown stops every child,
\* and releases the rows of those it stopped and of those in backoff.
Shutdown(s) ==
  /\ state[s] = "up" /\ Charge("stop")
  /\ \E stuck \in SUBSET {u \in Users : IsAlive(s, u, children[s][u])} :
       LET done == {u \in Users \ stuck : \/ children[s][u] # NoChild
                                          \/ ledger[s][u] # "none"}
       IN /\ alive' = {p \in alive : p.sup # s \/ p.user \in stuck}
          /\ children' = [children EXCEPT ![s] =
               [u \in Users |-> IF u \in stuck THEN @[u] ELSE NoChild]]
          /\ ledger' = [ledger EXCEPT ![s] =
               [u \in Users |-> IF u \in done THEN "none" ELSE @[u]]]
          /\ row' = Released(s, done)
  /\ tick' = [tick EXCEPT ![s] = TickIdle] /\ lock' = Unlocked(s)
  /\ state' = [state EXCEPT ![s] = "stopping"]
  /\ UNCHANGED <<conf, pass, edits>>

\* The process is gone, and the container with it.
Exited(s) ==
  /\ state[s] = "stopping" /\ Gone(s)
  /\ UNCHANGED <<row, conf, left, edits>>

Restart(s) ==
  /\ state[s] = "down"
  /\ state' = [state EXCEPT ![s] = "up"]
  /\ UNCHANGED <<row, conf, lock, children, ledger, alive, tick, pass, left, edits>>

\* next_retry_at is reached.
BackoffEnds(s, u) ==
  /\ ledger[s][u] = "wait"
  /\ ledger' = [ledger EXCEPT ![s][u] = "due"]
  /\ UNCHANGED <<row, conf, lock, state, children, alive, tick, pass, left, edits>>

ConsumerExits(p) ==
  /\ Charge("exit") /\ alive' = alive \ {p}
  /\ UNCHANGED <<row, conf, lock, state, children, ledger, tick, pass, edits>>

\* The user's settings: a new route or credential, with or without a change
\* of the spawn identity, its deletion; or a new persona, which takes no
\* lock.
Edit(u) ==
  LET n == MaxEdits + 2 - edits
      setting == {[epoch |-> n, id |-> conf[u].id], [epoch |-> n, id |-> n],
                  [epoch |-> 0, id |-> 0]}
      persona == {[epoch |-> conf[u].epoch, id |-> n]}
  IN
  /\ edits > 0 /\ edits' = edits - 1
  /\ \/ /\ "setting" \in Edits /\ lock[u] = None
        /\ conf' \in {[conf EXCEPT ![u] = c] : c \in setting}
     \/ /\ "persona" \in Edits /\ conf[u].epoch # 0
        /\ conf' \in {[conf EXCEPT ![u] = c] : c \in persona}
  /\ UNCHANGED <<row, lock, state, children, ledger, alive, tick, pass, left>>

Init ==
  /\ row = [u \in Users |-> Unheld]
  /\ conf = [u \in Users |-> [epoch |-> 1, id |-> 1]]
  /\ lock = [u \in Users |-> None]
  /\ state = [s \in Sups |-> "up"]
  /\ children = [s \in Sups |-> NoChildren]
  /\ ledger = [s \in Sups |-> [u \in Users |-> "none"]]
  /\ alive = {}
  /\ tick = [s \in Sups |-> TickIdle]
  /\ pass = [s \in Sups |-> PassIdle]
  /\ left = MaxFaults
  /\ edits = MaxEdits

Tick(s) ==
  \/ TickStart(s) \/ TickWalk(s) \/ TickRenew(s) \/ TickLost(s)
  \/ TickSwap(s) \/ TickReap(s) \/ TickFree(s) \/ TickEnd(s)
  \/ \E u \in Users : \/ TickDrop(s, u) \/ TickSkip(s, u) \/ TickEnter(s, u)
                      \/ TickSpawn(s, u)

RenewLive(s) ==
  \/ RenewStart(s) \/ RenewMany(s)
  \/ \E u \in Users : RenewCheck(s, u) \/ RenewAlive(s, u) \/ RenewLost(s, u)

Next ==
  \/ \E s \in Sups : \/ Tick(s) \/ TickFails(s) \/ RenewLive(s)
                     \/ Crash(s) \/ Shutdown(s) \/ Exited(s) \/ Restart(s)
                     \/ \E u \in Users : BackoffEnds(s, u)
  \/ \E u \in Users : Expire(u) \/ Edit(u)
  \/ \E p \in alive : ConsumerExits(p)

Spec == Init /\ [][Next]_vars

\* Both loops run for as long as the process does, a lock is waited for, a
\* backoff and an abandoned lease end by the clock, an orchestrator restarts
\* the container.
Fairness ==
  /\ \A s \in Sups : /\ WF_vars(Tick(s)) /\ WF_vars(RenewLive(s))
                     /\ WF_vars(Exited(s)) /\ WF_vars(Restart(s))
                     /\ \A u \in Users : /\ WF_vars(BackoffEnds(s, u))
                                         /\ SF_vars(TickEnter(s, u))
                                         /\ SF_vars(TickSpawn(s, u))
                                         /\ SF_vars(RenewCheck(s, u))
  /\ \A u \in Users : WF_vars(Expire(u) /\ left' = left)

FairSpec == Spec /\ Fairness

(***************************************************************************)
(* Properties                                                              *)
(***************************************************************************)
RowType == [owner : Sups \cup {None}, live : BOOLEAN]
ProcType == [sup : Sups, user : Users, pid : Pids]
TickType == [pc : {"idle", "drop", "walk", "child", "free", "lost", "swap"},
             user : Users \cup {None}, seen : [Users -> Children], late : SUBSET Users,
             roster : [Users -> Entries], todo : SUBSET Users, batch : SUBSET Users]
PassType == [pc : {"idle", "check", "reap"}, snap : [Users -> Children],
             todo : SUBSET Users, checked : SUBSET Users, live : SUBSET Users]

\* The types of the state.
TypeOK ==
  /\ row \in [Users -> RowType]
  /\ conf \in [Users -> [epoch : Epochs, id : Epochs]]
  /\ lock \in [Users -> Sups \cup {None}]
  /\ state \in [Sups -> {"up", "stopping", "down"}]
  /\ children \in [Sups -> [Users -> Children]]
  /\ ledger \in [Sups -> [Users -> {"none", "wait", "due"}]]
  /\ alive \subseteq ProcType
  /\ tick \in [Sups -> TickType]
  /\ pass \in [Sups -> PassType]
  /\ left \in 0 .. MaxFaults /\ edits \in 0 .. MaxEdits

\* Nobody loses a consumer: through replacements, stops that are not
\* confirmed and the race of the two threads, every consumer that runs is the
\* child its supervisor tracks (supervisor.py:459, :722).  So a supervisor
\* never runs two consumers of a user.
NoStrayConsumer ==
  \A p \in alive : children[p.sup][p.user].pid = p.pid

\* A row is given up only after the consumer behind it has ended: a stop that
\* was not confirmed keeps the row (_revoke_admission, supervisor.py:475).
ReleasedAfterStop ==
  [][\A u \in DOMAIN row : (row[u].owner # None /\ row'[u].owner = None) =>
        \A p \in alive' : p.user = u => p.sup # row[u].owner]_vars

\* "ensure exactly one consumer per user across workers/processes"
\* (leases.py:3): at most one consumer of a user in all supervisors, whatever
\* crashes, stops, restarts or stays stuck, while no pass outlasts the TTL.
OneConsumer ==
  \A p, q \in alive : p.user = q.user => p = q

Starts(u) == \E p \in alive' \ alive : p.user = u

\* A failed consumer keeps its row while it waits, so that no supervisor
\* starts the user before the backoff has ended (supervisor.py:222).
BackoffIsKept ==
  [][\A u \in Users : Starts(u) => \A s \in Sups : ledger'[s][u] # "wait"]_vars

\* A consumer starts under the configuration that is current at that moment:
\* a deletion or a change of route is never overtaken by a spawn that was
\* admitted before it (supervisor.py:697).
StartsCurrent ==
  [][\A p \in alive' \ alive :
        children'[p.sup][p.user].epoch = conf[p.user].epoch]_vars

\* Once faults and edits end, every user who has a route runs in exactly one
\* consumer, of the current configuration, and it stays; every user without
\* one runs in none.
Hosted(u) ==
  IF conf[u].epoch = 0
    THEN \A p \in alive : p.user # u
    ELSE \E p \in alive :
           /\ p.user = u /\ \A q \in alive : q.user = u => q = p
           /\ children[p.sup][u].epoch = conf[u].epoch
           /\ children[p.sup][u].id = conf[u].id

Converges == \A u \in Users : <>[]Hosted(u)
=============================================================================
