--------------------------- MODULE EnclaveBroker ---------------------------
(***************************************************************************)
(* The instance-wide enclave permits of a Runtime V2 worker process:       *)
(* EnclaveBroker in the parent, BrokerSemaphore in every slot child, and   *)
(* the part of ChildSupervisor that carries messages between them and      *)
(* drops the permits of a dead slot generation.                            *)
(*                                                                         *)
(* A child's messages travel one pipe in order.  The parent's reader       *)
(* thread checks the generation of an acquire under the supervisor's lock  *)
(* and calls the broker after releasing it: two steps.  Killing a slot     *)
(* fences its generation, joins the reader with a timeout and drops the    *)
(* generation once the process is confirmed dead.                          *)
(***************************************************************************)
EXTENDS Naturals, FiniteSets, Sequences, SequencesExt, FiniteSetsExt

CONSTANTS
  Gens,          \* slot generations, one child process each
  PoolOf,        \* [Gens -> Pools]
  Pools,         \* the pools, in borrowing order: a sequence
  Reserve,       \* [Range(Pools) -> Nat], permits guaranteed to a pool: at most
                 \* Limit together
  Limit,         \* permits of the instance
  MaxRequests,   \* acquires of one generation
  MaxFaults      \* reader joins that time out

VARIABLES
  proc,      \* [Gens -> {"up", "killed", "dead"}]
  fenced,    \* [Gens -> BOOLEAN], _slot_generation no longer names it
  dropped,   \* [Gens -> BOOLEAN], drop_generation ran for it
  child,     \* [Requests -> {"new", "pending", "held", "over"}]
  pipe,      \* [Gens -> Seq(messages)], child to parent
  reader,    \* [Gens -> the acquire its reader thread has checked, if any]
  granted,   \* _granted
  waiters,   \* _waiters, in order of arrival
  calls,     \* grants the broker made and has not delivered yet
  inbox,     \* [Gens -> SUBSET Requests], grants in the pipe to the child
  left       \* faults still allowed

vars == <<proc, fenced, dropped, child, pipe, reader, granted, waiters, calls,
          inbox, left>>

Requests == Gens \X (1..MaxRequests)
Owner(r) == r[1]
Pool(r) == PoolOf[Owner(r)]
Msg(a, r) == [act |-> a, req |-> r]
Rank(p) == CHOOSE i \in 1..Len(Pools) : Pools[i] = p

TypeOK ==
  /\ proc \in [Gens -> {"up", "killed", "dead"}]
  /\ fenced \in [Gens -> BOOLEAN] /\ dropped \in [Gens -> BOOLEAN]
  /\ child \in [Requests -> {"new", "pending", "held", "over"}]
  /\ \A g \in Gens : /\ pipe[g] \in Seq({Msg(a, r) : a \in {"acquire", "release", "cancel"},
                                                     r \in Requests})
                     /\ reader[g] \subseteq Requests /\ Cardinality(reader[g]) <= 1
  /\ granted \subseteq Requests /\ calls \subseteq Requests
  /\ waiters \in Seq(Requests) /\ IsInjective(waiters)
  /\ granted \intersect ToSet(waiters) = {}
  /\ inbox \in [Gens -> SUBSET Requests]
  /\ left \in 0..MaxFaults

Init ==
  /\ proc = [g \in Gens |-> "up"]
  /\ fenced = [g \in Gens |-> FALSE] /\ dropped = [g \in Gens |-> FALSE]
  /\ child = [r \in Requests |-> "new"]
  /\ pipe = [g \in Gens |-> <<>>]
  /\ reader = [g \in Gens |-> {}]
  /\ granted = {} /\ waiters = <<>> /\ calls = {}
  /\ inbox = [g \in Gens |-> {}]
  /\ left = MaxFaults

----------------------------------------------------------------------------
(* The broker, under its lock.                                             *)

Held(G, p) == Cardinality({r \in G : Pool(r) = p})

\* The waiter served next: of the pools below their reservation, or of all
\* pools when none is, the first in borrowing order; first come within it.
NextWaiter(G, W) ==
  LET waiting == {Pool(W[i]) : i \in DOMAIN W}
      deficits == {p \in waiting : Held(G, p) < Reserve[p]}
      eligible == IF deficits # {} THEN deficits ELSE waiting
      best == CHOOSE p \in eligible : \A q \in eligible : Rank(p) <= Rank(q)
  IN  Min({i \in DOMAIN W : Pool(W[i]) = best})

\* _drain_locked as the sequence of its loop states, at most one per waiter.
Drain(G, W) ==
  LET step[n \in 0..Len(W)] ==
        IF n = 0 THEN [g |-> G, w |-> W]
        ELSE LET s == step[n - 1]
             IN  IF Cardinality(s.g) >= Limit \/ s.w = <<>> THEN s
                 ELSE LET i == NextWaiter(s.g, s.w)
                      IN  [g |-> s.g \union {s.w[i]}, w |-> RemoveAt(s.w, i)]
  IN  step[Len(W)]

\* Every public operation ends by draining and notifies after the lock.
Commit(G, W) ==
  LET s == Drain(G, W)
  IN  /\ granted' = s.g
      /\ waiters' = s.w
      /\ calls' = calls \union (s.g \ G)

Untouched == UNCHANGED <<granted, waiters, calls>>

Without(W, Drop(_)) == SelectSeq(W, LAMBDA r : ~Drop(r))

\* request: a request id already granted or waiting is left alone.
Request(r) ==
  IF r \in granted \/ Contains(waiters, r) THEN Untouched
  ELSE Commit(granted, Append(waiters, r))

\* release: only the permit's own generation returns it.
Release(r) ==
  IF r \in granted THEN Commit(granted \ {r}, waiters) ELSE Untouched

\* A cancel that only looks among the waiters.
CancelWaiter(r) ==
  IF Contains(waiters, r)
  THEN Commit(granted, Without(waiters, LAMBDA x : x = r)) ELSE Untouched

\* cancel: forgets the request, waiting or granted.
Cancel(r) ==
  IF r \in granted \/ Contains(waiters, r)
  THEN Commit(granted \ {r}, Without(waiters, LAMBDA x : x = r)) ELSE Untouched

\* drop_generation: waiters and grants of the generation go together.
Drop(g) ==
  Commit({r \in granted : Owner(r) # g}, Without(waiters, LAMBDA r : Owner(r) = g))

\* Both sides of one grant: SlotFleet._grant_enclave, ChildSupervisor.grant_enclave.
Deliver(r) ==
  /\ r \in calls
  /\ calls' = calls \ {r}
  /\ inbox' = IF fenced[Owner(r)] THEN inbox
              ELSE [inbox EXCEPT ![Owner(r)] = @ \union {r}]
  /\ UNCHANGED <<proc, fenced, dropped, child, pipe, reader, granted, waiters, left>>

----------------------------------------------------------------------------
(* The child: BrokerSemaphore.                                             *)

Send(g, m) == pipe' = [pipe EXCEPT ![g] = Append(@, m)]

\* acquire sends the request and waits.
Acquire(r) ==
  /\ proc[Owner(r)] = "up" /\ child[r] = "new"
  /\ child' = [child EXCEPT ![r] = "pending"]
  /\ Send(Owner(r), Msg("acquire", r))
  /\ UNCHANGED <<proc, fenced, dropped, reader, granted, waiters, calls, inbox, left>>

\* _grant_reader: a grant nobody waits for any more is read and forgotten.
ReadGrant(r) ==
  /\ proc[Owner(r)] = "up" /\ r \in inbox[Owner(r)]
  /\ inbox' = [inbox EXCEPT ![Owner(r)] = @ \ {r}]
  /\ child' = IF child[r] = "pending" THEN [child EXCEPT ![r] = "held"] ELSE child
  /\ UNCHANGED <<proc, fenced, dropped, pipe, reader, granted, waiters, calls, left>>

\* The waiting task is cancelled or the wait raises; close() does the same.
GiveUp(r) ==
  /\ proc[Owner(r)] = "up" /\ child[r] = "pending"
  /\ child' = [child EXCEPT ![r] = "over"]
  /\ Send(Owner(r), Msg("cancel", r))
  /\ UNCHANGED <<proc, fenced, dropped, reader, granted, waiters, calls, inbox, left>>

\* release: the permit is the child's until the message is sent.
Return(r) ==
  /\ proc[Owner(r)] = "up" /\ child[r] = "held"
  /\ child' = [child EXCEPT ![r] = "over"]
  /\ Send(Owner(r), Msg("release", r))
  /\ UNCHANGED <<proc, fenced, dropped, reader, granted, waiters, calls, inbox, left>>

----------------------------------------------------------------------------
(* The parent's reader thread of one generation: _drain_loop and           *)
(* _handle_message.                                                        *)

\* An acquire that passes the check is handed to the broker in a later step;
\* release and cancel check and call the broker, which checks again.
Read(g) ==
  /\ reader[g] = {} /\ pipe[g] # <<>>
  /\ pipe' = [pipe EXCEPT ![g] = Tail(@)]
  /\ LET m == Head(pipe[g]) IN
       \/ /\ fenced[g]
          /\ Untouched /\ UNCHANGED reader
       \/ /\ ~fenced[g] /\ m.act = "acquire"
          /\ reader' = [reader EXCEPT ![g] = {m.req}] /\ Untouched
       \/ /\ ~fenced[g] /\ m.act = "release"
          /\ Release(m.req) /\ UNCHANGED reader
       \/ /\ ~fenced[g] /\ m.act = "cancel"
          /\ Cancel(m.req) /\ UNCHANGED reader
  /\ UNCHANGED <<proc, fenced, dropped, child, inbox, left>>

Hand(g) ==
  /\ \E r \in reader[g] : Request(r)
  /\ reader' = [reader EXCEPT ![g] = {}]
  /\ UNCHANGED <<proc, fenced, dropped, child, pipe, inbox, left>>

\* End of file: the reader leaves; it drops the current generation if the
\* process has already exited.
Eof(g) ==
  /\ reader[g] = {} /\ pipe[g] = <<>> /\ proc[g] = "dead" /\ ~fenced[g]
  /\ Drop(g)
  /\ UNCHANGED <<proc, fenced, dropped, child, pipe, reader, inbox, left>>

----------------------------------------------------------------------------
(* The supervisor's kill of one generation, and processes that exit.       *)

\* SIGKILL and the fence of the generation (_kill_if_snapshot_locked;
\* _kill_locked fences when the death is confirmed, see Confirm).
Kill(g) ==
  /\ ~fenced[g] /\ proc[g] \in {"up", "dead"}
  /\ proc' = [proc EXCEPT ![g] = IF @ = "up" THEN "killed" ELSE @]
  /\ fenced' = [fenced EXCEPT ![g] = TRUE]
  /\ UNCHANGED <<dropped, child, pipe, reader, granted, waiters, calls, inbox, left>>

\* The process exits, killed or by itself.
Exit(g) ==
  /\ proc[g] # "dead"
  /\ proc' = [proc EXCEPT ![g] = "dead"]
  /\ UNCHANGED <<fenced, dropped, child, pipe, reader, granted, waiters, calls, inbox,
                 left>>

\* The permits of a generation are returned as soon as it is killed.
ConfirmAtOnce(g) ==
  /\ fenced[g] /\ ~dropped[g]
  /\ dropped' = [dropped EXCEPT ![g] = TRUE]
  /\ pipe' = [pipe EXCEPT ![g] = <<>>]
  /\ inbox' = [inbox EXCEPT ![g] = {}]
  /\ IF reader[g] = {} THEN UNCHANGED left ELSE left > 0 /\ left' = left - 1
  /\ Drop(g)
  /\ UNCHANGED <<proc, fenced, child, reader>>

\* The reader is joined (or the join times out while it holds a checked
\* acquire), the pipe closed, the exit confirmed and the generation dropped.
\* An exit that is not confirmed leaves the generation retired: this action
\* waits for a later kill that confirms it.
Confirm(g) ==
  /\ fenced[g] /\ ~dropped[g] /\ proc[g] = "dead"
  /\ dropped' = [dropped EXCEPT ![g] = TRUE]
  /\ pipe' = [pipe EXCEPT ![g] = <<>>]
  /\ inbox' = [inbox EXCEPT ![g] = {}]
  /\ IF reader[g] = {} THEN UNCHANGED left ELSE left > 0 /\ left' = left - 1
  /\ Drop(g)
  /\ UNCHANGED <<proc, fenced, child, reader>>

----------------------------------------------------------------------------
Next ==
  \/ \E r \in Requests : Acquire(r) \/ ReadGrant(r) \/ GiveUp(r) \/ Return(r) \/ Deliver(r)
  \/ \E g \in Gens : Read(g) \/ Hand(g) \/ Eof(g) \/ Kill(g) \/ Exit(g) \/ Confirm(g)

\* The reader threads and the broker's callbacks run, a child reads its
\* grants and leaves its enclave calls, the watchdog comes back to a killed
\* slot until its exit is confirmed.
Fairness ==
  /\ \A r \in Requests : WF_vars(ReadGrant(r)) /\ WF_vars(Return(r)) /\ WF_vars(Deliver(r))
  /\ \A g \in Gens : /\ WF_vars(Read(g)) /\ WF_vars(Hand(g)) /\ WF_vars(Eof(g))
                     /\ WF_vars(proc[g] = "killed" /\ Exit(g))
                     /\ WF_vars(proc[g] = "dead" /\ Kill(g))
                     /\ WF_vars(Confirm(g))

Spec == Init /\ [][Next]_vars /\ Fairness

----------------------------------------------------------------------------
(* Properties.                                                             *)

\* No more children are inside an enclave call than there are permits: a
\* permit is never given away while the process that holds it may still run
\* (child_supervisor keeps the permits of an unconfirmed kill reserved).
NoOversubscription ==
  Cardinality({r \in Requests : child[r] = "held" /\ proc[Owner(r)] # "dead"}) <= Limit

\* The broker is work conserving: whatever message, cancel or death comes
\* last, no permit stays free while a request waits.
WorkConserving == waiters = <<>> \/ Cardinality(granted) = Limit

\* "Invalidate the generation while holding the snapshot lock, so a late pipe
\* message from the killed process cannot repopulate state after the
\* decision": a dropped generation owns no permit and waits for none.
DroppedOwnsNothing ==
  \A r \in Requests : dropped[Owner(r)] => r \notin granted /\ ~Contains(waiters, r)

\* Every acquire of a child that stays up is answered: cancels that cross a
\* grant, dead holders and killed readers never lose a permit for good.
AcquireAnswered ==
  \A r \in Requests : child[r] = "pending" ~> child[r] # "pending" \/ proc[Owner(r)] # "up"

=============================================================================
