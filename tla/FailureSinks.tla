---------------------------- MODULE FailureSinks ----------------------------
(***************************************************************************)
(* The terminal-failure outbox of one user: the marker a failing chat or    *)
(* scheduled job leaves in its terminal transaction, and the three sinks    *)
(* that make the failure visible (the status stream, the error chip of the  *)
(* active model route, the failure bubble in the chat).                     *)
(*                                                                         *)
(* The worker that failed the job and the reapers of every process replay   *)
(* the markers at once. A pass reads the three due lists first and delivers *)
(* row by row afterwards; the status and route sinks commit their write and *)
(* the acknowledgement together under the marker's row lock, the reply sink *)
(* appends and acknowledges in two transactions.                            *)
(***************************************************************************)
EXTENDS Naturals, Sequences, FiniteSets, SequencesExt

CONSTANTS
    Workers,     \* make one prompt attempt for the job they failed
    Reapers,     \* replay every marker, in a loop
    Lane,        \* Lane[j]: "chat" or "scheduled", for the jobs in id order
    Routes,      \* the user's model routes
    Poison,      \* pairs <<job, sink>> whose delivery always raises
    Limit,       \* limit of reconcile_terminal_failure_outbox, at least 1
    MaxTouches,  \* bound on route selections and edits
    MaxFaults,   \* bound on deaths, failing deliveries and failing deferrals
    MaxClears,   \* bound on Clear
    Nobody

Jobs == 1..Len(Lane)
Reconcilers == Workers \cup Reapers
Sinks == <<"status", "runtime_error", "reply">>

VARIABLES
    job,     \* agent_jobs.status of each job; "replied": completed by its reply
    ans,     \* how each job's user message stands: open, reply, failure, ...
    cursor,  \* v2_reply_cursor_seq, as the index of the last answered message
    route,   \* [active, ver, err]: is_active, updated_at, last_runtime_error
    marker,  \* v2_terminal_failure_outbox
    rot,     \* per sink, the jobs by *_last_attempt_at; absent: never tried
    events,  \* jobs with an 'error' row in agent_status_events
    bubbles, \* jobs whose failure message is in the chat
    held,    \* who holds the row lock of each marker
    rec,     \* reconciler -> [pc, only, lists, k]
    cleared, \* history: cleared[r], the last job whose success wiped route r
    gone,    \* history: the last job a Clear covered
    left     \* remaining faults, touches, clears and prompt attempts

vars == <<job, ans, cursor, route, marker, rot, events, bubbles, held, rec,
          cleared, gone, left>>

SinkNames == Range(Sinks)
NoMarker == [on |-> FALSE, route |-> Nobody, ver |-> 0,
             done |-> [s \in SinkNames |-> FALSE],
             due |-> [s \in SinkNames |-> TRUE]]
Idle == [pc |-> "idle", only |-> 0, lists |-> [s \in SinkNames |-> <<>>], k |-> 1]

Init ==
    /\ job = [j \in Jobs |-> "none"] /\ ans = [j \in Jobs |-> "none"]
    /\ cursor = 0
    /\ \E r \in Routes : route = [active |-> r, ver |-> [x \in Routes |-> 0],
                                  err |-> [x \in Routes |-> 0]]
    /\ marker = [j \in Jobs |-> NoMarker] /\ rot = [s \in SinkNames |-> <<>>]
    /\ events = {} /\ bubbles = {} /\ held = [j \in Jobs |-> Nobody]
    /\ rec = [p \in Reconcilers |-> Idle]
    /\ cleared = [r \in Routes |-> 0] /\ gone = 0
    /\ left = [faults |-> MaxFaults, touches |-> MaxTouches,
               clears |-> MaxClears, prompt |-> Jobs]

-----------------------------------------------------------------------------
(* The jobs of the user. A chat job is created by a send and carries its     *)
(* message; one chat job is active at a time.                                *)

Ids(P(_)) == SelectSeq([i \in Jobs |-> i], P)
Completed(j) == job[j] \in {"handed_off", "replied"}

Start(j) ==
    /\ job[j] = "none" /\ \A i \in 1..(j-1) : job[i] # "none"
    /\ \A i \in Jobs : job[i] = "running" => Lane[i] # Lane[j]
    /\ job' = [job EXCEPT ![j] = "running"]
    /\ ans' = [ans EXCEPT ![j] = IF Lane[j] = "chat" THEN "open" ELSE "none"]
    /\ UNCHANGED <<cursor, route, marker, rot, events, bubbles, held, rec,
                   cleared, gone, left>>

Queued(j) == [NoMarker EXCEPT !.on = TRUE, !.route = route.active,
                              !.ver = route.ver[route.active]]

\* mark_failed and the reaper: the job and its marker in one transaction.
Fail(j) ==
    /\ job[j] = "running"
    /\ job' = [job EXCEPT ![j] = "failed"]
    /\ marker' = [marker EXCEPT ![j] = Queued(j)]
    /\ UNCHANGED <<ans, cursor, route, rot, events, bubbles, held, rec,
                   cleared, gone, left>>

Touched(r) == [route EXCEPT !.ver[r] = @ + 1]
\* The final reply, the completed job, the cursor and the cleared error chip
\* of the active route commit together. A scheduled job leaves the chip alone.
Complete(j) ==
    /\ job[j] = "running"
    /\ job' = [job EXCEPT ![j] = "replied"]
    /\ IF Lane[j] = "chat"
       THEN /\ ans' = [m \in Jobs |-> IF m \in (cursor+1)..j /\ ans[m] = "open"
                                      THEN "reply" ELSE ans[m]]
            /\ cursor' = j
            /\ route' = [Touched(route.active) EXCEPT !.err[route.active] = 0]
            /\ cleared' = [cleared EXCEPT ![route.active] = j]
       ELSE UNCHANGED <<ans, cursor, route, cleared>>
    /\ UNCHANGED <<marker, rot, events, bubbles, held, rec, gone, left>>

\* finish_chat_job with force_successor: completed without a reply.
HandOff(j) ==
    /\ job[j] = "running" /\ Lane[j] = "chat"
    /\ job' = [job EXCEPT ![j] = "handed_off"]
    /\ UNCHANGED <<ans, cursor, route, marker, rot, events, bubbles, held, rec,
                   cleared, gone, left>>

\* ensure_terminal_failure_outbox after a completed turn whose effects are
\* uncertain; the pinned generation refuses a job from before a Clear.
EnsureMarker(j) ==
    /\ Completed(j) /\ j > gone /\ ~marker[j].on
    /\ marker' = [marker EXCEPT ![j] = Queued(j)]
    /\ UNCHANGED <<job, ans, cursor, route, rot, events, bubbles, held, rec,
                   cleared, gone, left>>

\* The user selects a route, or edits or tests the selected one.
Activate(r) ==
    /\ left.touches > 0 /\ left' = [left EXCEPT !.touches = @ - 1]
    /\ route' = [route EXCEPT !.active = r,
                   !.ver = [x \in Routes |-> IF x \in {r, route.active}
                                             THEN @[x] + 1 ELSE @[x]]]
    /\ UNCHANGED <<job, ans, cursor, marker, rot, events, bubbles, held, rec,
                   cleared, gone>>

Newest == Len(Ids(LAMBDA j : job[j] # "none"))
ClearAtOnce ==
    /\ left.clears > 0 /\ left' = [left EXCEPT !.clears = @ - 1]
    /\ gone' = Newest /\ cursor' = 0 /\ events' = {} /\ bubbles' = {}
    /\ job' = [j \in Jobs |-> IF job[j] = "running" THEN "superseded" ELSE job[j]]
    /\ ans' = [j \in Jobs |-> IF ans[j] = "none" THEN "none" ELSE "cleared"]
    /\ route' = [route EXCEPT !.err = [r \in Routes |-> 0],
                              !.ver = [r \in Routes |-> @[r] + 1]]
    /\ marker' = [j \in Jobs |-> NoMarker] /\ rot' = [s \in SinkNames |-> <<>>]
    /\ UNCHANGED <<held, rec, cleared>>

\* chat_clear: deleting the markers waits for the reconciler that holds one;
\* the status events and the chips go afterwards, in the same transaction.
Clear ==
    /\ \A j \in Jobs : held[j] = Nobody
    /\ ClearAtOnce
-----------------------------------------------------------------------------
(* A pass of reconcile_terminal_failure_outbox.                             *)

PendingRows(s, only) ==
    LET Due(j) == /\ marker[j].on /\ ~marker[j].done[s] /\ marker[j].due[s]
                  /\ only \in {0, j}
        Fresh(j) == Due(j) /\ j \notin Range(rot[s])
        rows == Ids(Fresh) \o SelectSeq(rot[s], Due)
    IN  SubSeq(rows, 1, IF Len(rows) < Limit THEN Len(rows) ELSE Limit)

Begin(p) ==
    /\ p \in Reapers /\ rec[p].pc = "idle"
    /\ rec' = [rec EXCEPT ![p] = [Idle EXCEPT !.pc = "list"]]
    /\ UNCHANGED <<job, ans, cursor, route, marker, rot, events, bubbles, held,
                   cleared, gone, left>>

\* _surface_terminal_error: the failing turn's own attempt, for its job only.
Surface(p, j) ==
    /\ p \in Workers /\ rec[p].pc = "idle" /\ marker[j].on /\ j \in left.prompt
    /\ left' = [left EXCEPT !.prompt = @ \ {j}]
    /\ rec' = [rec EXCEPT ![p] = [Idle EXCEPT !.pc = "list", !.only = j]]
    /\ UNCHANGED <<job, ans, cursor, route, marker, rot, events, bubbles, held,
                   cleared, gone>>

\* The next row of the pass: the rest of this list, or the next list.
Settled(r) ==
    LET todo == {k \in r.k..3 : r.lists[Sinks[k]] # <<>>}
    IN  IF todo = {} THEN Idle
        ELSE [r EXCEPT !.pc = "deliver",
                       !.k = CHOOSE k \in todo : \A i \in todo : k <= i]
Proceed(p) == LET r == rec[p] s == Sinks[r.k]
              IN  Settled([r EXCEPT !.lists[s] = Tail(@)])

At(p, pc) == rec[p].pc = pc
\* The three reads follow each other at once and are taken as one; each
\* delivery looks at its row again.
ReadLists(p) ==
    /\ At(p, "list")
    /\ rec' = [rec EXCEPT ![p] = Settled([rec[p] EXCEPT !.lists =
                  [s \in SinkNames |-> PendingRows(s, rec[p].only)]])]
    /\ UNCHANGED <<job, ans, cursor, route, marker, rot, events, bubbles, held,
                   cleared, gone, left>>

Sink(p) == Sinks[rec[p].k]
Row(p) == Head(rec[p].lists[Sink(p)])
Step(p, pc) == rec' = [rec EXCEPT ![p].pc = pc]
Next_(p) == rec' = [rec EXCEPT ![p] = Proceed(p)]
Open(p) == marker[Row(p)].on /\ ~marker[Row(p)].done[Sink(p)]
Acked(p) == IF Open(p) THEN [marker EXCEPT ![Row(p)].done[Sink(p)] = TRUE]
            ELSE marker
Healthy(p) == <<Row(p), Sink(p)>> \notin Poison
NewerReply(j) == \E k \in Jobs : k > j /\ job[k] = "replied" /\ k > gone

\* _deliver_terminal_failure_status up to the INSERT: the marker's row lock,
\* and the look for a newer final reply, which is not locked.
StatusLook(p) ==
    LET j == Row(p)
        moot == ~Open(p) \/ (Lane[j] = "chat" /\ NewerReply(j))
    IN  /\ At(p, "deliver") /\ Sink(p) = "status" /\ held[j] = Nobody /\ Healthy(p)
        /\ IF moot THEN Next_(p) /\ marker' = Acked(p) /\ UNCHANGED held
           ELSE Step(p, "insert") /\ held' = [held EXCEPT ![j] = p]
                /\ UNCHANGED marker
        /\ UNCHANGED <<job, ans, cursor, route, rot, events, bubbles, cleared,
                       gone, left>>

StatusInsert(p) ==
    LET j == Row(p)
    IN  /\ At(p, "insert")
        /\ events' = events \cup {j} /\ marker' = Acked(p)
        /\ held' = [held EXCEPT ![j] = Nobody] /\ Next_(p)
        /\ UNCHANGED <<job, ans, cursor, route, rot, bubbles, cleared, gone, left>>

SameVersion(j) == /\ route.active = marker[j].route
                  /\ route.ver[route.active] = marker[j].ver
NewerDone(j) == \E k \in Jobs : k > j /\ Lane[k] = "chat" /\ Completed(k)

\* _deliver_terminal_failure_runtime_error: stamp the captured route if it is
\* still the active one, in the same version, and no newer turn completed.
Stamp(p) ==
    LET j == Row(p)
        fits == Open(p) /\ Lane[j] = "chat" /\ SameVersion(j) /\ ~NewerDone(j)
    IN  /\ At(p, "deliver") /\ Sink(p) = "runtime_error"
        /\ held[j] = Nobody /\ Healthy(p)
        /\ route' = IF fits
                    THEN [Touched(route.active) EXCEPT !.err[route.active] = j]
                    ELSE route
        /\ marker' = Acked(p) /\ Next_(p)
        /\ UNCHANGED <<job, ans, cursor, rot, events, bubbles, held, cleared,
                       gone, left>>

\* _deliver_terminal_failure_reply: is the bubble there already?
ReplyLook(p) ==
    LET j == Row(p)
    IN  /\ At(p, "deliver") /\ Sink(p) = "reply" /\ Healthy(p)
        /\ Step(p, IF j \in bubbles THEN "ack"
                   ELSE IF Lane[j] = "chat" THEN "gate" ELSE "append")
        /\ UNCHANGED <<job, ans, cursor, route, marker, rot, events, bubbles,
                       held, cleared, gone, left>>

ReplyGate(p) ==
    /\ At(p, "gate")
    /\ Step(p, IF ans[Row(p)] = "reply" THEN "ack" ELSE "append")
    /\ UNCHANGED <<job, ans, cursor, route, marker, rot, events, bubbles, held,
                   cleared, gone, left>>

AppendUnfenced(p) ==
    LET j == Row(p)
    IN  /\ At(p, "append") /\ Step(p, "ack")
        /\ bubbles' = bubbles \cup {j}
        /\ UNCHANGED <<job, ans, cursor, route, marker, rot, events, held,
                       cleared, gone, left>>

\* chat_append_effect_with_cursor(require_cursor_advance): bubble, parent marks
\* and cursor in one transaction, nothing when the cursor is past the frontier.
\* The bubble of a reminder stands alone.
ReplyAppend(p) ==
    LET j == Row(p)
        closes == Lane[j] = "chat" /\ cursor < j
        range == (cursor+1)..j
    IN  /\ At(p, "append") /\ Step(p, "ack")
        /\ closes => \A m \in range : ans[m] \notin {"reply", "failure"}
        /\ bubbles' = IF closes \/ Lane[j] = "scheduled" THEN bubbles \cup {j}
                      ELSE bubbles
        /\ ans' = [m \in Jobs |-> IF closes /\ m \in range /\ ans[m] = "open"
                                  THEN "failure" ELSE ans[m]]
        /\ cursor' = IF closes THEN j ELSE cursor
        /\ UNCHANGED <<job, route, marker, rot, events, held, cleared, gone, left>>

ReplyAck(p) ==
    /\ At(p, "ack") /\ held[Row(p)] = Nobody
    /\ marker' = Acked(p) /\ Next_(p)
    /\ UNCHANGED <<job, ans, cursor, route, rot, events, bubbles, held, cleared,
                   gone, left>>

\* Whatever a delivery raises rolls its transaction back and defers the row.
Raise(p) ==
    /\ rec[p].pc \in {"deliver", "insert", "gate", "append", "ack"}
    /\ \/ At(p, "deliver") /\ ~Healthy(p) /\ UNCHANGED left
       \/ left.faults > 0 /\ left' = [left EXCEPT !.faults = @ - 1]
    /\ Step(p, "defer")
    /\ held' = [j \in Jobs |-> IF held[j] = p THEN Nobody ELSE held[j]]
    /\ UNCHANGED <<job, ans, cursor, route, marker, rot, events, bubbles,
                   cleared, gone>>

\* _defer_terminal_failure_sink: behind the untried rows, and not due for a
\* while. The deferral itself may fail and is given up.
Defer(p) ==
    LET j == Row(p) s == Sink(p)
        Others(i) == i # j
    IN  /\ At(p, "defer") /\ held[j] = Nobody /\ Next_(p)
        /\ \/ /\ Open(p) /\ UNCHANGED left
              /\ marker' = [marker EXCEPT ![j].due[s] = FALSE]
              /\ rot' = [rot EXCEPT ![s] = Append(SelectSeq(@, Others), j)]
           \/ ~Open(p) /\ UNCHANGED <<marker, rot, left>>
           \/ /\ left.faults > 0 /\ left' = [left EXCEPT !.faults = @ - 1]
              /\ UNCHANGED <<marker, rot>>
        /\ UNCHANGED <<job, ans, cursor, route, events, bubbles, held, cleared, gone>>

BackoffElapses(j, s) ==
    /\ marker[j].on /\ ~marker[j].due[s]
    /\ marker' = [marker EXCEPT ![j].due[s] = TRUE]
    /\ UNCHANGED <<job, ans, cursor, route, rot, events, bubbles, held, rec,
                   cleared, gone, left>>

Die(p) ==
    /\ rec[p].pc # "idle" /\ left.faults > 0
    /\ left' = [left EXCEPT !.faults = @ - 1]
    /\ rec' = [rec EXCEPT ![p] = Idle]
    /\ held' = [j \in Jobs |-> IF held[j] = p THEN Nobody ELSE held[j]]
    /\ UNCHANGED <<job, ans, cursor, route, marker, rot, events, bubbles,
                   cleared, gone>>

Deliver(p) ==
    \/ StatusLook(p) \/ StatusInsert(p) \/ Stamp(p)
    \/ ReplyLook(p) \/ ReplyGate(p) \/ ReplyAppend(p) \/ ReplyAck(p)
Pass(p) == ReadLists(p) \/ Deliver(p) \/ Raise(p) \/ Defer(p)
Next ==
    \/ \E j \in Jobs : \/ Start(j) \/ Fail(j) \/ Complete(j) \/ HandOff(j)
                       \/ EnsureMarker(j)
    \/ \E r \in Routes : Activate(r)
    \/ Clear
    \/ \E p \in Reconcilers : Begin(p) \/ Pass(p) \/ Die(p)
    \/ \E p \in Workers, j \in Jobs : Surface(p, j)
    \/ \E j \in Jobs, s \in SinkNames : BackoffElapses(j, s)

Spec == Init /\ [][Next]_vars
\* The reaper's loop runs a full pass every interval in each process, and time
\* passes. Nothing is assumed of the jobs or the user.
Fairness ==
    /\ \A p \in Reapers : WF_vars(Begin(p))
    /\ \A p \in Reconcilers : WF_vars(Pass(p))
    /\ \A j \in Jobs, s \in SinkNames : WF_vars(BackoffElapses(j, s))
FairSpec == Spec /\ Fairness
-----------------------------------------------------------------------------
\* Every variable stays in its domain, and a row lock is held only by the
\* reconciler that is inserting that row's event.
TypeOK ==
    /\ job \in [Jobs -> {"none", "running", "failed", "replied", "handed_off",
                         "superseded"}]
    /\ ans \in [Jobs -> {"none", "open", "reply", "failure", "cleared"}]
    /\ cursor \in 0..Len(Lane) /\ gone \in 0..Len(Lane)
    /\ events \subseteq Jobs /\ bubbles \subseteq Jobs
    /\ \A s \in SinkNames : IsInjective(rot[s])
    /\ \A j \in Jobs : held[j] # Nobody =>
           /\ rec[held[j]].pc = "insert" /\ Row(held[j]) = j

\* A chat failure acknowledged by the reply sink leaves no message unanswered:
\* its parent carries the bubble's mark or a real reply's.
AckClosesTurn ==
    \A j \in Jobs : marker[j].on /\ marker[j].done["reply"] /\ Lane[j] = "chat"
        => ans[j] \in {"reply", "failure"}

\* A marker whose delivery fails for ever in one sink neither hides the other
\* markers, though a pass takes only Limit rows, nor its own other sinks.
PoisonHidesNothing ==
    \A j \in Jobs : \A s \in SinkNames : <<j, s>> \notin Poison =>
        (marker[j].on ~> (~marker[j].on \/ marker[j].done[s]))
=============================================================================
