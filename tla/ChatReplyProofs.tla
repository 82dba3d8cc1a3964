--------------------------- MODULE ChatReplyProofs ---------------------------
(***************************************************************************)
(* Proofs about ChatReply, for any number of messages, jobs, generations,  *)
(* crashes and reconcilers.                                                *)
(*                                                                         *)
(* None of the run's invariants is inductive.  What carries them is the    *)
(* relation between the turn that may still publish and the marks on the   *)
(* messages: a turn is current while its job runs in the generation that   *)
(* owns the user, at most one job runs, and whatever the current turn may  *)
(* answer lies beyond the reply cursor or was closed by a failure notice   *)
(* since the turn loaded the cursor.                                       *)
(***************************************************************************)
EXTENDS ChatReply, TLAPS

(* Leaves are proved by Zenon unless they cite SMT.                        *)
USE Zenon

Running(j) == jobs[j].status = "running"
Unclaimed(j) == jobs[j].status \in {"absent", "pending"}
Current(j) == Running(j) /\ rtState = "v2" /\ jobs[j].gen = rtGen
Real(b) == b.kind # "failure"

(* Everything recorded as a frontier was sent.                             *)
Frontiers ==
  /\ cursor <= sent
  /\ \A m \in Seqs : msgs[m] # "absent" => m <= sent
  /\ \A e \in effects : e[2] <= sent
  /\ \A j \in Ids : turns[j].target <= sent /\ outbox[j].frontier <= sent
  /\ \A r \in Reconcilers : sinks[r].frontier <= sent

(* Job ids are handed out in order, so that the next one is fresh.         *)
Dense == \E n \in 0 .. MaxJobs : \A j \in Ids : jobs[j].status # "absent" <=> j <= n

Queue ==
  /\ Dense
  /\ \A i, j \in Ids : Running(i) /\ Running(j) => i = j
  /\ \A j \in Ids : jobs[j].gen <= rtGen
  /\ sweep.gen <= rtGen

(* A job nobody has claimed has no turn and no reply under way.            *)
Untouched ==
  \A j \in Ids : Unclaimed(j) =>
    turns[j].pc = "none" /\ \A m \in Seqs : <<j, m>> \notin effects

(* Marks, bubbles and the cursor.  Beyond the cursor only the resident     *)
(* runtime answers, and only while it owns the user.                       *)
Answers ==
  /\ \A b \in bubbles : Real(b) => msgs[b.parent] \in {"reply", "resident"}
  /\ \A b, c \in bubbles : Real(b) /\ Real(c) /\ b.parent = c.parent => b = c
  /\ \A m \in Answered(msgs) : m > cursor => msgs[m] = "resident"

(* What the current turn may answer.                                       *)
Answerable(m) == m \in Live(msgs) /\ (m > cursor \/ msgs[m] = "failure")

Pinned(j) == turns[j].pc \in {"pinned", "offered"} /\ turns[j].target # 0
Loaded(j) == turns[j].pc \in {"loaded", "pinned", "offered"}

Turns ==
  /\ \A j \in Ids : Pinned(j) => turns[j].target > turns[j].since
  /\ \A j \in Ids : Current(j) /\ Pinned(j) => turns[j].target \in Live(msgs)
  /\ \A j \in Ids : Current(j) /\ Loaded(j) =>
       \A m \in Live(msgs) : m > turns[j].since => Answerable(m)
  /\ \A j \in Ids, m \in Seqs : Current(j) /\ <<j, m>> \in effects => Answerable(m)

(* A running turn that is offered mutating tools has seen no record of     *)
(* another turn beyond the cursor it loaded.                               *)
Solo ==
  \A j \in Ids : Running(j) /\ turns[j].pc \in {"loaded", "pinned"} /\ ~turns[j].barrier =>
    \A w \in wrote : w[1] # j => w[2] <= turns[j].since

Inv ==
  /\ TypeOK /\ Frontiers /\ Queue /\ Untouched /\ Answers /\ Turns /\ Solo
  /\ CursorCoversMarks /\ NothingSkipped /\ MutatesOnce

-----------------------------------------------------------------------------
(* Oldest and newest messages.  That a set of sequence numbers has a least *)
(* and a greatest element is itself an invariant: it is kept as the        *)
(* numbers grow, one message at a time.                                    *)

Ordered(n) ==
  \A S \in SUBSET (0 .. n) : S # {} =>
    /\ \E x \in S : \A y \in S : y <= x
    /\ \E x \in S : \A y \in S : x <= y

(* Newest is the greatest message of a set, or 0 when there is none.       *)
LEMMA NewestIs ==
  ASSUME NEW n \in Nat, Ordered(n), NEW S \in SUBSET (0 .. n)
  PROVE  /\ Newest(S) \in S \cup {0}
         /\ \A m \in S : m <= Newest(S)
<1> DEFINE T == S \cup {0}
<1>1. T \in SUBSET (0 .. n) /\ T # {}
  BY SMT
<1>2. Newest(S) = Max(T)
  BY DEF Newest
<1>3. \A m \in S : m \in T
  OBVIOUS
<1> HIDE DEF T
<1>4. PICK x \in T : \A y \in T : y <= x
  BY <1>1 DEF Ordered
<1>5. \A y \in T : x >= y
  BY <1>1, <1>4
<1>6. Max(T) \in T /\ \A y \in T : Max(T) >= y
  BY <1>5 DEF Max
<1>7. \A y \in T : y <= Max(T)
  BY <1>1, <1>6
<1>8. QED BY <1>2, <1>3, <1>6, <1>7 DEF T

\* A row that ends keeps its generation.
LEMMA EndedIs ==
  ASSUME NEW r \in JobType, NEW s \in Terminal
  PROVE  /\ Ended(r, s) \in JobType
         /\ Ended(r, s).status = s
         /\ Ended(r, s).gen = r.gen
BY DEF Ended, JobType

(* Every transaction but the claim ends jobs, adds a pending one or counts *)
(* an input: no job starts to run and no job is taken back.                *)
JobStep ==
  /\ jobs' \in [Ids -> JobType]
  /\ Dense'
  /\ \A j \in Ids : Running(j)' => Running(j) /\ jobs'[j].gen = jobs[j].gen
  /\ \A j \in Ids : Unclaimed(j)' => Unclaimed(j)
  /\ \A j \in Ids : jobs'[j].gen <= rtGen

\* Leaving the jobs alone is a step of the jobs.
LEMMA JobsKept ==
  ASSUME TypeOK, Queue, UNCHANGED jobs
  PROVE  JobStep
<1>1. Dense'
  BY DEF Queue, Dense
<1>2. QED BY <1>1 DEF TypeOK, Queue, JobStep, Running, Unclaimed

\* A step of the jobs that starts none keeps Queue.
LEMMA QueueKept ==
  ASSUME Queue, JobStep, sweep'.gen <= rtGen, UNCHANGED rtGen
  PROVE  Queue'
BY DEF Queue, JobStep, Running

(* Jobs end and turns leave their working states.                          *)
Winding ==
  \A j \in Ids : \/ turns'[j] = turns[j]
                 \/ /\ turns'[j].pc \notin {"loaded", "pinned", "offered"}
                    /\ turns'[j].target <= sent
                    /\ ~Unclaimed(j)

\* It keeps unclaimed jobs without turn and reply.
LEMMA UntouchedKept ==
  ASSUME Untouched, JobStep, Winding, effects' \subseteq effects
  PROVE  Untouched'
<1> SUFFICES ASSUME NEW j \in Ids, Unclaimed(j)'
             PROVE  turns'[j].pc = "none" /\ \A m \in Seqs : <<j, m>> \notin effects'
  BY DEF Untouched
<1>1. Unclaimed(j)
  BY DEF JobStep
<1>2. turns'[j] = turns[j]
  BY <1>1 DEF Winding
<1>3. QED BY <1>1, <1>2 DEF Untouched

\* With turns that only wind down it keeps Turns.
LEMMA TurnsKept ==
  ASSUME Turns, JobStep, Winding, effects' \subseteq effects,
         UNCHANGED <<runtime, msgs, cursor>>
  PROVE  Turns'
<1>0. UNCHANGED <<rtState, rtGen>>
  BY DEF runtime
<1>1. \A j \in Ids : Current(j)' => Current(j)
  BY <1>0 DEF Current, JobStep, Running
<1>2. \A j \in Ids : Loaded(j)' => Loaded(j) /\ turns'[j] = turns[j]
  BY DEF Loaded, Winding
<1>3. \A j \in Ids : Pinned(j)' => Pinned(j) /\ turns'[j] = turns[j]
  BY DEF Pinned, Winding
<1>4. Live(msgs)' = Live(msgs) /\ \A m : Answerable(m) => Answerable(m)'
  BY DEF Live, Answerable
<1>5. \A j \in Ids : Pinned(j)' => turns'[j].target > turns'[j].since
  BY <1>3 DEF Turns
<1>6. \A j \in Ids : Current(j)' /\ Pinned(j)' => turns'[j].target \in Live(msgs)'
  BY <1>1, <1>3, <1>4 DEF Turns
<1>7. \A j \in Ids : Current(j)' /\ Loaded(j)' =>
        \A m \in Live(msgs)' : m > turns'[j].since => Answerable(m)'
  BY <1>1, <1>2, <1>4 DEF Turns
<1>8. \A j \in Ids, m \in Seqs : Current(j)' /\ <<j, m>> \in effects' => Answerable(m)'
  BY <1>1, <1>4 DEF Turns
<1>9. QED BY <1>5, <1>6, <1>7, <1>8 DEF Turns

\* With no new mutation record it keeps Solo.
LEMMA SoloKept ==
  ASSUME Solo, JobStep, Winding, wrote' \subseteq wrote
  PROVE  Solo'
<1> SUFFICES ASSUME NEW j \in Ids, Running(j)', turns'[j].pc \in {"loaded", "pinned"},
                    ~turns'[j].barrier, NEW w \in wrote', w[1] # j
             PROVE  w[2] <= turns'[j].since
  BY DEF Solo
<1>1. Running(j)
  BY DEF JobStep
<1>2. turns'[j] = turns[j]
  BY DEF Winding
<1>3. QED BY <1>1, <1>2 DEF Solo

(* Nothing changes for the turns, ...                                      *)
LEMMA TurnsSame ==
  ASSUME TypeOK, UNCHANGED turns
  PROVE  Winding /\ turns' \in [Ids -> TurnType]
BY DEF Winding, TypeOK

\* What the sweeper has read stays of an earlier generation.
LEMMA SweepSame ==
  ASSUME TypeOK, Queue, UNCHANGED sweep
  PROVE  sweep' \in SweepType /\ sweep'.gen <= rtGen
BY DEF TypeOK, Queue

\* The counters are numbers within their bounds.
LEMMA Numbers ==
  ASSUME TypeOK
  PROVE  /\ sent \in Nat /\ rtGen \in Nat /\ cursor \in Nat
         /\ MaxMsgs \in Nat /\ MaxJobs \in Nat /\ MaxGen \in Nat
         /\ sent \in 0 .. MaxMsgs /\ sent <= MaxMsgs /\ 0 <= sent /\ 0 <= rtGen /\ sent <= sent
BY SMT, BoundsAssumption DEF TypeOK

(* The resident runtime, cutovers and Chat Clear.                          *)
LEMMA OwnerSteps ==
  /\ Inv /\ ChatClear => Inv'
  /\ \A m \in Seqs : Inv /\ ResidentReply(m) => Inv'
  /\ \A target \in {"resident", "v2"} : Inv /\ Ordered(sent) /\ Cutover(target) => Inv'
(* No turn is current once the user has left the generation or the runtime *)
(* it was claimed in.                                                      *)
<1>TurnsFenced.
  ASSUME Inv, UNCHANGED turns, \A j \in Ids : ~Current(j)'
  PROVE  Turns'
  <2> USE <1>TurnsFenced
  <2>1. \A k \in Ids : Pinned(k)' => turns'[k].target > turns'[k].since
    BY DEF Inv, Turns, Pinned
  <2>2. QED BY <2>1 DEF Turns
<1>ResidentReplyStep.
  ASSUME NEW m \in Seqs, Inv, ResidentReply(m)
  PROVE  Inv'
  <2> USE <1>ResidentReplyStep
  <2> DEFINE b == [kind |-> "resident", parent |-> m, job |-> 0]
  <2>0. /\ rtState = "resident" /\ m \in Open(msgs)
        /\ msgs' = [msgs EXCEPT ![m] = "resident"] /\ bubbles' = bubbles \cup {b}
        /\ UNCHANGED <<rtState, rtGen, sent, cursor, jobs, turns, effects, wrote, outbox,
                       sinks, sweep>>
    BY DEF ResidentReply, runtime, turn
  <2>1. TypeOK /\ msgs \in [Seqs -> MarkType] /\ msgs[m] = "open"
    BY <2>0 DEF Inv, TypeOK, Open
  <2>2. /\ msgs' \in [Seqs -> MarkType] /\ msgs'[m] = "resident"
        /\ \A k \in Seqs : k # m => msgs'[k] = msgs[k]
    BY <2>0, <2>1 DEF MarkType
  <2>3. b \in BubbleType /\ Real(b) /\ b.parent = m
    BY SMT, <2>1, Numbers DEF BubbleType, Real
  <2> HIDE DEF b
  <2>4. TypeOK'
    BY <2>0, <2>2, <2>3 DEF Inv, TypeOK
  <2>5. Frontiers'
    BY <2>0, <2>1, <2>2 DEF Inv, Frontiers
  <2>6. JobStep /\ Winding
    BY <2>0, <2>1, JobsKept, TurnsSame DEF Inv
  <2>7. Queue' /\ Untouched' /\ Solo' /\ MutatesOnce'
    BY <2>0, <2>6, QueueKept, SweepSame, UntouchedKept, SoloKept DEF Inv, MutatesOnce
  <2>8. Turns'
    BY <2>0, <1>TurnsFenced DEF Current
  <2>9. CursorCoversMarks'
    BY <2>0 DEF CursorCoversMarks
  <2>10. /\ Open(msgs)' = Open(msgs) \ {m} /\ Live(msgs)' = Live(msgs)
         /\ Live(msgs) \subseteq Seqs
    BY <2>1, <2>2 DEF Open, Live
  <2>11. Answered(msgs)' = Answered(msgs) \cup {m} /\ m \notin Answered(msgs)
    BY <2>0, <2>10 DEF Answered, Open
  <2>12. \A c \in bubbles : Real(c) => c.parent \in Seqs /\ c.parent # m
    BY <2>1 DEF Inv, Answers, TypeOK, BubbleType
  <2>13. Answers'
    <3>1. \A c \in bubbles' : Real(c)' => msgs'[c.parent] \in {"reply", "resident"}
      <4> SUFFICES ASSUME NEW c \in bubbles', Real(c)
                   PROVE  msgs'[c.parent] \in {"reply", "resident"}
        BY DEF Real
      <4>1. CASE c = b
        BY <2>2, <2>3, <4>1
      <4>2. CASE c \in bubbles
        BY <2>2, <2>12, <4>2 DEF Inv, Answers
      <4>3. QED BY <2>0, <4>1, <4>2
    <3>2. \A c, d \in bubbles' : Real(c)' /\ Real(d)' /\ c.parent = d.parent => c = d
      <4> SUFFICES ASSUME NEW c \in bubbles', NEW d \in bubbles', Real(c), Real(d),
                          c.parent = d.parent
                   PROVE  c = d
        BY DEF Real
      <4>1. CASE c \in bubbles /\ d \in bubbles
        BY <4>1 DEF Inv, Answers
      <4>2. CASE c = b \/ d = b
        BY <2>0, <2>3, <2>12, <4>2
      <4>3. QED BY <2>0, <4>1, <4>2
    <3>3. \A k \in Answered(msgs)' : k > cursor' => msgs'[k] = "resident"
      <4> SUFFICES ASSUME NEW k \in Answered(msgs)', k > cursor PROVE msgs'[k] = "resident"
        BY <2>0
      <4>1. CASE k = m
        BY <2>2, <4>1
      <4>2. CASE k # m
        <5>1. k \in Answered(msgs) /\ k \in Seqs
          BY <2>10, <2>11, <4>2 DEF Answered
        <5>2. QED BY <2>2, <4>2, <5>1 DEF Inv, Answers
      <4>3. QED BY <4>1, <4>2
    <3>4. QED BY <3>1, <3>2, <3>3 DEF Answers
  <2>14. NothingSkipped'
    <3> SUFFICES ASSUME NEW k \in Open(msgs)', k <= cursor
                 PROVE  \E n \in Answered(msgs)' : n > k /\ msgs'[n] = "resident"
      BY <2>0 DEF NothingSkipped
    <3>1. k \in Open(msgs)
      BY <2>10
    <3>2. PICK n \in Answered(msgs) : n > k /\ msgs[n] = "resident"
      BY <3>1 DEF Inv, NothingSkipped
    <3>3. n \in Seqs /\ n # m
      BY <2>10, <2>11, <3>2 DEF Answered
    <3>4. msgs'[n] = "resident" /\ n \in Answered(msgs)'
      BY <2>2, <2>11, <3>2, <3>3
    <3>5. QED BY <3>2, <3>4
  <2>15. QED BY <2>4, <2>5, <2>7, <2>8, <2>9, <2>13, <2>14 DEF Inv
<1>CutoverStep.
  \A target \in {"resident", "v2"} : 
    Inv /\ Ordered(sent) /\ Cutover(target) => Inv'
  (* A change of the routing takes the generation with it.                   *)
  <2>Generations.
    ASSUME Inv, NEW target \in {"resident", "v2"}, Cutover(target)
    PROVE  /\ rtState' = target /\ rtGen' \in 1 .. MaxGen /\ rtGen <= rtGen' /\ rtGen' \in Nat
           /\ rtState # target => \A j \in Ids : jobs[j].gen # rtGen'
           /\ rtState = target => rtGen' = rtGen
    <3> USE <2>Generations
    <3>1. rtGen \in 1 .. MaxGen /\ rtGen \in Nat /\ MaxGen \in Nat
      BY Numbers DEF Inv, TypeOK
    <3>2. \A j \in Ids : jobs[j].gen \in Nat /\ jobs[j].gen <= rtGen
      BY DEF Inv, TypeOK, JobType, Queue
    <3>3. /\ rtState' = target
          /\ rtState # target => rtGen + 2 <= MaxGen
          /\ rtGen' = IF rtState = target THEN rtGen ELSE rtGen + 2
      BY DEF Cutover
    <3>4. CASE rtState = target
      BY SMT, <3>1, <3>3, <3>4
    <3>5. CASE rtState # target
      <4>1. rtGen' = rtGen + 2 /\ rtGen + 2 <= MaxGen
        BY <3>3, <3>5
      <4>2. QED BY SMT, <3>1, <3>2, <3>3, <3>5, <4>1
    <3>6. QED BY <3>4, <3>5
  (* Only the conversation and the generation move.                          *)
  <2>HandedOver.
    ASSUME Inv, rtGen' \in Nat, rtGen <= rtGen',
           UNCHANGED <<jobs, turns, effects, wrote, sweep>>
    PROVE  Queue' /\ Untouched' /\ Solo' /\ MutatesOnce'
    <3> USE <2>HandedOver
    <3>1. \A j \in Ids : jobs[j].gen \in Nat /\ jobs[j].gen <= rtGen
      BY DEF Inv, TypeOK, JobType, Queue
    <3>2. sweep.gen \in Nat /\ sweep.gen <= rtGen /\ rtGen \in Nat
      BY Numbers DEF Inv, TypeOK, SweepType, Queue
    <3>3. (\A j \in Ids : jobs[j].gen <= rtGen') /\ sweep.gen <= rtGen'
      BY SMT, <3>1, <3>2
    <3>4. Queue'
      BY <3>3 DEF Inv, Queue, Dense, Running
    <3>5. Untouched'
      BY DEF Inv, Untouched, Unclaimed
    <3>6. Solo' /\ MutatesOnce'
      BY DEF Inv, Solo, Running, MutatesOnce
    <3>7. QED BY <3>4, <3>5, <3>6
  (* To V2: the cursor moves past every answered message.                    *)
  <2>ToV2Step.
    ASSUME Inv, Ordered(sent), Cutover("v2"), cursor' = Newest({cursor} \cup Answered(msgs)), UNCHANGED msgs
    PROVE  Inv'
    <3> USE <2>ToV2Step
    <3>0. UNCHANGED <<sent, bubbles, jobs, turns, effects, wrote, outbox, sinks, sweep>>
      BY DEF Cutover, turn
    <3>1. /\ rtState' = "v2" /\ rtGen' \in 1 .. MaxGen /\ rtGen <= rtGen' /\ rtGen' \in Nat
          /\ rtState # "v2" => \A j \in Ids : jobs[j].gen # rtGen'
          /\ rtState = "v2" => rtGen' = rtGen
      BY <2>Generations
    <3>2. TypeOK /\ cursor \in Nat /\ cursor \in 0 .. MaxMsgs /\ sent \in Nat /\ MaxMsgs \in Nat
      BY Numbers DEF Inv, TypeOK
    <3>3. Live(msgs) \subseteq Seqs /\ Answered(msgs) \subseteq Seqs
          /\ \A m \in Answered(msgs) : m <= sent /\ m \in Nat
      BY SMT, <3>2 DEF Inv, Frontiers, TypeOK, Live, Answered, Seqs
    <3>4. {cursor} \cup Answered(msgs) \in SUBSET (0 .. sent) /\ sent <= MaxMsgs
      BY SMT, <3>2, <3>3, Numbers DEF Inv, Frontiers
    <3>5. /\ cursor' \in 0 .. MaxMsgs /\ cursor' \in {cursor} \cup Answered(msgs) \cup {0}
          /\ cursor <= cursor' /\ \A m \in Answered(msgs) : m <= cursor'
      BY SMT, <3>2, <3>4, NewestIs
    <3>6. cursor' \in Nat /\ cursor' \in {cursor} \cup Answered(msgs)
      BY SMT, <3>2, <3>5
    <3>7. TypeOK'
      BY <3>0, <3>1, <3>5 DEF Inv, TypeOK
    <3>8. Frontiers'
      <4>1. cursor' <= sent
        BY <3>3, <3>6 DEF Inv, Frontiers
      <4>2. QED BY <3>0, <4>1 DEF Inv, Frontiers
    <3>9. Queue' /\ Untouched' /\ Solo' /\ MutatesOnce'
      BY <3>0, <3>1, <2>HandedOver
    <3>10. /\ Live(msgs)' = Live(msgs) /\ Open(msgs)' = Open(msgs)
           /\ Answered(msgs)' = Answered(msgs)
      BY DEF Live, Open, Answered
    <3>11. CursorCoversMarks'
      BY <3>5, <3>10 DEF CursorCoversMarks
    <3>12. Answers'
      <4>1. \A k \in Answered(msgs)' : ~(k > cursor')
        BY SMT, <3>3, <3>5, <3>6, <3>10
      <4>2. QED BY <3>0, <4>1 DEF Inv, Answers, Real
    <3>13. NothingSkipped'
      <4> SUFFICES ASSUME NEW k \in Open(msgs), k <= cursor'
                   PROVE  \E n \in Answered(msgs) : n > k /\ msgs[n] = "resident"
        BY <3>10 DEF NothingSkipped
      <4>1. k \in Nat /\ k \notin Answered(msgs)
        BY SMT, <3>3 DEF Open, Live, Answered, Seqs
      <4>2. CASE k <= cursor
        BY <4>2 DEF Inv, NothingSkipped
      <4>3. CASE ~(k <= cursor)
        <5>1. cursor' \in Answered(msgs) /\ cursor' > cursor
          BY SMT, <3>2, <3>6, <4>1, <4>3
        <5>2. msgs[cursor'] = "resident"
          BY <5>1 DEF Inv, Answers
        <5>3. cursor' > k
          BY SMT, <3>6, <4>1, <5>1
        <5>4. QED BY <5>1, <5>2, <5>3
      <4>4. QED BY <4>2, <4>3
    <3>14. Turns'
      <4>1. CASE rtState # "v2"
        BY <3>0, <3>1, <4>1, <1>TurnsFenced DEF Current
      <4>2. CASE rtState = "v2"
        <5>1. \A m \in Answered(msgs) : m <= cursor
          BY <4>2 DEF Inv, CursorCoversMarks
        <5>2. cursor' = cursor
          BY SMT, <3>2, <3>5, <3>6, <5>1
        <5>3. UNCHANGED <<runtime, msgs, cursor>>
          BY <3>1, <4>2, <5>2 DEF runtime
        <5>4. JobStep /\ Winding
          BY <3>0, JobsKept, TurnsSame DEF Inv
        <5>5. QED BY <3>0, <5>3, <5>4, TurnsKept DEF Inv
      <4>3. QED BY <4>1, <4>2
    <3>15. QED BY <3>7, <3>8, <3>9, <3>11, <3>12, <3>13, <3>14 DEF Inv
  (* To the resident runtime: what the cursor has passed gets a bridge mark. *)
  <2>ToResidentStep.
    ASSUME Inv, Cutover("resident"), UNCHANGED cursor,
           msgs' = [m \in Seqs |-> IF m \in Open(msgs) /\ m <= cursor THEN "bridge" ELSE msgs[m]]
    PROVE  Inv'
    <3> USE <2>ToResidentStep
    <3>0. UNCHANGED <<sent, bubbles, jobs, turns, effects, wrote, outbox, sinks, sweep>>
      BY DEF Cutover, turn
    <3>1. rtState' = "resident" /\ rtGen' \in 1 .. MaxGen /\ rtGen <= rtGen' /\ rtGen' \in Nat
      BY <2>Generations
    <3>2. msgs \in [Seqs -> MarkType]
      BY DEF Inv, TypeOK
    <3>3. /\ msgs' \in [Seqs -> MarkType]
          /\ \A m \in Seqs : \/ msgs[m] = "open" /\ m <= cursor /\ msgs'[m] = "bridge"
                             \/ ~(msgs[m] = "open" /\ m <= cursor) /\ msgs'[m] = msgs[m]
      BY <3>2 DEF MarkType, Open, Live
    <3>4. TypeOK'
      BY <3>0, <3>1, <3>3 DEF Inv, TypeOK
    <3>5. Frontiers'
      <4>1. \A m \in Seqs : msgs'[m] # "absent" => msgs[m] # "absent"
        BY <3>3
      <4>2. QED BY <3>0, <4>1 DEF Inv, Frontiers
    <3>6. Queue' /\ Untouched' /\ Solo' /\ MutatesOnce'
      BY <3>0, <3>1, <2>HandedOver
    <3>7. Turns'
      BY <3>0, <3>1, <1>TurnsFenced DEF Current
    <3>8. CursorCoversMarks'
      BY <3>1 DEF CursorCoversMarks
    <3>9. \A m \in Open(msgs)' : ~(m <= cursor)
      BY <3>3 DEF Open, Live
    <3>10. NothingSkipped'
      BY <3>9 DEF NothingSkipped
    <3>11. Answers'
      <4>1. \A c \in bubbles : Real(c) => msgs'[c.parent] \in {"reply", "resident"}
        <5>1. \A c \in bubbles : c.parent \in Seqs
          BY DEF Inv, TypeOK, BubbleType
        <5>2. QED BY <3>3, <5>1 DEF Inv, Answers
      <4>2. \A k \in Answered(msgs)' : k > cursor => msgs'[k] = "resident"
        <5> SUFFICES ASSUME NEW k \in Answered(msgs)', k > cursor PROVE msgs'[k] = "resident"
          OBVIOUS
        <5>1. k \in Seqs /\ k \in Nat /\ cursor \in Nat /\ msgs'[k] \notin {"absent", "cleared", "open"}
          BY SMT, <3>3, Numbers DEF Answered, Live, Open, Inv, Seqs
        <5>2. msgs'[k] = msgs[k]
          BY SMT, <3>3, <5>1
        <5>3. k \in Answered(msgs)
          BY <3>2, <5>1, <5>2 DEF Answered, Live, Open
        <5>4. QED BY <5>2, <5>3 DEF Inv, Answers
      <4>3. QED BY <3>0, <4>1, <4>2 DEF Inv, Answers, Real
    <3>12. QED BY <3>4, <3>5, <3>6, <3>7, <3>8, <3>10, <3>11 DEF Inv
  <2> SUFFICES ASSUME NEW target \in {"resident", "v2"}, Inv, Ordered(sent), Cutover(target)
               PROVE  Inv'
    OBVIOUS
  <2> QED BY <2>ToV2Step, <2>ToResidentStep DEF Cutover
<1>ChatClearStep. Inv /\ ChatClear => Inv'
  <2> SUFFICES ASSUME Inv, ChatClear PROVE Inv'
    OBVIOUS
  <2>0. /\ rtGen < MaxGen /\ rtGen' = rtGen + 1 /\ cursor' = 0 /\ bubbles' = {}
        /\ effects' = {} /\ wrote' = {} /\ outbox' = [j \in Ids |-> NoFailure]
        /\ msgs' = [m \in Seqs |-> IF m \in Live(msgs) THEN "cleared" ELSE msgs[m]]
        /\ jobs' = [j \in Ids |-> IF j \in ActiveJobs THEN Ended(jobs[j], "superseded") ELSE jobs[j]]
        /\ UNCHANGED <<rtState, sent, turns, sinks, sweep>>
    BY DEF ChatClear
  <2>1. /\ rtGen \in Nat /\ sent \in Nat /\ MaxMsgs \in Nat /\ MaxGen \in Nat
        /\ msgs \in [Seqs -> MarkType] /\ TypeOK
    BY Numbers DEF Inv, TypeOK
  <2>2. /\ msgs' \in [Seqs -> MarkType]
        /\ \A m \in Seqs : msgs'[m] \in {"absent", "cleared"}
        /\ \A m \in Seqs : msgs'[m] # "absent" => msgs[m] # "absent"
    BY <2>0, <2>1 DEF MarkType, Live
  <2>3. Live(msgs)' = {}
    BY <2>2 DEF Live
  <2>4. Open(msgs)' = {} /\ Answered(msgs)' = {}
    BY <2>3 DEF Open, Answered
  <2>5. /\ jobs' \in [Ids -> JobType]
        /\ \A j \in Ids : jobs'[j].gen = jobs[j].gen /\ jobs'[j].status \notin Active
        /\ \A j \in Ids : jobs'[j].status = "absent" <=> jobs[j].status = "absent"
    <3>1. \A j \in Ids : /\ Ended(jobs[j], "superseded") \in JobType
                         /\ Ended(jobs[j], "superseded").status = "superseded"
                         /\ Ended(jobs[j], "superseded").gen = jobs[j].gen
      BY <2>1, EndedIs DEF TypeOK, Terminal
    <3>2. \A j \in Ids : jobs[j] \in JobType /\ (j \in ActiveJobs <=> jobs[j].status \in Active)
      BY <2>1 DEF TypeOK, ActiveJobs
    <3>3. QED BY <2>0, <3>1, <3>2 DEF Active
  <2>6. \A j \in Ids : ~Running(j)' /\ ~Current(j)'
    BY <2>5 DEF Running, Current, Active
  <2>7. NoFailure \in FailureType /\ NoFailure.frontier = 0
    BY SMT, <2>1 DEF NoFailure, FailureType
  <2>8. outbox' \in [Ids -> FailureType] /\ \A j \in Ids : outbox'[j].frontier <= sent
    BY SMT, <2>0, <2>1, <2>7
  <2>9. rtGen' \in 1 .. MaxGen /\ rtGen <= rtGen' /\ rtGen' \in Nat
    BY SMT, <2>0, <2>1
  <2>10. TypeOK'
    BY SMT, <2>0, <2>1, <2>2, <2>5, <2>8, <2>9 DEF TypeOK
  <2>11. Frontiers'
    BY SMT, <2>0, <2>1, <2>2, <2>8 DEF Inv, Frontiers
  <2>12. Queue'
    <3>1. Dense'
      BY <2>5 DEF Inv, Queue, Dense
    <3>2. \A j \in Ids : jobs'[j].gen <= rtGen'
      <4>1. \A j \in Ids : jobs[j].gen \in Nat /\ jobs[j].gen <= rtGen
        BY <2>1 DEF Inv, TypeOK, JobType, Queue
      <4>2. QED BY SMT, <2>1, <2>5, <2>9, <4>1
    <3>3. sweep'.gen <= rtGen'
      <4>1. sweep.gen \in Nat /\ sweep.gen <= rtGen
        BY <2>1 DEF Inv, TypeOK, SweepType, Queue
      <4>2. QED BY SMT, <2>0, <2>1, <2>9, <4>1
    <3>4. QED BY <2>6, <3>1, <3>2, <3>3 DEF Queue
  <2>13. Untouched'
    <3> SUFFICES ASSUME NEW j \in Ids, Unclaimed(j)' PROVE turns'[j].pc = "none"
      BY <2>0 DEF Untouched
    <3>1. jobs[j].status = "absent"
      BY <2>5 DEF Unclaimed, Active
    <3>2. QED BY <2>0, <3>1 DEF Inv, Untouched, Unclaimed
  <2>14. Answers' /\ CursorCoversMarks' /\ NothingSkipped'
    BY <2>0, <2>4 DEF Answers, CursorCoversMarks, NothingSkipped
  <2>15. Turns'
    BY <2>0, <2>6, <1>TurnsFenced
  <2>16. Solo' /\ MutatesOnce'
    BY <2>0, <2>6 DEF Solo, MutatesOnce
  <2>17. QED BY <2>10, <2>11, <2>12, <2>13, <2>14, <2>15, <2>16 DEF Inv
<1> QED BY <1>ChatClearStep, <1>ResidentReplyStep, <1>CutoverStep

(* One existing job ends.                                                  *)
LEMMA JobEnds ==
  ASSUME TypeOK, Queue, NEW j \in Ids, NEW s \in Terminal, jobs[j].status # "absent",
         jobs' = [jobs EXCEPT ![j] = Ended(@, s)]
  PROVE  JobStep
<1> DEFINE e == Ended(jobs[j], s)
<1>1. jobs[j] \in JobType /\ jobs \in [Ids -> JobType]
  BY DEF TypeOK
<1>2. e \in JobType /\ e.status = s /\ e.gen = jobs[j].gen
  BY <1>1, EndedIs
<1>3. jobs' = [jobs EXCEPT ![j] = e]
  OBVIOUS
<1> HIDE DEF e
<1>4. jobs' \in [Ids -> JobType] /\ jobs'[j] = e /\ \A k \in Ids : k # j => jobs'[k] = jobs[k]
  BY <1>1, <1>2, <1>3
<1>5. Dense'
  BY <1>2, <1>4 DEF Queue, Dense, Terminal
<1>6. QED BY <1>2, <1>4, <1>5 DEF Queue, JobStep, Running, Unclaimed, Terminal

(* Queued failures have the newest live message as their frontier.         *)
FailuresSent(n) ==
  /\ outbox' \in [Ids -> FailureType]
  /\ \A j \in Ids : outbox'[j].frontier <= n

\* Untouched obligations have frontiers that were sent.
LEMMA FailuresKept ==
  ASSUME TypeOK, Frontiers, NEW n \in 0 .. MaxMsgs, sent <= n, UNCHANGED outbox
  PROVE  FailuresSent(n)
<1> SUFFICES ASSUME NEW j \in Ids PROVE outbox[j].frontier <= n
  BY DEF FailuresSent, TypeOK
<1>1. outbox[j] \in FailureType
  BY DEF TypeOK
<1>2. outbox[j].frontier <= sent /\ outbox[j].frontier \in Nat /\ sent \in Nat
  BY SMT, <1>1, BoundsAssumption DEF Frontiers, FailureType, TypeOK
<1>3. QED BY SMT, <1>2

(* What depends on the marks, the cursor and the bubbles alone.            *)
LEMMA AnswersKept ==
  ASSUME Answers, CursorCoversMarks, NothingSkipped,
         UNCHANGED <<rtState, msgs, cursor, bubbles>>
  PROVE  Answers' /\ CursorCoversMarks' /\ NothingSkipped'
<1>1. Answers'
  BY DEF Answers, Real, Answered, Live, Open
<1>2. CursorCoversMarks'
  BY DEF CursorCoversMarks, Answered, Live, Open
<1>3. NothingSkipped'
  BY DEF NothingSkipped, Answered, Live, Open
<1>4. QED BY <1>1, <1>2, <1>3

\* A step that ends or queues rows, winds turns down and queues failures
\* keeps the invariant.
LEMMA RowStep ==
  
    Inv /\ JobStep /\ FailuresSent(sent) /\ Winding /\
    UNCHANGED <<runtime, chat, wrote>> /\ effects' \subseteq effects /\
    turns' \in [Ids -> TurnType] /\ sinks' \in [Reconcilers -> DeliveryType] /\
    (\A r \in Reconcilers : sinks'[r].frontier <= sent) /\ sweep' \in SweepType /\
    sweep'.gen <= rtGen => Inv'
<1>FrontiersKept.
  ASSUME Frontiers, FailuresSent(sent), Winding, effects' \subseteq effects,
         \A r \in Reconcilers : sinks'[r].frontier <= sent,
         UNCHANGED <<sent, msgs, cursor>>
  PROVE  Frontiers'
  <2> USE <1>FrontiersKept
  <2>1. \A j \in Ids : turns'[j].target <= sent
    BY DEF Winding, Frontiers
  <2>2. QED BY <2>1 DEF Frontiers, FailuresSent
<1> SUFFICES ASSUME Inv, JobStep, FailuresSent(sent), Winding,
             UNCHANGED <<runtime, chat, wrote>>, effects' \subseteq effects,
             turns' \in [Ids -> TurnType],
             sinks' \in [Reconcilers -> DeliveryType],
             \A r \in Reconcilers : sinks'[r].frontier <= sent,
             sweep' \in SweepType, sweep'.gen <= rtGen
             PROVE  Inv'
  OBVIOUS
<1>0. UNCHANGED <<rtState, rtGen, sent, msgs, cursor, bubbles, wrote>>
  BY DEF runtime, chat
<1>1. TypeOK'
  BY <1>0 DEF Inv, TypeOK, JobStep, FailuresSent
<1>2. Frontiers'
  BY <1>0, <1>FrontiersKept DEF Inv
<1>3. Queue'
  BY <1>0, QueueKept DEF Inv
<1>4. Untouched'
  BY UntouchedKept DEF Inv
<1>5. Answers' /\ CursorCoversMarks' /\ NothingSkipped'
  BY <1>0, AnswersKept DEF Inv
<1>6. Turns'
  BY <1>0, TurnsKept DEF Inv
<1>7. Solo' /\ MutatesOnce'
  BY <1>0, SoloKept DEF Inv, MutatesOnce
<1>8. QED BY <1>1, <1>2, <1>3, <1>4, <1>5, <1>6, <1>7 DEF Inv

\* Untouched deliveries have frontiers that were sent.
LEMMA SinksSame ==
  ASSUME TypeOK, Frontiers, UNCHANGED sinks
  PROVE  /\ sinks' \in [Reconcilers -> DeliveryType]
         /\ \A r \in Reconcilers : sinks'[r].frontier <= sent
BY DEF TypeOK, Frontiers

\* The blank turn, delivery and sweep are well formed.
LEMMA Quiescent ==
  /\ Over \in TurnType /\ Over.pc = "over" /\ Over.target = 0
  /\ NoDelivery \in DeliveryType /\ NoDelivery.frontier = 0
  /\ NoSweep \in SweepType /\ NoSweep.gen = 0
  /\ \A p \in {"dead", "ending"} :
       /\ [NoTurn EXCEPT !.pc = p] \in TurnType
       /\ [NoTurn EXCEPT !.pc = p].pc = p
       /\ [NoTurn EXCEPT !.pc = p].target = 0
<1>1. 0 \in 0 .. MaxMsgs /\ 0 \in 0 .. MaxJobs
  BY SMT, BoundsAssumption
<1>2. QED BY <1>1 DEF Over, NoTurn, TurnType, NoDelivery, DeliveryType, NoSweep,
                      SweepType, Reasons

(* A step that touches no turn and not the sweeper.                        *)
LEMMA SideStep ==
  ASSUME Inv, JobStep, FailuresSent(sent),
         sinks' \in [Reconcilers -> DeliveryType],
         \A r \in Reconcilers : sinks'[r].frontier <= sent,
         UNCHANGED <<runtime, chat, turn, sweep>>
  PROVE  Inv'
<1>0. UNCHANGED <<turns, effects, wrote>>
  BY DEF turn
<1>1. Winding /\ turns' \in [Ids -> TurnType]
  BY <1>0, TurnsSame DEF Inv
<1>2. sweep' \in SweepType /\ sweep'.gen <= rtGen
  BY SweepSame DEF Inv
<1>3. QED BY <1>0, <1>1, <1>2, RowStep

(* What chat_append_effect_with_cursor does to each message: those it      *)
(* consumes were open and get its mark; any other keeps its mark, save     *)
(* that a real reply replaces the failure mark of the message it answers.  *)
Consumes(f, mark) ==
  \A k \in Seqs :
    IF k \in Consumed(f)
    THEN msgs[k] = "open" /\ msgs'[k] = mark
    ELSE msgs'[k] = msgs[k] \/ (k = f /\ msgs[k] = "failure" /\ msgs'[k] = mark)

Passes(f) ==
  /\ cursor' \in 0 .. MaxMsgs /\ cursor' \in {cursor, f}
  /\ cursor <= cursor' /\ f <= cursor'

(* Replies and failure notices.                                            *)
LEMMA PublishingSteps ==
  /\ \A r \in Reconcilers : Inv /\ (DeliverWrite(r) \/ DeliverAck(r) \/ DeliveryLost(r)) => Inv'
  /\ \A r \in Reconcilers, j \in Ids : Inv /\ DeliverRead(r, j) => Inv'
  /\ \A j \in Ids, m \in Seqs : Inv /\ ApplyReply(j, m) => Inv'
<1>SinkMoves.
  ASSUME TypeOK, Frontiers, NEW r \in Reconcilers, NEW d \in DeliveryType, d.frontier <= sent,
         sinks' = [sinks EXCEPT ![r] = d]
  PROVE  /\ sinks' \in [Reconcilers -> DeliveryType]
         /\ \A q \in Reconcilers : sinks'[q].frontier <= sent
  <2> USE <1>SinkMoves
  <2>1. sinks \in [Reconcilers -> DeliveryType]
    BY DEF TypeOK
  <2>2. QED BY <2>1 DEF Frontiers
(* One failure changes its state and keeps its frontier.                   *)
<1>FailureMoves.
  ASSUME TypeOK, Frontiers, NEW j \in Ids, NEW s \in {"due", "done"},
         outbox' = [outbox EXCEPT ![j].state = s]
  PROVE  FailuresSent(sent)
  <2> USE <1>FailureMoves
  <2> DEFINE o == [outbox[j] EXCEPT !.state = s]
  <2>1. outbox[j] \in FailureType /\ outbox \in [Ids -> FailureType]
    BY DEF TypeOK
  <2>2. o \in FailureType /\ o.frontier = outbox[j].frontier
    BY <2>1 DEF FailureType
  <2>3. outbox' = [outbox EXCEPT ![j] = o]
    BY <2>1
  <2> HIDE DEF o
  <2>4. outbox' \in [Ids -> FailureType] /\ \A k \in Ids : outbox'[k].frontier = outbox[k].frontier
    BY <2>1, <2>2, <2>3
  <2>5. QED BY <2>4 DEF FailuresSent, Frontiers
<1>DeliverReadStep.
  ASSUME NEW r \in Reconcilers, NEW j \in Ids, Inv, DeliverRead(r, j)
  PROVE  Inv'
  <2> USE <1>DeliverReadStep
  <2>1. UNCHANGED <<runtime, chat, jobs, turn, sweep>>
    BY DEF DeliverRead
  <2>2. JobStep
    BY <2>1, JobsKept DEF Inv
  <2>3. CASE outbox' = [outbox EXCEPT ![j].state = "done"] /\ UNCHANGED sinks
    <3>1. FailuresSent(sent)
      BY <2>3, <1>FailureMoves DEF Inv
    <3>2. QED BY <2>1, <2>2, <2>3, <3>1, SideStep, SinksSame DEF Inv
  <2>4. CASE /\ sinks' = [sinks EXCEPT ![r] = [job |-> j, frontier |-> outbox[j].frontier,
                                               pc |-> "built"]]
             /\ UNCHANGED outbox
    <3> DEFINE d == [job |-> j, frontier |-> outbox[j].frontier, pc |-> "built"]
    <3>1. outbox[j] \in FailureType /\ outbox[j].frontier <= sent
      BY DEF Inv, TypeOK, Frontiers
    <3>2. j \in 0 .. MaxJobs
      BY SMT, Numbers DEF Ids, Inv
    <3>3. d \in DeliveryType /\ d.frontier <= sent
      BY <3>1, <3>2 DEF FailureType, DeliveryType
    <3>4. sinks' = [sinks EXCEPT ![r] = d]
      BY <2>4
    <3> HIDE DEF d
    <3>5. /\ sinks' \in [Reconcilers -> DeliveryType]
          /\ \A q \in Reconcilers : sinks'[q].frontier <= sent
      BY <3>3, <3>4, <1>SinkMoves DEF Inv
    <3>6. FailuresSent(sent)
      BY <2>4, FailuresKept, Numbers DEF Inv
    <3>7. QED BY <2>1, <2>2, <3>5, <3>6, SideStep
  <2>5. QED BY <2>3, <2>4 DEF DeliverRead
(* A reconciler lets go of its delivery.                                   *)
<1>DeliveryDropped.
  ASSUME Inv, NEW r \in Reconcilers, sinks' = [sinks EXCEPT ![r] = NoDelivery]
  PROVE  /\ sinks' \in [Reconcilers -> DeliveryType]
         /\ \A q \in Reconcilers : sinks'[q].frontier <= sent
  BY <1>DeliveryDropped, <1>SinkMoves, Quiescent, Numbers DEF Inv
<1>DeliveryLostStep.
  ASSUME NEW r \in Reconcilers, Inv, DeliveryLost(r)
  PROVE  Inv'
  <2> USE <1>DeliveryLostStep
  <2>1. /\ UNCHANGED <<runtime, chat, jobs, turn, outbox, sweep>>
        /\ sinks' = [sinks EXCEPT ![r] = NoDelivery]
    BY DEF DeliveryLost
  <2>2. JobStep /\ FailuresSent(sent)
    BY <2>1, JobsKept, FailuresKept, Numbers DEF Inv
  <2>3. QED BY <2>1, <2>2, <1>DeliveryDropped, SideStep
<1>DeliverAckStep.
  ASSUME NEW r \in Reconcilers, Inv, DeliverAck(r)
  PROVE  Inv'
  <2> USE <1>DeliverAckStep
  <2> DEFINE j == sinks[r].job
  <2>1. /\ UNCHANGED <<runtime, chat, jobs, turn, sweep>>
        /\ sinks' = [sinks EXCEPT ![r] = NoDelivery]
        /\ outbox' = [outbox EXCEPT ![j].state = IF @ = "due" THEN "done" ELSE @]
    BY DEF DeliverAck
  <2>2. JobStep
    BY <2>1, JobsKept DEF Inv
  <2>3. FailuresSent(sent)
    <3>1. CASE j \in Ids /\ outbox[j].state = "due"
      <4>1. outbox' = [outbox EXCEPT ![j].state = "done"]
        BY <2>1, <3>1
      <4>2. QED BY <3>1, <4>1, <1>FailureMoves DEF Inv
    <3>2. CASE ~(j \in Ids /\ outbox[j].state = "due")
      <4>1. outbox \in [Ids -> FailureType]
        BY DEF Inv, TypeOK
      <4> HIDE DEF j
      <4>2. UNCHANGED outbox
        BY <2>1, <3>2, <4>1 DEF FailureType
      <4>3. QED BY <4>2, FailuresKept, Numbers DEF Inv
    <3>3. QED BY <3>1, <3>2
  <2>4. QED BY <2>1, <2>2, <2>3, <1>DeliveryDropped, SideStep
<1>ConsumedIs.
  ASSUME TypeOK, NEW f, NEW k
  PROVE  k \in Consumed(f) <=> k \in Live(msgs) /\ k \in Seqs /\ cursor < k /\ k <= f
  BY <1>ConsumedIs DEF Consumed, Live, TypeOK
<1>CursorMoves. \A f \in Seqs : TypeOK /\ cursor' = Newest({cursor, f}) => Passes(f)
  (* The later of two frontiers.                                             *)
  <2>LaterIs.
    ASSUME NEW a \in Nat, NEW b \in Nat
    PROVE  /\ Newest({a, b}) \in {a, b}
           /\ a <= Newest({a, b}) /\ b <= Newest({a, b})
    <3> USE <2>LaterIs
    <3> DEFINE T == {a, b} \cup {0}
    <3>1. \E x \in T : \A y \in T : x >= y
      <4>1. CASE a >= b
        BY SMT, <4>1
      <4>2. CASE b >= a
        BY SMT, <4>2
      <4>3. QED BY SMT, <4>1, <4>2
    <3>2. T \in SUBSET Nat /\ a \in T /\ b \in T
      BY SMT
    <3>3. Newest({a, b}) = Max(T)
      BY DEF Newest
    <3>4. T = {a, b, 0}
      OBVIOUS
    <3> HIDE DEF T
    <3>5. Max(T) \in T /\ \A y \in T : Max(T) >= y
      BY <3>1 DEF Max
    <3>6. Max(T) \in Nat /\ Max(T) >= a /\ Max(T) >= b
      BY <3>2, <3>5
    <3>7. QED BY SMT, <3>3, <3>4, <3>5, <3>6
  <2> SUFFICES ASSUME TypeOK, NEW f \in Seqs, cursor' = Newest({cursor, f})
               PROVE  Passes(f)
    OBVIOUS
  <2>1. cursor \in Nat /\ f \in Nat /\ {cursor, f} \subseteq 0 .. MaxMsgs
    BY SMT, Numbers DEF TypeOK, Seqs
  <2>2. QED BY <2>1, <2>LaterIs DEF Passes
(* The marks follow the cursor.                                            *)
<1>CursorAdvances.
  ASSUME Inv, NEW f \in Seqs, NEW mark \in {"reply", "failure"},
         Consumes(f, mark), Passes(f), msgs' \in [Seqs -> MarkType], UNCHANGED rtState
  PROVE  /\ Live(msgs)' = Live(msgs)
         /\ \A k \in Answered(msgs)' : k > cursor' => msgs'[k] = "resident"
         /\ CursorCoversMarks' /\ NothingSkipped'
  <2> USE <1>CursorAdvances
  <2>0. TypeOK /\ msgs \in [Seqs -> MarkType]
    BY DEF Inv, TypeOK
  <2>1. \A k \in Seqs : k \in Consumed(f) <=> k \in Live(msgs) /\ cursor < k /\ k <= f
    BY <2>0, <1>ConsumedIs
  <2>2. \A k \in Seqs : /\ k \in Live(msgs) <=> msgs[k] \notin {"absent", "cleared"}
                        /\ k \in Live(msgs)' <=> msgs'[k] \notin {"absent", "cleared"}
                        /\ k \in Open(msgs) <=> msgs[k] = "open"
                        /\ k \in Open(msgs)' <=> msgs'[k] = "open"
    BY <2>0 DEF Live, Open
  <2>3. /\ Live(msgs) \subseteq Seqs /\ Live(msgs)' \subseteq Seqs
        /\ Open(msgs) \subseteq Seqs /\ Open(msgs)' \subseteq Seqs
    BY <2>0 DEF Live, Open
  <2>4. Live(msgs)' = Live(msgs)
    BY <2>2, <2>3 DEF Consumes
  <2>5. /\ \A k : k \in Answered(msgs) <=> k \in Live(msgs) /\ k \notin Open(msgs)
        /\ \A k : k \in Answered(msgs)' <=> k \in Live(msgs)' /\ k \notin Open(msgs)'
    BY DEF Answered
  <2>6. /\ cursor \in Nat /\ cursor' \in Nat /\ f \in Nat /\ cursor <= cursor' /\ f <= cursor'
        /\ cursor' \in {cursor, f} /\ \A k \in Seqs : k \in Nat
    BY SMT, Numbers DEF Inv, Passes, Seqs
  <2>7. \A k \in Answered(msgs)' : k > cursor' => k \in Answered(msgs) /\ msgs'[k] = msgs[k]
    <3> SUFFICES ASSUME NEW k \in Answered(msgs)', k > cursor'
                 PROVE  k \in Answered(msgs) /\ msgs'[k] = msgs[k]
      OBVIOUS
    <3>1. k \in Seqs /\ k \in Live(msgs) /\ msgs'[k] # "open"
      BY <2>2, <2>3, <2>4, <2>5
    <3>2. k # f /\ ~(k <= f)
      BY SMT, <2>6, <3>1
    <3>3. msgs'[k] = msgs[k]
      BY <2>1, <3>1, <3>2 DEF Consumes
    <3>4. QED BY <2>2, <2>5, <3>1, <3>3
  <2>8. \A k \in Answered(msgs)' : k > cursor' => msgs'[k] = "resident"
    <3> SUFFICES ASSUME NEW k \in Answered(msgs)', k > cursor' PROVE msgs'[k] = "resident"
      OBVIOUS
    <3>1. k \in Answered(msgs) /\ msgs'[k] = msgs[k] /\ k \in Nat
      BY <2>3, <2>5, <2>6, <2>7
    <3>2. k > cursor
      BY SMT, <2>6, <3>1
    <3>3. QED BY <3>1, <3>2 DEF Inv, Answers
  <2>9. CursorCoversMarks'
    <3> SUFFICES ASSUME rtState = "v2", NEW k \in Answered(msgs)' PROVE k <= cursor'
      BY DEF CursorCoversMarks
    <3>1. k \in Nat
      BY <2>3, <2>5, <2>6
    <3>2. CASE k > cursor'
      <4>1. k \in Answered(msgs)
        BY <2>7, <3>2
      <4>2. k <= cursor
        BY <4>1 DEF Inv, CursorCoversMarks
      <4>3. QED BY SMT, <2>6, <3>1, <4>2
    <3>3. CASE ~(k > cursor')
      BY SMT, <2>6, <3>1, <3>3
    <3>4. QED BY <3>2, <3>3
  <2>10. NothingSkipped'
    <3> SUFFICES ASSUME NEW k \in Open(msgs)', k <= cursor'
                 PROVE  \E n \in Answered(msgs)' : n > k /\ msgs'[n] = "resident"
      BY DEF NothingSkipped
    <3>1. k \in Seqs /\ k \in Nat /\ msgs'[k] = "open"
      BY <2>2, <2>3, <2>6
    <3>2. k \notin Consumed(f) /\ msgs[k] = "open"
      BY <3>1 DEF Consumes
    <3>3. k \in Open(msgs) /\ k \in Live(msgs)
      BY <2>2, <3>1, <3>2
    <3>4. ~(cursor < k /\ k <= f)
      BY <2>1, <3>1, <3>2, <3>3
    <3>5. k <= cursor
      BY SMT, <2>6, <3>1, <3>4
    <3>6. PICK n \in Answered(msgs) : n > k /\ msgs[n] = "resident"
      BY <3>3, <3>5 DEF Inv, NothingSkipped
    <3>7. n \in Seqs /\ n \in Live(msgs)
      BY <2>3, <2>5, <3>6
    <3>8. msgs'[n] = "resident"
      BY <3>6, <3>7 DEF Consumes
    <3>9. n \in Answered(msgs)'
      BY <2>2, <2>4, <2>5, <3>7, <3>8
    <3>10. QED BY <3>6, <3>8, <3>9
  <2>11. QED BY <2>4, <2>8, <2>9, <2>10
(* Real bubbles keep their messages' marks.                                *)
<1>BubblesKeep.
  ASSUME Inv, NEW f \in Seqs, NEW mark \in {"reply", "failure"}, Consumes(f, mark)
  PROVE  \A b \in bubbles : Real(b) => msgs'[b.parent] \in {"reply", "resident"}
  <2> USE <1>BubblesKeep
  <2> SUFFICES ASSUME NEW b \in bubbles, Real(b)
               PROVE  msgs'[b.parent] \in {"reply", "resident"}
    OBVIOUS
  <2>1. b.parent \in Seqs
    BY DEF Inv, TypeOK, BubbleType
  <2>2. msgs[b.parent] \in {"reply", "resident"}
    BY DEF Inv, Answers
  <2>3. QED BY <2>1, <2>2 DEF Consumes
<1>MarksAre.
  ASSUME TypeOK, NEW f \in Seqs, NEW mark \in {"reply", "failure"},
         Consumed(f) \subseteq Open(msgs)
  PROVE  /\ msgs' = Marks(f, mark) => Consumes(f, mark) /\ msgs' \in [Seqs -> MarkType]
         /\ msgs' = ReplyMarks(f) => Consumes(f, "reply") /\ msgs' \in [Seqs -> MarkType]
  <2> USE <1>MarksAre
  <2>1. msgs \in [Seqs -> MarkType]
    BY DEF TypeOK
  <2>2. \A k \in Seqs : k \in Consumed(f) => msgs[k] = "open"
    BY <2>1 DEF Open
  <2>3. \A m \in {"reply", "failure"} :
          /\ Marks(f, m) \in [Seqs -> MarkType]
          /\ \A k \in Seqs : Marks(f, m)[k] = IF k \in Consumed(f) THEN m ELSE msgs[k]
    BY <2>1 DEF Marks, MarkType
  <2>4. msgs' = Marks(f, mark) => Consumes(f, mark) /\ msgs' \in [Seqs -> MarkType]
    BY <2>2, <2>3 DEF Consumes
  <2>5. ASSUME msgs' = ReplyMarks(f)
        PROVE  Consumes(f, "reply") /\ msgs' \in [Seqs -> MarkType]
    <3> DEFINE N == Marks(f, "reply")
    <3>1. N \in [Seqs -> MarkType]
          /\ \A k \in Seqs : N[k] = IF k \in Consumed(f) THEN "reply" ELSE msgs[k]
      BY <2>3
    <3>2. msgs' = [N EXCEPT ![f] = IF msgs[f] = "failure" THEN "reply" ELSE N[f]]
      BY <2>5 DEF ReplyMarks
    <3> HIDE DEF N
    <3>3. msgs' \in [Seqs -> MarkType]
          /\ \A k \in Seqs : msgs'[k] = IF k = f /\ msgs[f] = "failure" THEN "reply" ELSE N[k]
      BY <3>1, <3>2 DEF MarkType
    <3>4. QED BY <2>2, <3>1, <3>3 DEF Consumes
  <2>6. QED BY <2>4, <2>5
<1>DeliverWriteStep. \A r \in Reconcilers : Inv /\ DeliverWrite(r) => Inv'
  (* A reconciler notes that its notice is written.                          *)
  <2>DeliveryWritten.
    ASSUME Inv, NEW r \in Reconcilers, sinks' = [sinks EXCEPT ![r].pc = "written"]
    PROVE  /\ sinks' \in [Reconcilers -> DeliveryType]
           /\ \A q \in Reconcilers : sinks'[q].frontier <= sent
    <3> USE <2>DeliveryWritten
    <3> DEFINE d == [sinks[r] EXCEPT !.pc = "written"]
    <3>1. sinks[r] \in DeliveryType /\ sinks \in [Reconcilers -> DeliveryType]
          /\ sinks[r].frontier <= sent
      BY DEF Inv, TypeOK, Frontiers
    <3>2. d \in DeliveryType /\ d.frontier <= sent
      BY <3>1 DEF DeliveryType
    <3>3. sinks' = [sinks EXCEPT ![r] = d]
      BY <3>1
    <3> HIDE DEF d
    <3>4. QED BY <3>2, <3>3, <1>SinkMoves DEF Inv
  (* The failure notice: it closes open messages only, and what the current  *)
  (* turn may answer stays answerable.                                       *)
  <2>NoticeStep.
    ASSUME NEW r \in Reconcilers, NEW f \in Seqs, NEW b \in BubbleType, Inv,
           b.kind = "failure", f <= sent, AppendWithCursor(b, f, Marks(f, "failure")),
           sinks' = [sinks EXCEPT ![r].pc = "written"],
           UNCHANGED <<runtime, jobs, turn, outbox, sweep>>
    PROVE  Inv'
    <3> USE <2>NoticeStep
    <3>0. /\ UNCHANGED <<rtState, rtGen, turns, effects, wrote, sent>>
          /\ bubbles' = bubbles \cup {b}
      BY DEF runtime, turn, AppendWithCursor
    <3>1. TypeOK
      BY DEF Inv
    <3>2. Consumes(f, "failure") /\ msgs' \in [Seqs -> MarkType]
      BY <3>1, <1>MarksAre DEF AppendWithCursor
    <3>3. Passes(f)
      BY <3>1, <1>CursorMoves DEF AppendWithCursor
    <3>4. /\ sinks' \in [Reconcilers -> DeliveryType]
          /\ \A q \in Reconcilers : sinks'[q].frontier <= sent
      BY <2>DeliveryWritten
    <3>5. TypeOK'
      BY <3>0, <3>2, <3>3, <3>4 DEF Inv, TypeOK, Passes
    <3>6. /\ Live(msgs)' = Live(msgs)
          /\ \A k \in Answered(msgs)' : k > cursor' => msgs'[k] = "resident"
          /\ CursorCoversMarks' /\ NothingSkipped'
      BY <3>0, <3>2, <3>3, <1>CursorAdvances
    <3>7. Answers'
      <4>1. \A c \in bubbles' : Real(c) => c \in bubbles
        BY <3>0 DEF Real
      <4>2. \A c \in bubbles : Real(c) => msgs'[c.parent] \in {"reply", "resident"}
        BY <3>2, <1>BubblesKeep
      <4>3. QED BY <3>6, <4>1, <4>2 DEF Inv, Answers, Real
    <3>8. Frontiers'
      <4>1. \A m \in Seqs : msgs'[m] # "absent" => msgs[m] # "absent"
        BY <3>2 DEF Consumes
      <4>2. cursor' <= sent
        BY <3>3 DEF Passes, Inv, Frontiers
      <4>3. QED BY <3>0, <3>4, <4>1, <4>2 DEF Inv, Frontiers
    <3>9. Queue' /\ Untouched' /\ Solo' /\ MutatesOnce'
      <4>1. JobStep /\ Winding
        BY <3>0, <3>1, JobsKept, TurnsSame DEF Inv
      <4>2. sweep'.gen <= rtGen
        BY SweepSame DEF Inv
      <4>3. QED BY <3>0, <4>1, <4>2, QueueKept, UntouchedKept, SoloKept
                   DEF Inv, MutatesOnce
    <3>10. \A m : Answerable(m) => Answerable(m)'
      <4> SUFFICES ASSUME NEW m, Answerable(m) PROVE Answerable(m)'
        OBVIOUS
      <4>1. m \in Live(msgs) /\ m \in Seqs /\ m \in Nat /\ m \in Live(msgs)'
        BY SMT, <3>1, <3>6 DEF Answerable, Live, TypeOK, Seqs
      <4>2. CASE m \in Consumed(f)
        BY <3>2, <4>1, <4>2 DEF Consumes, Answerable
      <4>3. CASE m \notin Consumed(f) /\ msgs[m] = "failure"
        BY <3>2, <4>1, <4>3 DEF Consumes, Answerable
      <4>4. CASE m \notin Consumed(f) /\ m > cursor
        <5>1. ~(cursor < m /\ m <= f)
          BY <3>1, <4>1, <4>4, <1>ConsumedIs
        <5>2. cursor \in Nat /\ f \in Nat
          BY SMT, <3>1, Numbers DEF Seqs
        <5>3. m > cursor'
          BY SMT, <3>3, <4>1, <4>4, <5>1, <5>2 DEF Passes
        <5>4. QED BY <4>1, <5>3 DEF Answerable
      <4>5. QED BY <4>2, <4>3, <4>4 DEF Answerable
    <3>11. Turns'
      <4>1. \A j \in Ids : /\ Current(j)' <=> Current(j)
                           /\ Loaded(j)' <=> Loaded(j)
                           /\ Pinned(j)' <=> Pinned(j)
        BY <3>0 DEF Current, Running, Loaded, Pinned
      <4>2. \A j \in Ids : Pinned(j)' => turns'[j].target > turns'[j].since
        BY <3>0, <4>1 DEF Inv, Turns
      <4>3. \A j \in Ids : Current(j)' /\ Pinned(j)' => turns'[j].target \in Live(msgs)'
        BY <3>0, <3>6, <4>1 DEF Inv, Turns
      <4>4. \A j \in Ids : Current(j)' /\ Loaded(j)' =>
              \A m \in Live(msgs)' : m > turns'[j].since => Answerable(m)'
        BY <3>0, <3>6, <3>10, <4>1 DEF Inv, Turns
      <4>5. \A j \in Ids, m \in Seqs : Current(j)' /\ <<j, m>> \in effects' => Answerable(m)'
        BY <3>0, <3>10, <4>1 DEF Inv, Turns
      <4>6. QED BY <4>2, <4>3, <4>4, <4>5 DEF Turns
    <3>12. QED BY <3>5, <3>6, <3>7, <3>8, <3>9, <3>11 DEF Inv
  <2> SUFFICES ASSUME NEW r \in Reconcilers, Inv, DeliverWrite(r)
               PROVE  Inv'
    OBVIOUS
  <2> DEFINE f == sinks[r].frontier
             b == [kind |-> "failure", parent |-> f, job |-> sinks[r].job]
  <2>1. UNCHANGED <<runtime, jobs, turn, outbox, sweep>>
    BY DEF DeliverWrite
  <2>2. JobStep /\ FailuresSent(sent)
    BY <2>1, JobsKept, FailuresKept, Numbers DEF Inv
  <2>3. CASE sinks' = [sinks EXCEPT ![r].pc = "written"] /\ UNCHANGED chat
    BY <2>1, <2>2, <2>3, <2>DeliveryWritten, SideStep
  <2>4. CASE /\ f > cursor /\ AppendWithCursor(b, f, Marks(f, "failure"))
             /\ sinks' = [sinks EXCEPT ![r].pc = "written"]
    <3>1. sinks[r] \in DeliveryType /\ f <= sent
      BY DEF Inv, TypeOK, Frontiers
    <3>2. f \in Seqs
      BY SMT, <2>4, <3>1, Numbers DEF DeliveryType, Inv, Seqs
    <3>3. b \in BubbleType /\ b.kind = "failure"
      BY <3>1, <3>2 DEF BubbleType, DeliveryType
    <3> HIDE DEF b
    <3>4. QED BY <2>1, <2>4, <3>1, <3>2, <3>3, <2>NoticeStep
  <2>5. CASE sinks' = [sinks EXCEPT ![r] = NoDelivery] /\ UNCHANGED chat
    BY <2>1, <2>2, <2>5, <1>DeliveryDropped, SideStep
  <2>6. QED BY <2>3, <2>4, <2>5 DEF DeliverWrite
<1>ApplyReplyStep. \A j \in Ids : \A m \in Seqs : Inv /\ ApplyReply(j, m) => Inv'
  (* The final reply: its message is answerable, so it has no real reply     *)
  (* yet, and with it the one running job ends.                              *)
  <2>PublishStep.
    ASSUME NEW j \in Ids, NEW f \in Seqs, Inv, <<j, f>> \in effects, OwnedNow(j),
           AppendWithCursor([kind |-> "reply", parent |-> f, job |-> j], f, ReplyMarks(f)),
           jobs' = [jobs EXCEPT ![j] = Ended(@, "completed")],
           turns' = [turns EXCEPT ![j].pc = IF @ = "offered" THEN "replied" ELSE @],
           effects' = effects \ {<<j, f>>},
           UNCHANGED <<runtime, wrote, outbox, sinks, sweep>>
    PROVE  Inv'
    <3> USE <2>PublishStep
    <3> DEFINE b == [kind |-> "reply", parent |-> f, job |-> j]
               t == [turns[j] EXCEPT !.pc = IF @ = "offered" THEN "replied" ELSE @]
    <3>0. /\ UNCHANGED <<rtState, rtGen, wrote, sent>> /\ bubbles' = bubbles \cup {b}
      BY DEF runtime, AppendWithCursor
    <3>1. TypeOK
      BY DEF Inv
    <3>2. Consumes(f, "reply") /\ msgs' \in [Seqs -> MarkType]
      BY <3>1, <1>MarksAre DEF AppendWithCursor
    <3>3. Passes(f)
      BY <3>1, <1>CursorMoves DEF AppendWithCursor
    <3>4. Current(j) /\ rtState = "v2" /\ jobs[j].status = "running"
      BY DEF OwnedNow, Owned, Current, Running
    <3>5. Answerable(f)
      BY <3>4 DEF Inv, Turns
    <3>6. f \in Live(msgs) /\ f \in Nat
      BY SMT, <3>5, Numbers, <3>1 DEF Answerable, Seqs
    <3>7. b \in BubbleType /\ Real(b) /\ b.parent = f
      BY SMT, Numbers, <3>1 DEF BubbleType, Real, Ids
    <3>8. turns[j] \in TurnType /\ turns \in [Ids -> TurnType]
      BY DEF Inv, TypeOK
    <3>9. /\ t \in TurnType /\ t.target = turns[j].target /\ t.since = turns[j].since
          /\ t.pc \in {turns[j].pc, "replied"}
      BY <3>8 DEF TurnType
    <3>10. turns' = [turns EXCEPT ![j] = t]
      BY <3>8
    <3> HIDE DEF b, t
    <3>11. /\ turns' \in [Ids -> TurnType] /\ turns'[j] = t
           /\ \A k \in Ids : k # j => turns'[k] = turns[k]
      BY <3>8, <3>9, <3>10
    <3>12. JobStep
      BY <3>1, <3>4, JobEnds DEF Terminal, Inv
    <3>13. \A k \in Ids : ~Running(k)'
      <4>1. ~Running(j)'
        <5>1. jobs[j] \in JobType /\ jobs \in [Ids -> JobType]
          BY DEF Inv, TypeOK
        <5>2. jobs'[j] = Ended(jobs[j], "completed")
          BY <5>1
        <5>3. jobs'[j].status = "completed"
          BY <5>1, <5>2, EndedIs DEF Terminal
        <5>4. QED BY <5>3 DEF Running
      <4>2. \A k \in Ids : Running(k)' => Running(k)
        BY <3>12 DEF JobStep
      <4>3. \A k \in Ids : Running(k) => k = j
        BY <3>4 DEF Inv, Queue, Running
      <4>4. QED BY <4>1, <4>2, <4>3
    <3>14. TypeOK'
      BY <3>0, <3>2, <3>3, <3>7, <3>11, <3>12 DEF Inv, TypeOK, Passes, JobStep
    <3>15. /\ Live(msgs)' = Live(msgs)
           /\ \A k \in Answered(msgs)' : k > cursor' => msgs'[k] = "resident"
           /\ CursorCoversMarks' /\ NothingSkipped'
      BY <3>0, <3>2, <3>3, <1>CursorAdvances
    <3>16. msgs'[f] = "reply"
      <4>1. CASE f > cursor
        <5>1. f \in Consumed(f)
          BY SMT, <3>1, <3>6, <4>1, <1>ConsumedIs, Numbers
        <5>2. QED BY <3>2, <5>1 DEF Consumes
      <4>2. CASE ~(f > cursor)
        <5>1. msgs[f] = "failure" /\ f \notin Consumed(f)
          BY <3>1, <3>5, <3>6, <4>2, <1>ConsumedIs, Numbers DEF Answerable
        <5>2. msgs' = ReplyMarks(f)
          BY DEF AppendWithCursor
        <5>3. msgs'[f] = "reply"
          BY <5>1, <5>2 DEF ReplyMarks, Marks
        <5>4. QED BY <5>3
      <4>3. QED BY <4>1, <4>2
    <3>17. \A c \in bubbles : Real(c) => c.parent # f
      <4> SUFFICES ASSUME NEW c \in bubbles, Real(c), c.parent = f PROVE FALSE
        OBVIOUS
      <4>1. msgs[f] \in {"reply", "resident"}
        BY DEF Inv, Answers
      <4>2. f \in Answered(msgs)
        BY <3>6, <4>1 DEF Answered, Open
      <4>3. f <= cursor
        BY <3>4, <4>2 DEF Inv, CursorCoversMarks
      <4>4. QED BY SMT, <3>1, <3>5, <3>6, <4>1, <4>3, Numbers DEF Answerable
    <3>18. Answers'
      <4>1. \A c \in bubbles : Real(c) => msgs'[c.parent] \in {"reply", "resident"}
        BY <3>2, <1>BubblesKeep
      <4>2. \A c \in bubbles' : Real(c)' => msgs'[c.parent] \in {"reply", "resident"}
        BY <3>0, <3>7, <3>16, <4>1 DEF Real
      <4>3. \A c, d \in bubbles' : Real(c)' /\ Real(d)' /\ c.parent = d.parent => c = d
        <5> SUFFICES ASSUME NEW c \in bubbles', NEW d \in bubbles', Real(c), Real(d),
                            c.parent = d.parent
                     PROVE  c = d
          BY DEF Real
        <5>1. CASE c \in bubbles /\ d \in bubbles
          BY <5>1 DEF Inv, Answers
        <5>2. CASE c = b /\ d \in bubbles
          BY <3>7, <3>17, <5>2
        <5>3. CASE c \in bubbles /\ d = b
          BY <3>7, <3>17, <5>3
        <5>4. CASE c = b /\ d = b
          BY <5>4
        <5>5. QED BY <3>0, <5>1, <5>2, <5>3, <5>4
      <4>4. QED BY <3>15, <4>2, <4>3 DEF Answers
    <3>19. Frontiers'
      <4>1. \A m \in Seqs : msgs'[m] # "absent" => msgs[m] # "absent"
        BY <3>2 DEF Consumes
      <4>2. f <= sent
        <5>1. \A e \in effects : e[2] <= sent
          BY DEF Inv, Frontiers
        <5>2. <<j, f>>[2] <= sent
          BY <5>1
        <5>3. QED BY <5>2
      <4>3. cursor' <= sent
        BY <3>3, <4>2 DEF Passes, Inv, Frontiers
      <4>4. \A k \in Ids : turns'[k].target <= sent
        BY <3>9, <3>11 DEF Inv, Frontiers
      <4>5. QED BY <3>0, <4>1, <4>3, <4>4 DEF Inv, Frontiers
    <3>20. Queue'
      BY <3>0, <3>12, QueueKept, SweepSame DEF Inv
    <3>21. Untouched'
      <4> SUFFICES ASSUME NEW k \in Ids, Unclaimed(k)'
                   PROVE  turns'[k].pc = "none" /\ \A m \in Seqs : <<k, m>> \notin effects'
        BY DEF Untouched
      <4>1. Unclaimed(k)
        BY <3>12 DEF JobStep
      <4>2. k # j
        BY <3>4, <4>1 DEF Unclaimed
      <4>3. QED BY <3>11, <4>1, <4>2 DEF Inv, Untouched
    <3>22. Turns'
      <4>1. \A k \in Ids : Pinned(k)' => turns'[k].target > turns'[k].since
        BY <3>9, <3>11 DEF Inv, Turns, Pinned
      <4>2. \A k \in Ids : ~Current(k)'
        BY <3>13 DEF Current
      <4>3. QED BY <4>1, <4>2 DEF Turns
    <3>23. Solo' /\ MutatesOnce'
      BY <3>0, <3>13 DEF Solo, Inv, MutatesOnce
    <3>24. QED BY <3>14, <3>15, <3>18, <3>19, <3>20, <3>21, <3>22, <3>23 DEF Inv
  <2> SUFFICES ASSUME NEW j \in Ids, NEW m \in Seqs, Inv, ApplyReply(j, m)
               PROVE  Inv'
    OBVIOUS
  <2>1. /\ <<j, m>> \in effects /\ effects' = effects \ {<<j, m>>}
        /\ UNCHANGED <<runtime, wrote, outbox, sinks, sweep>>
    BY DEF ApplyReply
  <2>2. CASE UNCHANGED <<chat, jobs, turns>>
    <3>1. JobStep /\ FailuresSent(sent)
      BY <2>1, <2>2, JobsKept, FailuresKept, Numbers DEF Inv
    <3>2. Winding /\ turns' \in [Ids -> TurnType]
      BY <2>2, TurnsSame DEF Inv
    <3>3. /\ sinks' \in [Reconcilers -> DeliveryType]
          /\ \A q \in Reconcilers : sinks'[q].frontier <= sent
      BY <2>1, SinksSame DEF Inv
    <3>4. sweep' \in SweepType /\ sweep'.gen <= rtGen
      BY <2>1, SweepSame DEF Inv
    <3>5. QED BY <2>1, <2>2, <3>1, <3>2, <3>3, <3>4, RowStep
  <2>3. CASE /\ PublishOpen(j)
             /\ AppendWithCursor([kind |-> "reply", parent |-> m, job |-> j], m, ReplyMarks(m))
             /\ jobs' = [jobs EXCEPT ![j] = Ended(@, "completed")]
             /\ turns' = [turns EXCEPT ![j].pc = IF @ = "offered" THEN "replied" ELSE @]
    BY <2>1, <2>3, <2>PublishStep DEF PublishOpen
  <2>4. QED BY <2>2, <2>3 DEF ApplyReply
<1> QED BY <1>DeliverWriteStep, <1>DeliverAckStep, <1>DeliveryLostStep, <1>DeliverReadStep, <1>ApplyReplyStep

\* claim_next_job keeps the invariant: it starts a turn only when none
\* runs.
LEMMA ClaimStep ==
  ASSUME NEW j \in Ids, Inv, Claim(j)
  PROVE  Inv'
<1>0. /\ jobs[j].status = "pending" /\ \A i \in Ids : ~Running(i)
      /\ UNCHANGED <<runtime, chat, effects, wrote, outbox, sinks, sweep>>
  BY DEF Claim, Running
<1>1. CASE jobs' = [jobs EXCEPT ![j] = Ended(@, "superseded")] /\ UNCHANGED turns
  <2>1. JobStep
    BY <1>0, <1>1, JobEnds DEF Terminal, Inv
  <2>2. FailuresSent(sent)
    BY <1>0, FailuresKept, Numbers DEF Inv
  <2>3. UNCHANGED turn
    BY <1>0, <1>1 DEF turn
  <2>4. QED BY <1>0, <2>1, <2>2, <2>3, SideStep, SinksSame DEF Inv
<1>2. CASE /\ jobs' = [jobs EXCEPT ![j].status = "running", ![j].gen = rtGen]
           /\ turns' = [turns EXCEPT ![j].pc = "started"]
  <2> DEFINE x == [jobs[j] EXCEPT !.status = "running", !.gen = rtGen]
             t == [turns[j] EXCEPT !.pc = "started"]
  <2>1. /\ jobs \in [Ids -> JobType] /\ jobs[j] \in JobType
        /\ turns \in [Ids -> TurnType] /\ turns[j] \in TurnType
    BY DEF Inv, TypeOK
  <2>2. x \in JobType /\ x.status = "running" /\ x.gen = rtGen
    BY <2>1, Numbers DEF JobType, Active, Inv
  <2>3. t \in TurnType /\ t.pc = "started" /\ t.target = turns[j].target
    BY <2>1 DEF TurnType
  <2>4. jobs' = [jobs EXCEPT ![j] = x] /\ turns' = [turns EXCEPT ![j] = t]
    BY <1>2, <2>1
  <2> HIDE DEF x, t
  <2>5. /\ jobs' \in [Ids -> JobType] /\ jobs'[j] = x
        /\ \A k \in Ids : k # j => jobs'[k] = jobs[k]
    BY <2>1, <2>2, <2>4
  <2>6. /\ turns' \in [Ids -> TurnType] /\ turns'[j] = t
        /\ \A k \in Ids : k # j => turns'[k] = turns[k]
    BY <2>1, <2>3, <2>4
  <2>7. UNCHANGED <<rtState, rtGen, sent, msgs, cursor, bubbles>>
    BY <1>0 DEF runtime, chat
  <2>8. TypeOK'
    BY <1>0, <2>5, <2>6, <2>7 DEF Inv, TypeOK
  <2>9. Frontiers'
    <3>1. \A k \in Ids : turns'[k].target <= sent
      BY <2>3, <2>6 DEF Inv, Frontiers
    <3>2. QED BY <1>0, <2>7, <3>1 DEF Inv, Frontiers
  <2>10. Queue'
    <3>1. Dense'
      BY <1>0, <2>2, <2>5 DEF Inv, Queue, Dense
    <3>2. \A k \in Ids : Running(k)' => k = j
      BY <1>0, <2>5 DEF Running
    <3>3. \A k \in Ids : jobs'[k].gen <= rtGen
      BY SMT, <2>2, <2>5, Numbers DEF Inv, Queue
    <3>4. QED BY <1>0, <2>7, <3>1, <3>2, <3>3 DEF Inv, Queue
  <2>11. Untouched'
    BY <1>0, <2>2, <2>5, <2>6 DEF Inv, Untouched, Unclaimed
  <2>12. Answers' /\ CursorCoversMarks' /\ NothingSkipped'
    BY <2>7, AnswersKept DEF Inv
  <2>13. \A k \in Ids : Running(k)' => k = j
    BY <1>0, <2>5 DEF Running
  <2>14. Turns'
    <3>1. \A k \in Ids : Pinned(k)' => turns'[k].target > turns'[k].since
      BY <2>3, <2>6 DEF Inv, Turns, Pinned
    <3>2. \A k \in Ids : Running(k)' => ~Pinned(k)' /\ ~Loaded(k)'
      BY <2>3, <2>6, <2>13 DEF Pinned, Loaded
    <3>3. \A m \in Seqs : <<j, m>> \notin effects'
      BY <1>0 DEF Inv, Untouched, Unclaimed
    <3>4. \A k \in Ids : Current(k)' => Running(k)'
      BY DEF Current
    <3>5. QED BY <2>13, <3>1, <3>2, <3>3, <3>4 DEF Turns
  <2>15. Solo'
    BY <2>3, <2>6, <2>13 DEF Solo
  <2>16. MutatesOnce'
    BY <1>0 DEF Inv, MutatesOnce
  <2>17. QED BY <2>8, <2>9, <2>10, <2>11, <2>12, <2>14, <2>15, <2>16 DEF Inv
<1>3. QED BY <1>1, <1>2 DEF Claim

(* A mutation record names an input no other turn has recorded.            *)
LEMMA WriteStep ==
  ASSUME NEW j \in Ids, Inv, Write(j)
  PROVE  Inv'
<1> DEFINE p == turns[j].target
<1>1. /\ turns[j].pc = "pinned" /\ p # 0 /\ Running(j) /\ ~turns[j].barrier
      /\ wrote' = wrote \cup {<<j, p>>}
      /\ UNCHANGED <<runtime, chat, jobs, turns, effects, outbox, sinks, sweep>>
  BY DEF Write, Working, Owned, Running
<1>2. UNCHANGED <<rtState, rtGen, sent, msgs, cursor, bubbles>>
  BY <1>1 DEF runtime, chat
<1>3. p \in Seqs /\ p \in Nat /\ turns[j].since \in Nat /\ turns[j] \in TurnType
  <2>1. turns[j] \in TurnType
    BY DEF Inv, TypeOK
  <2>2. p \in 0 .. MaxMsgs /\ turns[j].since \in 0 .. MaxMsgs
    BY <2>1 DEF TurnType
  <2>3. QED BY SMT, <1>1, <2>1, <2>2, Numbers DEF Inv, Seqs
<1>4. p > turns[j].since
  BY <1>1 DEF Inv, Turns, Pinned
<1> HIDE DEF p
<1>5. \A w \in wrote : w[1] # j => w[2] # p
  <2> SUFFICES ASSUME NEW w \in wrote, w[1] # j, w[2] = p PROVE FALSE
    OBVIOUS
  <2>1. w[2] <= turns[j].since
    BY <1>1 DEF Inv, Solo
  <2>2. QED BY SMT, <1>3, <1>4, <2>1
<1>6. MutatesOnce'
  <2> SUFFICES ASSUME NEW v \in wrote', NEW w \in wrote', v[2] = w[2] PROVE v[1] = w[1]
    BY DEF MutatesOnce
  <2>1. CASE v \in wrote /\ w \in wrote
    BY <2>1 DEF Inv, MutatesOnce
  <2>2. CASE v = <<j, p>> /\ w \in wrote
    BY <1>5, <2>2
  <2>3. CASE v \in wrote /\ w = <<j, p>>
    BY <1>5, <2>3
  <2>4. CASE v = <<j, p>> /\ w = <<j, p>>
    BY <2>4
  <2>5. QED BY <1>1, <2>1, <2>2, <2>3, <2>4
<1>7. Solo'
  <2> SUFFICES ASSUME NEW k \in Ids, Running(k)', turns'[k].pc \in {"loaded", "pinned"},
                      ~turns'[k].barrier, NEW w \in wrote', w[1] # k
               PROVE  w[2] <= turns'[k].since
    BY DEF Solo
  <2>1. Running(k)
    BY <1>1 DEF Running
  <2>2. k = j
    BY <1>1, <2>1 DEF Inv, Queue
  <2>3. w \in wrote
    BY SMT, <1>1, <2>2
  <2>4. QED BY <1>1, <2>1, <2>3 DEF Inv, Solo
<1>8. TypeOK'
  BY SMT, <1>1, <1>2, <1>3 DEF Inv, TypeOK
<1>9. Frontiers'
  BY <1>1, <1>2 DEF Inv, Frontiers
<1>10. Queue'
  BY <1>1, <1>2 DEF Inv, Queue, Dense, Running
<1>11. Untouched'
  BY <1>1 DEF Inv, Untouched, Unclaimed
<1>12. Answers' /\ CursorCoversMarks' /\ NothingSkipped'
  BY <1>2, AnswersKept DEF Inv
<1>13. JobStep /\ Winding
  BY <1>1, JobsKept, TurnsSame DEF Inv
<1>14. Turns'
  BY <1>1, <1>2, <1>13, TurnsKept DEF Inv
<1>15. QED BY <1>6, <1>7, <1>8, <1>9, <1>10, <1>11, <1>12, <1>14 DEF Inv

\* One more message keeps oldest and newest defined.
LEMMA OrderedGrows ==
  ASSUME NEW n \in Nat, Ordered(n)
  PROVE  Ordered(n + 1)
<1> SUFFICES ASSUME NEW S \in SUBSET (0 .. n + 1), S # {}
             PROVE  /\ \E x \in S : \A y \in S : y <= x
                    /\ \E x \in S : \A y \in S : x <= y
  BY DEF Ordered
<1> DEFINE T == S \ {n + 1}
<1>1. T \in SUBSET (0 .. n)
  BY SMT
<1>2. T # {} => /\ \E x \in T : \A y \in T : y <= x
                /\ \E x \in T : \A y \in T : x <= y
  BY <1>1 DEF Ordered
<1>3. \A y \in S : y \in T \/ y = n + 1
  OBVIOUS
<1>4. \A y \in S : y <= n + 1 /\ y <= y
  BY SMT
<1>5. \E x \in S : \A y \in S : y <= x
  <2>1. CASE n + 1 \in S
    BY <1>4, <2>1
  <2>2. CASE n + 1 \notin S
    BY SMT, <1>2, <2>2
  <2>3. QED BY <2>1, <2>2
<1>6. \E x \in S : \A y \in S : x <= y
  <2>1. CASE T = {}
    BY <1>3, <1>4, <2>1
  <2>2. CASE T # {}
    <3>1. PICK x \in T : \A y \in T : x <= y
      BY <1>2, <2>2
    <3>2. x \in S /\ x <= n + 1
      BY <1>4
    <3>3. QED BY <1>3, <3>1, <3>2
  <2>3. QED BY <2>1, <2>2
<1>7. QED BY <1>5, <1>6

\* A new job is pending in the generation it was made for.
LEMMA NewJobIs ==
  ASSUME NEW g \in Nat, NEW reason \in Reasons, NEW trace \in 0 .. MaxMsgs
  PROVE  /\ NewJob(g, reason, trace) \in JobType
         /\ NewJob(g, reason, trace).status = "pending"
         /\ NewJob(g, reason, trace).gen = g
BY DEF NewJob, NoJob, JobType, Active

(* Jobs end or count an input, and the next id becomes a pending job.      *)
LEMMA JobAdded ==
  \A f \in [Ids -> JobType] : \A r \in JobType : 
    /\ TypeOK
    /\ Queue
    /\ NextId \in Ids
    /\ r.status = "pending"
    /\ r.gen <= rtGen
    /\ \A k \in Ids : f[k] = jobs[k] \/ (f[k].gen = jobs[k].gen /\ f[k].status \in Terminal
       /\ jobs[k].status # "absent")
    /\ jobs' = [f EXCEPT ![NextId] = r]
    => JobStep
(* The id of the next job is that of a job that does not exist.            *)
<1>NextIdFresh.
  ASSUME TypeOK, NEW n \in 0 .. MaxJobs,
         \A j \in Ids : jobs[j].status # "absent" <=> j <= n
  PROVE  NextId = n + 1
  <2> USE <1>NextIdFresh
  <2> DEFINE A == {j \in DOMAIN jobs : jobs[j].status # "absent"}
             T == A \cup {0}
  <2>1. n \in Nat /\ MaxJobs \in Nat
    BY SMT, BoundsAssumption
  <2>2. DOMAIN jobs = Ids
    BY DEF TypeOK
  <2>3. A = {j \in Ids : j <= n}
    BY <2>2
  <2>4. n \in T /\ \A y \in T : y \in Nat /\ n >= y
    BY SMT, <2>1, <2>3 DEF Ids
  <2>5. NextId = 1 + Max(T)
    BY DEF NextId, Newest
  <2> HIDE DEF A, T
  <2>6. Max(T) \in T /\ \A y \in T : Max(T) >= y
    BY <2>4 DEF Max
  <2>7. Max(T) \in Nat /\ n >= Max(T) /\ Max(T) >= n
    BY <2>4, <2>6
  <2>8. Max(T) = n
    BY SMT, <2>1, <2>7
  <2>9. QED BY SMT, <2>1, <2>5, <2>8
<1> SUFFICES ASSUME TypeOK, Queue, NEW f \in [Ids -> JobType], NEW r \in JobType, NextId \in Ids,
             r.status = "pending", r.gen <= rtGen,
             \A k \in Ids : f[k] = jobs[k] \/ (f[k].gen = jobs[k].gen /\ f[k].status \in Terminal
             /\ jobs[k].status # "absent"),
             jobs' = [f EXCEPT ![NextId] = r]
             PROVE  JobStep
  OBVIOUS
<1>1. PICK n \in 0 .. MaxJobs : \A j \in Ids : jobs[j].status # "absent" <=> j <= n
  BY DEF Queue, Dense
<1>2. NextId = n + 1 /\ n \in Nat /\ MaxJobs \in Nat
  BY SMT, <1>1, <1>NextIdFresh, BoundsAssumption
<1> DEFINE x == n + 1
<1>3. x \in Ids /\ x \in 0 .. MaxJobs /\ jobs[x].status = "absent"
  BY SMT, <1>1, <1>2 DEF Ids
<1>4. jobs' = [f EXCEPT ![x] = r]
  BY <1>2
<1>5. \A j \in Ids : j <= x <=> j <= n \/ j = x
  BY SMT, <1>2 DEF Ids
<1> HIDE DEF x
<1>6. jobs' \in [Ids -> JobType] /\ jobs'[x] = r /\ \A k \in Ids : k # x => jobs'[k] = f[k]
  BY <1>3, <1>4
<1>7. \A j \in Ids : jobs'[j].status # "absent" <=> j <= x
  <2> SUFFICES ASSUME NEW j \in Ids PROVE jobs'[j].status # "absent" <=> j <= x
    OBVIOUS
  <2>1. CASE j = x
    BY <1>5, <1>6, <2>1
  <2>2. CASE j # x
    <3>1. jobs'[j].status # "absent" <=> jobs[j].status # "absent"
      BY <1>6, <2>2 DEF Terminal
    <3>2. QED BY <1>1, <1>5, <2>2, <3>1
  <2>3. QED BY <2>1, <2>2
<1>8. Dense'
  BY <1>3, <1>7 DEF Dense
<1>9. \A k \in Ids : k # x => jobs'[k].gen = jobs[k].gen
  BY <1>6
<1>10. QED BY SMT, <1>3, <1>6, <1>8, <1>9 DEF Queue, JobStep, Running, Unclaimed, Terminal

\* The frontier of a queued failure, the newest live message, was sent.
LEMMA FailuresQueued ==
  \A S : \A M \in [Seqs -> MarkType] : \A n \in 0 .. MaxMsgs : 
    TypeOK /\ Frontiers /\ Ordered(n) /\ sent <= n /\
    (\A m \in Seqs : M[m] # "absent" => m <= n) /\
    outbox' = QueueFailures(outbox, S, M) => FailuresSent(n)
(* The newest live message of a transaction's messages was sent.           *)
<1>NewestLive.
  ASSUME NEW M \in [Seqs -> MarkType], NEW n \in 0 .. MaxMsgs, Ordered(n),
         \A m \in Seqs : M[m] # "absent" => m <= n
  PROVE  Newest(Live(M)) \in 0 .. MaxMsgs /\ Newest(Live(M)) <= n
  <2> USE <1>NewestLive
  <2>1. n \in Nat /\ MaxMsgs \in Nat /\ n <= MaxMsgs
    BY SMT, BoundsAssumption
  <2>2. Live(M) \in SUBSET (0 .. n)
    BY SMT, <2>1 DEF Live, Seqs
  <2>3. Newest(Live(M)) \in Live(M) \cup {0}
    BY <2>1, <2>2, NewestIs
  <2>4. QED BY SMT, <2>1, <2>2, <2>3
<1> SUFFICES ASSUME TypeOK, Frontiers, NEW S, NEW M \in [Seqs -> MarkType],
             NEW n \in 0 .. MaxMsgs, Ordered(n), sent <= n,
             \A m \in Seqs : M[m] # "absent" => m <= n,
             outbox' = QueueFailures(outbox, S, M)
             PROVE  FailuresSent(n)
  OBVIOUS
<1> DEFINE f == Newest(Live(M))
           x == [state |-> "due", frontier |-> f]
<1>1. f \in 0 .. MaxMsgs /\ f <= n
  BY <1>NewestLive
<1>2. outbox' = [j \in Ids |-> IF j \in S /\ outbox[j].state = "none" THEN x ELSE outbox[j]]
  BY DEF QueueFailures
<1> HIDE DEF f
<1>3. x \in FailureType /\ x.frontier <= n
  BY <1>1 DEF FailureType
<1> HIDE DEF x
<1>4. \A j \in Ids : outbox[j] \in FailureType
  BY DEF TypeOK
<1>5. \A j \in Ids : outbox[j].frontier <= n
  <2> SUFFICES ASSUME NEW j \in Ids PROVE outbox[j].frontier <= n
    OBVIOUS
  <2>1. outbox[j].frontier <= sent /\ outbox[j].frontier \in Nat /\ sent \in Nat
    BY SMT, <1>4, BoundsAssumption DEF Frontiers, FailureType, TypeOK
  <2>2. QED BY SMT, <2>1
<1>6. QED BY <1>2, <1>3, <1>4, <1>5 DEF FailuresSent

(* coalesce_or_insert_on_cursor, on the chat lane.                         *)
LEMMA Coalesces ==
  \A M \in [Seqs -> MarkType] : \A n \in 0 .. MaxMsgs :
  \A g \in Nat : \A reason \in Reasons : \A trace \in 0 .. MaxMsgs :
    TypeOK /\ Queue /\ Frontiers /\ Ordered(n) /\ sent <= n /\
    (\A m \in Seqs : M[m] # "absent" => m <= n) /\ g <= rtGen /\
    CoalesceOrInsert(M, g, reason, trace) => JobStep /\ FailuresSent(n)
(* One active job counts another input, whatever else stays.               *)
<1>JobAbsorbs.
  ASSUME TypeOK, Queue, NEW S \in SUBSET Ids,
         jobs' = [j \in Ids |-> IF j \in S THEN [jobs[j] EXCEPT !.input = @ + 1] ELSE jobs[j]]
  PROVE  JobStep
  <2> USE <1>JobAbsorbs
  <2>1. \A j \in Ids : jobs[j] \in JobType
    BY DEF TypeOK
  <2>2. \A j \in Ids : /\ [jobs[j] EXCEPT !.input = @ + 1] \in JobType
                       /\ [jobs[j] EXCEPT !.input = @ + 1].status = jobs[j].status
                       /\ [jobs[j] EXCEPT !.input = @ + 1].gen = jobs[j].gen
    BY SMT, <2>1 DEF JobType
  <2>3. jobs' \in [Ids -> JobType]
    BY <2>1, <2>2
  <2>4. \A j \in Ids : jobs'[j].status = jobs[j].status /\ jobs'[j].gen = jobs[j].gen
    BY <2>1, <2>2
  <2>5. Dense'
    BY <2>4 DEF Queue, Dense
  <2>6. QED BY <2>3, <2>4, <2>5 DEF Queue, JobStep, Running, Unclaimed
<1> SUFFICES ASSUME TypeOK, Queue, Frontiers, NEW M \in [Seqs -> MarkType],
             NEW n \in 0 .. MaxMsgs, Ordered(n), sent <= n,
             \A m \in Seqs : M[m] # "absent" => m <= n,
             NEW g \in Nat, g <= rtGen, NEW reason \in Reasons, NEW trace \in 0 .. MaxMsgs,
             CoalesceOrInsert(M, g, reason, trace)
             PROVE  JobStep /\ FailuresSent(n)
  OBVIOUS
<1> DEFINE timedOut == {j \in ActiveJobs : ~GenStale(j, g)}
           retired == [j \in Ids |->
                    IF j \notin ActiveJobs THEN jobs[j]
                    ELSE Ended(jobs[j], IF j \in timedOut THEN "expired" ELSE "superseded")]
<1>0. /\ ActiveJobs \subseteq Ids /\ Absorbing(g) \subseteq Ids
      /\ \A j \in ActiveJobs : jobs[j].status # "absent"
  BY DEF ActiveJobs, Absorbing, TypeOK, Active
<1>1. CASE /\ Absorbing(g) # {}
           /\ jobs' = [j \in Ids |-> IF j \in Absorbing(g)
                                    THEN [jobs[j] EXCEPT !.input = @ + 1] ELSE jobs[j]]
           /\ UNCHANGED outbox
  <2>1. JobStep
    BY <1>0, <1>1, <1>JobAbsorbs
  <2>2. FailuresSent(n)
    BY <1>1, FailuresKept
  <2>3. QED BY <2>1, <2>2
<1>2. CASE /\ Absorbing(g) = {} /\ NextId \in Ids
           /\ jobs' = [retired EXCEPT ![NextId] = NewJob(g, reason, trace)]
           /\ outbox' = QueueFailures(outbox, timedOut, M)
  <2>1. \A j \in Ids : \A s \in {"expired", "superseded"} :
          /\ Ended(jobs[j], s) \in JobType
          /\ Ended(jobs[j], s).status = s
          /\ Ended(jobs[j], s).gen = jobs[j].gen
    BY SMT, EndedIs DEF TypeOK, Terminal
  <2>2. \A j \in Ids : jobs[j] \in JobType
    BY DEF TypeOK
  <2>3. retired \in [Ids -> JobType]
    BY <2>1, <2>2
  <2>4. \A k \in Ids : retired[k] = jobs[k] \/ (retired[k].gen = jobs[k].gen
              /\ retired[k].status \in Terminal /\ jobs[k].status # "absent")
    <3> SUFFICES ASSUME NEW k \in Ids
                 PROVE  retired[k] = jobs[k] \/ (retired[k].gen = jobs[k].gen
                          /\ retired[k].status \in Terminal /\ jobs[k].status # "absent")
      OBVIOUS
    <3>1. CASE k \notin ActiveJobs
      BY <3>1
    <3>2. CASE k \in ActiveJobs
      <4>1. PICK s \in {"expired", "superseded"} : retired[k] = Ended(jobs[k], s)
        BY <3>2
      <4>2. retired[k].gen = jobs[k].gen /\ retired[k].status = s
        BY <2>1, <4>1
      <4>3. QED BY <1>0, <3>2, <4>2 DEF Terminal
    <3>3. QED BY <3>1, <3>2
  <2> DEFINE r == NewJob(g, reason, trace)
  <2>5. r \in JobType /\ r.status = "pending" /\ r.gen = g
    BY NewJobIs
  <2>6. jobs' = [retired EXCEPT ![NextId] = r] /\ NextId \in Ids
    BY <1>2
  <2>7. FailuresSent(n)
    BY <1>2, FailuresQueued
  <2> HIDE DEF r, retired, timedOut
  <2>8. JobStep
    BY <2>3, <2>4, <2>5, <2>6, JobAdded
  <2>9. QED BY <2>7, <2>8
<1>3. QED BY <1>1, <1>2 DEF CoalesceOrInsert

\* Every message that exists was sent.
LEMMA SentMessages ==
  ASSUME Inv
  PROVE  /\ msgs \in [Seqs -> MarkType]
         /\ \A m \in Seqs : msgs[m] # "absent" => m <= sent
         /\ sent \in 0 .. MaxMsgs /\ sent <= sent
BY Numbers DEF TypeOK, Frontiers, Inv

(* The sender.                                                             *)
LEMMA SendingSteps == Inv /\ Ordered(sent) /\ (Send \/ Append) => Inv'
(* A message arrives, with or without its job.                             *)
<1>MessageArrives.
  ASSUME Inv, sent < MaxMsgs, sent' = sent + 1, msgs' = [msgs EXCEPT ![sent + 1] = "open"],
         JobStep, FailuresSent(sent + 1),
         UNCHANGED <<rtState, rtGen, cursor, bubbles, turns, effects, wrote, sinks, sweep>>
  PROVE  Inv'
  <2> USE <1>MessageArrives
  <2> DEFINE x == sent + 1
  <2>1. /\ x \in Seqs /\ x \in 0 .. MaxMsgs /\ sent \in Nat /\ x \in Nat
        /\ x > sent /\ sent \in 0 .. MaxMsgs /\ cursor \in Nat
    BY SMT, Numbers DEF Inv, Seqs
  <2>2. msgs \in [Seqs -> MarkType] /\ cursor <= sent /\ msgs[x] = "absent"
    BY SMT, <2>1 DEF Inv, TypeOK, Frontiers
  <2>3. sent' = x /\ msgs' = [msgs EXCEPT ![x] = "open"] /\ x > cursor
    BY SMT, <2>1, <2>2
  <2>4. FailuresSent(x)
    OBVIOUS
  <2>5. \A k \in Nat : k <= sent => k <= x
    BY SMT, <2>1
  <2> HIDE DEF x
  <2>6. /\ msgs' \in [Seqs -> MarkType] /\ msgs'[x] = "open"
        /\ \A k \in Seqs : k # x => msgs'[k] = msgs[k]
    BY <2>1, <2>2, <2>3 DEF MarkType
  <2>7. TypeOK'
    BY <2>1, <2>3, <2>4, <2>6 DEF Inv, TypeOK, JobStep, FailuresSent
  <2>8. Frontiers'
    <3>1. \A m \in Seqs : msgs'[m] # "absent" => m <= x
      <4> SUFFICES ASSUME NEW m \in Seqs, msgs'[m] # "absent" PROVE m <= x
        OBVIOUS
      <4>1. CASE m = x
        BY SMT, <2>1, <4>1
      <4>2. CASE m # x
        BY SMT, <2>5, <2>6, <4>2 DEF Inv, Frontiers, Seqs
      <4>3. QED BY <4>1, <4>2
    <3>2. \A e \in effects : e[2] <= x
      <4> SUFFICES ASSUME NEW e \in effects PROVE e[2] <= x
        OBVIOUS
      <4>1. e[2] <= sent /\ e[2] \in Nat
        BY SMT DEF Inv, Frontiers, TypeOK, Seqs
      <4>2. QED BY <2>5, <4>1
    <3>3. \A j \in Ids : turns[j].target <= x
      <4> SUFFICES ASSUME NEW j \in Ids PROVE turns[j].target <= x
        OBVIOUS
      <4>0. turns[j] \in TurnType
        BY DEF Inv, TypeOK
      <4>1. turns[j].target <= sent /\ turns[j].target \in Nat
        BY SMT, <4>0 DEF Inv, Frontiers, TurnType
      <4>2. QED BY <2>5, <4>1
    <3>4. \A r \in Reconcilers : sinks[r].frontier <= x
      <4> SUFFICES ASSUME NEW r \in Reconcilers PROVE sinks[r].frontier <= x
        OBVIOUS
      <4>0. sinks[r] \in DeliveryType
        BY DEF Inv, TypeOK
      <4>1. sinks[r].frontier <= sent /\ sinks[r].frontier \in Nat
        BY SMT, <4>0 DEF Inv, Frontiers, DeliveryType
      <4>2. QED BY <2>5, <4>1
    <3>5. cursor <= x
      BY <2>1, <2>2, <2>5
    <3>6. QED BY <2>3, <2>4, <3>1, <3>2, <3>3, <3>4, <3>5 DEF Frontiers, FailuresSent
  <2>9. sweep' \in SweepType /\ sweep'.gen <= rtGen
    BY SweepSame DEF Inv
  <2>10. Queue'
    BY <2>9, QueueKept DEF Inv
  <2>11. Winding
    BY TurnsSame DEF Inv
  <2>12. Untouched' /\ Solo' /\ MutatesOnce'
    BY <2>11, UntouchedKept, SoloKept DEF Inv, MutatesOnce
  <2>13. Live(msgs)' = Live(msgs) \cup {x} /\ Open(msgs)' = Open(msgs) \cup {x}
         /\ x \notin Live(msgs) /\ Live(msgs) \subseteq Seqs
    BY <2>1, <2>2, <2>6 DEF Live, Open
  <2>14. Answered(msgs)' = Answered(msgs)
    BY <2>13 DEF Answered
  <2>15. \A k \in Answered(msgs) : k \in Seqs /\ k # x
    BY <2>13 DEF Answered
  <2>16. Answers'
    <3>1. \A b \in bubbles : b.parent \in Seqs
      BY DEF Inv, TypeOK, BubbleType
    <3>2. \A b \in bubbles : Real(b) => msgs'[b.parent] \in {"reply", "resident"}
      BY <2>2, <2>6, <3>1 DEF Inv, Answers
    <3>3. \A m \in Answered(msgs)' : m > cursor => msgs'[m] = "resident"
      BY <2>6, <2>14, <2>15 DEF Inv, Answers
    <3>4. QED BY <3>2, <3>3 DEF Inv, Answers, Real
  <2>17. CursorCoversMarks'
    BY <2>14 DEF Inv, CursorCoversMarks
  <2>18. NothingSkipped'
    <3> SUFFICES ASSUME NEW m \in Open(msgs)', m <= cursor
                 PROVE  \E n \in Answered(msgs)' : n > m /\ msgs'[n] = "resident"
      BY DEF NothingSkipped
    <3>1. m # x
      BY SMT, <2>1, <2>3
    <3>2. m \in Open(msgs)
      BY <2>13, <3>1
    <3>3. PICK n \in Answered(msgs) : n > m /\ msgs[n] = "resident"
      BY <3>2 DEF Inv, NothingSkipped
    <3>4. msgs'[n] = "resident"
      BY <2>6, <2>15, <3>3
    <3>5. QED BY <2>14, <3>3, <3>4
  <2>19. Turns'
    <3>1. \A m : Answerable(m) => Answerable(m)'
      <4> SUFFICES ASSUME NEW m, Answerable(m) PROVE Answerable(m)'
        OBVIOUS
      <4>1. m \in Live(msgs) /\ m \in Seqs /\ m # x /\ m \in Live(msgs)'
        BY <2>13 DEF Answerable
      <4>2. msgs'[m] = msgs[m]
        BY <2>6, <4>1
      <4>3. QED BY <4>1, <4>2 DEF Answerable
    <3>2. \A m : m = x => Answerable(m)'
      BY <2>3, <2>13 DEF Answerable
    <3>3. \A j \in Ids : Current(j)' => Current(j)
      BY DEF Current, JobStep
    <3>4. \A j \in Ids : (Loaded(j)' <=> Loaded(j)) /\ (Pinned(j)' <=> Pinned(j))
      BY DEF Loaded, Pinned
    <3>5. \A j \in Ids : Pinned(j)' => turns'[j].target > turns'[j].since
      BY <3>4 DEF Inv, Turns
    <3>6. \A j \in Ids : Current(j)' /\ Pinned(j)' => turns'[j].target \in Live(msgs)'
      BY <2>13, <3>3, <3>4 DEF Inv, Turns
    <3>7. \A j \in Ids : Current(j)' /\ Loaded(j)' =>
            \A m \in Live(msgs)' : m > turns'[j].since => Answerable(m)'
      BY <2>13, <3>1, <3>2, <3>3, <3>4 DEF Inv, Turns
    <3>8. \A j \in Ids, m \in Seqs : Current(j)' /\ <<j, m>> \in effects' => Answerable(m)'
      BY <3>1, <3>3 DEF Inv, Turns
    <3>9. QED BY <3>5, <3>6, <3>7, <3>8 DEF Turns
  <2>20. QED BY <2>7, <2>8, <2>10, <2>12, <2>16, <2>17, <2>18, <2>19 DEF Inv
<1>SendStep. Inv /\ Ordered(sent) /\ Send => Inv'
  <2> SUFFICES ASSUME Inv, Ordered(sent), Send PROVE Inv'
    OBVIOUS
  <2> DEFINE x == sent + 1
             M == [msgs EXCEPT ![x] = "open"]
  <2>1. /\ sent < MaxMsgs /\ sent' = x /\ msgs' = M
        /\ CoalesceOrInsert(M, rtGen, "chat_send", x)
        /\ UNCHANGED <<runtime, cursor, bubbles, turn, sinks, sweep>>
    BY DEF Send
  <2>2. /\ x \in Nat /\ sent <= x /\ x \in 0 .. MaxMsgs /\ x \in Seqs
        /\ rtGen \in Nat /\ rtGen <= rtGen /\ "chat_send" \in Reasons /\ x <= x
    BY SMT, <2>1, Numbers DEF Inv, Reasons, Seqs
  <2>3. /\ msgs \in [Seqs -> MarkType] /\ \A m \in Seqs : msgs[m] # "absent" => m <= x
    BY SMT, <2>2, SentMessages DEF Seqs
  <2> HIDE DEF x
  <2>4. M \in [Seqs -> MarkType] /\ \A m \in Seqs : M[m] # "absent" => m <= x
    BY <2>2, <2>3 DEF MarkType
  <2> HIDE DEF M
  <2>5. JobStep /\ FailuresSent(x)
    <3>1. Ordered(x)
      BY OrderedGrows, Numbers DEF x, Inv
    <3>2. QED BY <2>1, <2>2, <2>4, <3>1, Coalesces DEF Inv
  <2>6. UNCHANGED <<rtState, rtGen, cursor, bubbles, turns, effects, wrote, sinks, sweep>>
    BY <2>1 DEF runtime, turn
  <2>7. QED BY <2>1, <2>5, <2>6, <1>MessageArrives DEF x, M
<1>AppendStep. Inv /\ Append => Inv'
  <2> SUFFICES ASSUME Inv, Append PROVE Inv'
    OBVIOUS
  <2>1. /\ sent < MaxMsgs /\ sent' = sent + 1 /\ msgs' = [msgs EXCEPT ![sent + 1] = "open"]
        /\ UNCHANGED <<runtime, cursor, bubbles, jobs, turn, outbox, sinks, sweep>>
    BY DEF Append
  <2>2. sent + 1 \in 0 .. MaxMsgs /\ sent <= sent + 1
    BY SMT, <2>1, Numbers DEF Inv
  <2>3. JobStep /\ FailuresSent(sent + 1)
    BY <2>1, <2>2, JobsKept, FailuresKept DEF Inv
  <2>4. UNCHANGED <<rtState, rtGen, cursor, bubbles, turns, effects, wrote, sinks, sweep>>
    BY <2>1 DEF runtime, turn
  <2>5. QED BY <2>1, <2>3, <2>4, <1>MessageArrives
<1> QED BY <1>SendStep, <1>AppendStep

(* A step of one turn that ends it: the sinks and the sweeper stay.        *)
LEMMA TurnOverStep ==
  \A j \in Ids : \A t \in TurnType : 
    Inv /\ JobStep /\ FailuresSent(sent) /\ turns[j].pc # "none" /\
    t.pc \notin {"loaded", "pinned", "offered"} /\ t.target <= sent /\
    turns' = [turns EXCEPT ![j] = t] /\
    UNCHANGED <<runtime, chat, effects, wrote, sinks, sweep>> => Inv'
(* ... or one turn that has begun winds down.                              *)
<1>TurnEnds.
  ASSUME TypeOK, Untouched, NEW j \in Ids, NEW t \in TurnType, turns[j].pc # "none",
         t.pc \notin {"loaded", "pinned", "offered"}, t.target <= sent,
         turns' = [turns EXCEPT ![j] = t]
  PROVE  Winding /\ turns' \in [Ids -> TurnType]
  <2> USE <1>TurnEnds
  <2>1. ~Unclaimed(j)
    BY DEF Untouched
  <2>2. turns \in [Ids -> TurnType]
    BY DEF TypeOK
  <2>3. QED BY <2>1, <2>2 DEF Winding
<1> SUFFICES ASSUME Inv, JobStep, FailuresSent(sent), NEW j \in Ids, NEW t \in TurnType,
             turns[j].pc # "none", t.pc \notin {"loaded", "pinned", "offered"}, t.target <= sent,
             turns' = [turns EXCEPT ![j] = t],
             UNCHANGED <<runtime, chat, effects, wrote, sinks, sweep>>
             PROVE  Inv'
  OBVIOUS
<1>1. Winding /\ turns' \in [Ids -> TurnType]
  BY <1>TurnEnds DEF Inv
<1>2. /\ sinks' \in [Reconcilers -> DeliveryType]
      /\ \A q \in Reconcilers : sinks'[q].frontier <= sent
  BY SinksSame DEF Inv
<1>3. sweep' \in SweepType /\ sweep'.gen <= rtGen
  BY SweepSame DEF Inv
<1>4. QED BY <1>1, <1>2, <1>3, RowStep

(* A turn until it hands its reply over.                                   *)
LEMMA ReadingSteps ==
  \A j \in Ids : Inv /\ Ordered(sent) /\ (LoadCursor(j) \/ Pin(j) \/ EnqueueReply(j)) => Inv'
(* One turn takes a step, and nothing but turns and effects change.        *)
<1>OneTurnMoves.
  ASSUME Inv, NEW j \in Ids, NEW t \in TurnType, turns' = [turns EXCEPT ![j] = t],
         t.target <= sent, turns[j].pc # "none",
         effects' \subseteq Ids \X Seqs, \A e \in effects' : e \in effects \/ e[1] = j,
         \A e \in effects' : e[2] <= sent,
         UNCHANGED <<runtime, chat, jobs, wrote, outbox, sinks, sweep>>
  PROVE  /\ TypeOK' /\ Frontiers' /\ Queue' /\ Untouched'
         /\ Answers' /\ CursorCoversMarks' /\ NothingSkipped' /\ MutatesOnce'
         /\ turns'[j] = t /\ \A k \in Ids : k # j => turns'[k] = turns[k]
  <2> USE <1>OneTurnMoves
  <2>0. UNCHANGED <<rtState, rtGen, sent, msgs, cursor, bubbles>>
    BY DEF runtime, chat
  <2>1. /\ turns' \in [Ids -> TurnType] /\ turns'[j] = t
        /\ \A k \in Ids : k # j => turns'[k] = turns[k]
    BY DEF Inv, TypeOK
  <2>2. TypeOK'
    BY <2>0, <2>1 DEF Inv, TypeOK
  <2>3. Frontiers'
    <3>1. \A k \in Ids : turns'[k].target <= sent
      BY <2>1 DEF Inv, Frontiers
    <3>2. QED BY <2>0, <3>1 DEF Inv, Frontiers
  <2>4. Queue'
    BY <2>0 DEF Inv, Queue, Dense, Running
  <2>5. Untouched'
    <3> SUFFICES ASSUME NEW k \in Ids, Unclaimed(k)'
                 PROVE  turns'[k].pc = "none" /\ \A m \in Seqs : <<k, m>> \notin effects'
      BY DEF Untouched
    <3>1. Unclaimed(k)
      BY DEF Unclaimed
    <3>2. k # j /\ turns[k].pc = "none" /\ \A m \in Seqs : <<k, m>> \notin effects
      BY <3>1 DEF Inv, Untouched
    <3>3. QED BY <2>1, <3>2
  <2>6. Answers' /\ CursorCoversMarks' /\ NothingSkipped'
    BY <2>0, AnswersKept DEF Inv
  <2>7. MutatesOnce'
    BY DEF Inv, MutatesOnce
  <2>8. QED BY <2>1, <2>2, <2>3, <2>4, <2>5, <2>6, <2>7
(* The turns follow when the one that moves keeps what they promise.       *)
<1>OneTurnKeeps.
  ASSUME Inv, NEW j \in Ids, \A k \in Ids : k # j => turns'[k] = turns[k],
         UNCHANGED <<runtime, chat, jobs, wrote>>,
         Pinned(j)' => turns'[j].target > turns'[j].since,
         Current(j) /\ Pinned(j)' => turns'[j].target \in Live(msgs),
         Current(j) /\ Loaded(j)' =>
            \A m \in Live(msgs) : m > turns'[j].since => Answerable(m),
         \A m \in Seqs : Current(j) /\ <<j, m>> \in effects' => Answerable(m),
         \A e \in effects' : e \in effects \/ e[1] = j,
         Running(j) /\ turns'[j].pc \in {"loaded", "pinned"} /\ ~turns'[j].barrier =>
            \A w \in wrote : w[1] # j => w[2] <= turns'[j].since
  PROVE  Turns' /\ Solo'
  <2> USE <1>OneTurnKeeps
  <2>0. UNCHANGED <<rtState, rtGen, sent, msgs, cursor, bubbles>>
    BY DEF runtime, chat
  <2>1. \A k \in Ids : (Current(k)' <=> Current(k)) /\ (Running(k)' <=> Running(k))
    BY <2>0 DEF Current, Running
  <2>2. Live(msgs)' = Live(msgs) /\ \A m : Answerable(m)' <=> Answerable(m)
    BY <2>0 DEF Live, Answerable
  <2>3. \A k \in Ids : k # j => (Pinned(k)' <=> Pinned(k)) /\ (Loaded(k)' <=> Loaded(k))
    BY DEF Pinned, Loaded
  <2>4. \A k \in Ids : Pinned(k)' => turns'[k].target > turns'[k].since
    BY <2>3 DEF Inv, Turns
  <2>5. \A k \in Ids : Current(k)' /\ Pinned(k)' => turns'[k].target \in Live(msgs)'
    BY <2>1, <2>2, <2>3 DEF Inv, Turns
  <2>6. \A k \in Ids : Current(k)' /\ Loaded(k)' =>
          \A m \in Live(msgs)' : m > turns'[k].since => Answerable(m)'
    BY <2>1, <2>2, <2>3 DEF Inv, Turns
  <2>7. \A k \in Ids, m \in Seqs : Current(k)' /\ <<k, m>> \in effects' => Answerable(m)'
    <3> SUFFICES ASSUME NEW k \in Ids, NEW m \in Seqs, Current(k)', <<k, m>> \in effects'
                 PROVE  Answerable(m)'
      OBVIOUS
    <3>1. CASE k = j
      BY <2>1, <2>2, <3>1
    <3>2. CASE k # j
      <4>1. <<k, m>> \in effects
        BY <3>2
      <4>2. QED BY <2>1, <2>2, <4>1 DEF Inv, Turns
    <3>3. QED BY <3>1, <3>2
  <2>8. Turns'
    BY <2>4, <2>5, <2>6, <2>7 DEF Turns
  <2>9. Solo'
    <3> SUFFICES ASSUME NEW k \in Ids, Running(k)', turns'[k].pc \in {"loaded", "pinned"},
                        ~turns'[k].barrier, NEW w \in wrote', w[1] # k
                 PROVE  w[2] <= turns'[k].since
      BY DEF Solo
    <3>1. CASE k = j
      BY <2>1, <3>1
    <3>2. CASE k # j
      BY <2>1, <3>2 DEF Inv, Solo
    <3>3. QED BY <3>1, <3>2
  <2>10. QED BY <2>8, <2>9
<1>LoadCursorStep.
  ASSUME NEW j \in Ids, Inv, LoadCursor(j)
  PROVE  Inv'
  <2> USE <1>LoadCursorStep
  <2>1. /\ turns[j].pc = "started"
        /\ UNCHANGED <<runtime, chat, jobs, effects, wrote, outbox, sinks, sweep>>
    BY DEF LoadCursor
  <2>2. CASE jobs[j].status # "running"
    <3>1. turns' = [turns EXCEPT ![j] = Over]
      BY <2>2 DEF LoadCursor
    <3>2. JobStep /\ FailuresSent(sent)
      BY <2>1, JobsKept, FailuresKept, Numbers DEF Inv
    <3>3. QED BY <2>1, <3>1, <3>2, TurnOverStep, Quiescent, Numbers DEF Inv
  <2>3. CASE jobs[j].status = "running"
    <3> DEFINE b == Barrier(cursor, j)
               t == [pc |-> "loaded", since |-> cursor, observed |-> jobs[j].input,
                     target |-> 0, barrier |-> b]
    <3>1. turns' = [turns EXCEPT ![j] = t]
      BY <2>3 DEF LoadCursor
    <3>2. b \in BOOLEAN
      BY DEF Barrier
    <3>3. ~b => \A w \in wrote : w[1] # j => w[2] <= cursor
      <4> SUFFICES ASSUME ~b, NEW w \in wrote, w[1] # j PROVE w[2] <= cursor
        OBVIOUS
      <4>1. ~(w[2] > cursor)
        BY DEF Barrier
      <4>2. w[2] \in Nat /\ cursor \in Nat
        BY SMT, Numbers DEF Inv, TypeOK, Seqs
      <4>3. QED BY SMT, <4>1, <4>2
    <3> HIDE DEF b
    <3>4. jobs[j] \in JobType /\ cursor \in 0 .. MaxMsgs /\ 0 \in 0 .. MaxMsgs
      BY SMT, Numbers DEF Inv, TypeOK
    <3>5. /\ t \in TurnType /\ t.pc = "loaded" /\ t.target = 0 /\ t.since = cursor
          /\ t.barrier = b
      BY <3>2, <3>4 DEF TurnType, JobType
    <3> HIDE DEF t
    <3>6. \A e \in effects' : e[2] <= sent
      BY <2>1 DEF Inv, Frontiers
    <3>7. effects' \subseteq Ids \X Seqs
      BY <2>1 DEF Inv, TypeOK
    <3>8. /\ TypeOK' /\ Frontiers' /\ Queue' /\ Untouched'
          /\ Answers' /\ CursorCoversMarks' /\ NothingSkipped' /\ MutatesOnce'
          /\ turns'[j] = t /\ \A k \in Ids : k # j => turns'[k] = turns[k]
      BY <2>1, <3>1, <3>5, <3>6, <3>7, <1>OneTurnMoves, Numbers DEF Inv
    <3>9. ~Pinned(j)'
      BY <3>5, <3>8 DEF Pinned
    <3>10. \A m \in Live(msgs) : m > turns'[j].since => Answerable(m)
      BY <3>5, <3>8 DEF Answerable
    <3>11. \A m \in Seqs : Current(j) /\ <<j, m>> \in effects' => Answerable(m)
      BY <2>1 DEF Inv, Turns
    <3>12. ~turns'[j].barrier => \A w \in wrote : w[1] # j => w[2] <= turns'[j].since
      BY <3>3, <3>5, <3>8
    <3>13. Turns' /\ Solo'
      BY <2>1, <3>8, <3>9, <3>10, <3>11, <3>12, <1>OneTurnKeeps
    <3>14. QED BY <3>8, <3>13 DEF Inv
  <2>4. QED BY <2>2, <2>3
<1>PinStep. \A j \in Ids : Inv /\ Ordered(sent) /\ Pin(j) => Inv'
  (* The oldest message of a nonempty set is one of its members.             *)
  <2>OldestIs.
    ASSUME NEW n \in Nat, Ordered(n), NEW S \in SUBSET (0 .. n), S # {}
    PROVE  Min(S) \in S
    <3> USE <2>OldestIs
    <3>1. PICK x \in S : \A y \in S : x <= y
      BY DEF Ordered
    <3>2. QED BY <3>1 DEF Min
  <2> SUFFICES ASSUME NEW j \in Ids, Inv, Ordered(sent), Pin(j)
               PROVE  Inv'
    OBVIOUS
  <2> DEFINE input == {m \in Live(msgs) : m > turns[j].since}
             p == IF input = {} THEN 0 ELSE Min(input)
             t == [turns[j] EXCEPT !.pc = "pinned", !.target = p]
  <2>1. /\ turns[j].pc = "loaded"
        /\ UNCHANGED <<runtime, chat, jobs, effects, wrote, outbox, sinks, sweep>>
    BY DEF Pin
  <2>2. turns \in [Ids -> TurnType] /\ turns[j] \in TurnType
    BY DEF Inv, TypeOK
  <2>3. turns' = [turns EXCEPT ![j] = t]
    BY <2>2 DEF Pin
  <2>4. Live(msgs) \subseteq Seqs /\ Seqs \subseteq 0 .. MaxMsgs
        /\ \A m \in Live(msgs) : m <= sent
    BY SMT, Numbers DEF Inv, TypeOK, Live, Seqs, Frontiers
  <2>5. input # {} => Min(input) \in input
    <3>1. input \in SUBSET (0 .. sent)
      <4>1. sent \in Nat /\ \A m \in Live(msgs) : m \in Nat /\ m <= sent
        BY SMT, <2>4, Numbers DEF Inv, Seqs
      <4>2. \A m \in Live(msgs) : m \in 0 .. sent
        BY SMT, <4>1
      <4>3. QED BY <4>2
    <3>2. QED BY <3>1, <2>OldestIs, Numbers DEF Inv
  <2>6. p \in 0 .. MaxMsgs /\ p <= sent /\ (p # 0 => p \in Live(msgs) /\ p > turns[j].since)
    <3>1. CASE input = {}
      <4>1. p = 0
        BY <3>1
      <4>2. QED BY SMT, <4>1, Numbers DEF Inv
    <3>2. CASE input # {}
      <4>1. p \in input
        BY <2>5, <3>2
      <4>2. p \in Live(msgs) /\ p > turns[j].since
        BY <4>1
      <4>3. QED BY <2>4, <4>2
    <3>3. QED BY <3>1, <3>2
  <2> HIDE DEF p
  <2>7. /\ t \in TurnType /\ t.pc = "pinned" /\ t.target = p /\ t.since = turns[j].since
        /\ t.barrier = turns[j].barrier
    BY <2>2, <2>6 DEF TurnType
  <2> HIDE DEF t
  <2>8. \A e \in effects' : e[2] <= sent
    BY <2>1 DEF Inv, Frontiers
  <2>9. effects' \subseteq Ids \X Seqs
    BY <2>1 DEF Inv, TypeOK
  <2>10. /\ TypeOK' /\ Frontiers' /\ Queue' /\ Untouched'
         /\ Answers' /\ CursorCoversMarks' /\ NothingSkipped' /\ MutatesOnce'
         /\ turns'[j] = t /\ \A k \in Ids : k # j => turns'[k] = turns[k]
    BY <2>1, <2>3, <2>6, <2>7, <2>8, <2>9, <1>OneTurnMoves
  <2>11. Pinned(j)' => turns'[j].target > turns'[j].since /\ turns'[j].target \in Live(msgs)
    BY <2>6, <2>7, <2>10 DEF Pinned
  <2>12. Current(j) => \A m \in Live(msgs) : m > turns'[j].since => Answerable(m)
    BY <2>1, <2>7, <2>10 DEF Inv, Turns, Loaded
  <2>13. \A m \in Seqs : Current(j) /\ <<j, m>> \in effects' => Answerable(m)
    BY <2>1 DEF Inv, Turns
  <2>14. Running(j) /\ ~turns'[j].barrier =>
           \A w \in wrote : w[1] # j => w[2] <= turns'[j].since
    BY <2>1, <2>7, <2>10 DEF Inv, Solo
  <2>15. Turns' /\ Solo'
    BY <2>1, <2>10, <2>11, <2>12, <2>13, <2>14, <1>OneTurnKeeps
  <2>16. QED BY <2>10, <2>15 DEF Inv
<1>EnqueueReplyStep.
  ASSUME NEW j \in Ids, Inv, EnqueueReply(j)
  PROVE  Inv'
  <2> USE <1>EnqueueReplyStep
  <2> DEFINE p == turns[j].target
             t == [turns[j] EXCEPT !.pc = "offered"]
  <2>1. /\ turns[j].pc = "pinned" /\ p # 0 /\ effects' = effects \cup {<<j, p>>}
        /\ UNCHANGED <<runtime, chat, jobs, wrote, outbox, sinks, sweep>>
    BY DEF EnqueueReply, Working
  <2>2. turns \in [Ids -> TurnType] /\ turns[j] \in TurnType
    BY DEF Inv, TypeOK
  <2>3. turns' = [turns EXCEPT ![j] = t]
    BY <2>2 DEF EnqueueReply
  <2>4. p \in Seqs /\ p <= sent
    BY SMT, <2>1, <2>2, Numbers DEF Inv, TurnType, Seqs, Frontiers
  <2>5. /\ t \in TurnType /\ t.pc = "offered" /\ t.target = p /\ t.since = turns[j].since
    BY <2>2 DEF TurnType
  <2>6. Current(j) => Answerable(p)
    <3>1. Pinned(j) /\ Loaded(j)
      BY <2>1 DEF Pinned, Loaded
    <3>2. p > turns[j].since /\ (Current(j) => p \in Live(msgs))
      BY <3>1 DEF Inv, Turns
    <3>3. QED BY <3>1, <3>2 DEF Inv, Turns
  <2>7. Pinned(j)
    BY <2>1 DEF Pinned
  <2> HIDE DEF t, p
  <2>8. \A e \in effects' : e[2] <= sent
    BY SMT, <2>1, <2>4 DEF Inv, Frontiers
  <2>9. effects' \subseteq Ids \X Seqs /\ \A e \in effects' : e \in effects \/ e[1] = j
    BY SMT, <2>1, <2>4 DEF Inv, TypeOK
  <2>10. /\ TypeOK' /\ Frontiers' /\ Queue' /\ Untouched'
         /\ Answers' /\ CursorCoversMarks' /\ NothingSkipped' /\ MutatesOnce'
         /\ turns'[j] = t /\ \A k \in Ids : k # j => turns'[k] = turns[k]
    BY <2>1, <2>3, <2>4, <2>5, <2>8, <2>9, <1>OneTurnMoves
  <2>11. turns'[j].target > turns'[j].since /\ (Current(j) => turns'[j].target \in Live(msgs))
    BY <2>5, <2>7, <2>10 DEF Inv, Turns, p
  <2>12. Current(j) => \A m \in Live(msgs) : m > turns'[j].since => Answerable(m)
    BY <2>1, <2>5, <2>10 DEF Inv, Turns, Loaded
  <2>13. \A m \in Seqs : Current(j) /\ <<j, m>> \in effects' => Answerable(m)
    BY <2>1, <2>6 DEF Inv, Turns
  <2>14. turns'[j].pc \notin {"loaded", "pinned"}
    BY <2>5, <2>10
  <2>15. Turns' /\ Solo'
    BY <2>1, <2>9, <2>10, <2>11, <2>12, <2>13, <2>14, <1>OneTurnKeeps
  <2>16. QED BY <2>10, <2>15 DEF Inv
<1> QED BY <1>LoadCursorStep, <1>PinStep, <1>EnqueueReplyStep

(* The sweepers.                                                           *)
LEMMA SweepingSteps == Inv /\ Ordered(sent) /\ (SweepRead \/ SweepEnqueue \/ Recover) => Inv'
<1>LatestIs.
  ASSUME TypeOK, Frontiers, Ordered(sent)
  PROVE  Latest \in 0 .. MaxMsgs
  <2> USE <1>LatestIs
  <2>1. Waiting \in SUBSET (0 .. sent)
    BY SMT, Numbers DEF Waiting, Open, Live, TypeOK, Seqs, Frontiers
  <2>2. Latest \in Waiting \cup {0}
    BY <2>1, Numbers, NewestIs DEF Latest
  <2>3. QED BY SMT, <2>1, <2>2, Numbers
<1>SweepReadStep. Inv /\ Ordered(sent) /\ SweepRead => Inv'
  <2> SUFFICES ASSUME Inv, Ordered(sent), SweepRead PROVE Inv'
    OBVIOUS
  <2> USE DEF Inv
  <2>1. UNCHANGED <<runtime, chat, jobs, turns, effects, wrote, outbox, sinks>>
    BY DEF SweepRead, turn
  <2>2. PICK reason \in Reasons : sweep' = [trace |-> Latest, gen |-> rtGen, reason |-> reason]
    BY DEF SweepRead, Reasons
  <2>3. sweep' \in SweepType /\ sweep'.gen <= rtGen
    BY SMT, <2>2, <1>LatestIs, Numbers DEF SweepType
  <2>4. JobStep /\ FailuresSent(sent)
    BY <2>1, JobsKept, FailuresKept, Numbers
  <2>5. Winding /\ turns' \in [Ids -> TurnType]
    BY <2>1, TurnsSame
  <2>6. /\ sinks' \in [Reconcilers -> DeliveryType]
        /\ \A q \in Reconcilers : sinks'[q].frontier <= sent
    BY <2>1, SinksSame
  <2>7. UNCHANGED <<runtime, chat, wrote>> /\ effects' \subseteq effects
    BY <2>1
  <2> HIDE DEF Inv
  <2>8. QED BY <2>3, <2>4, <2>5, <2>6, <2>7, RowStep
(* An enqueue for messages already sent, by the sweeper or a recovery.     *)
<1>EnqueueStep.
  ASSUME Inv, Ordered(sent), NEW g \in Nat, g <= rtGen, NEW reason \in Reasons, NEW trace \in 0 .. MaxMsgs,
         CoalesceOrInsert(msgs, g, reason, trace),
         UNCHANGED <<runtime, chat, turn, sinks>>, sweep' \in SweepType, sweep'.gen <= rtGen
  PROVE  Inv'
  <2> USE <1>EnqueueStep
  <2> USE DEF Inv
  <2>1. UNCHANGED <<runtime, chat, turns, effects, wrote, sinks>>
    BY DEF turn
  <2>2. msgs \in [Seqs -> MarkType] /\ \A m \in Seqs : msgs[m] # "absent" => m <= sent
    BY DEF TypeOK, Frontiers
  <2>3. JobStep /\ FailuresSent(sent)
    BY <2>2, Coalesces, Numbers
  <2>4. Winding /\ turns' \in [Ids -> TurnType]
    BY <2>1, TurnsSame
  <2>5. /\ sinks' \in [Reconcilers -> DeliveryType]
        /\ \A q \in Reconcilers : sinks'[q].frontier <= sent
    BY <2>1, SinksSame
  <2>6. UNCHANGED <<runtime, chat, wrote>> /\ effects' \subseteq effects
    BY <2>1
  <2> HIDE DEF Inv
  <2>7. QED BY <2>3, <2>4, <2>5, <2>6, RowStep
<1>SweepEnqueueStep. Inv /\ Ordered(sent) /\ SweepEnqueue => Inv'
  <2> SUFFICES ASSUME Inv, Ordered(sent), SweepEnqueue PROVE Inv'
    OBVIOUS
  <2>1. sweep \in SweepType /\ sweep.gen <= rtGen
    BY DEF Inv, TypeOK, Queue
  <2>2. sweep.gen \in Nat /\ sweep.reason \in Reasons /\ sweep.trace \in 0 .. MaxMsgs
    BY <2>1 DEF SweepType
  <2>3. CoalesceOrInsert(msgs, sweep.gen, sweep.reason, sweep.trace)
    BY DEF SweepEnqueue
  <2>4. UNCHANGED <<runtime, chat, turn, sinks>>
    BY DEF SweepEnqueue
  <2>5. sweep' \in SweepType /\ sweep'.gen <= rtGen
    BY Quiescent, Numbers DEF SweepEnqueue, Inv
  <2>6. QED BY <2>1, <2>2, <2>3, <2>4, <2>5, <1>EnqueueStep
<1>RecoverStep. Inv /\ Ordered(sent) /\ Recover => Inv'
  <2> SUFFICES ASSUME Inv, Ordered(sent), Recover PROVE Inv'
    OBVIOUS
  <2>1. CoalesceOrInsert(msgs, rtGen, "runtime_cutover_recovery", Latest)
    BY DEF Recover
  <2>2. UNCHANGED <<runtime, chat, turn, sinks, sweep>>
    BY DEF Recover
  <2>3. rtGen \in Nat /\ rtGen <= rtGen /\ Latest \in 0 .. MaxMsgs
        /\ "runtime_cutover_recovery" \in Reasons
    BY SMT, Numbers, <1>LatestIs DEF Inv, Reasons
  <2>4. sweep' \in SweepType /\ sweep'.gen <= rtGen
    BY <2>2, SweepSame DEF Inv
  <2>5. QED BY <2>1, <2>2, <2>3, <2>4, <1>EnqueueStep
<1> QED BY <1>SweepReadStep, <1>SweepEnqueueStep, <1>RecoverStep

(* The end of a turn.                                                      *)
LEMMA EndingSteps ==
  \A j \in Ids :
    /\ Inv /\ Ordered(sent)
    /\ FinishEmpty(j) \/ OrderedFollowup(j) \/ SurfaceFailure(j) \/ MarkFailed(j) \/ Crash(j)
    => Inv'
<1>FinishEmptyStep.
  ASSUME NEW j \in Ids, Inv, FinishEmpty(j)
  PROVE  Inv'
  <2> USE <1>FinishEmptyStep
  <2> DEFINE done == [jobs EXCEPT ![j] = Ended(@, "completed")]
  <2>1. /\ turns[j].pc = "pinned" /\ jobs[j].status = "running"
        /\ turns' = [turns EXCEPT ![j] = Over]
        /\ UNCHANGED <<runtime, chat, effects, wrote, outbox, sinks, sweep>>
    BY DEF FinishEmpty, OwnedNow, Owned
  <2>2. FailuresSent(sent)
    BY <2>1, FailuresKept, Numbers DEF Inv
  <2>3. JobStep
    <3>1. CASE jobs' = done
      BY <2>1, <3>1, JobEnds DEF Terminal, Inv
    <3>2. CASE /\ NextId \in Ids
               /\ jobs' = [done EXCEPT ![NextId] = NewJob(rtGen, "coalesced_followup", 0)]
      <4> DEFINE e == Ended(jobs[j], "completed")
                 r == NewJob(rtGen, "coalesced_followup", 0)
      <4>1. jobs[j] \in JobType /\ jobs \in [Ids -> JobType]
        BY DEF Inv, TypeOK
      <4>2. e \in JobType /\ e.status = "completed" /\ e.gen = jobs[j].gen
        BY <4>1, EndedIs DEF Terminal
      <4>3. rtGen \in Nat /\ 0 \in 0 .. MaxMsgs /\ "coalesced_followup" \in Reasons
            /\ rtGen <= rtGen
        BY SMT, Numbers DEF Inv, Reasons
      <4>4. r \in JobType /\ r.status = "pending" /\ r.gen = rtGen
        BY <4>3, NewJobIs
      <4>5. done = [jobs EXCEPT ![j] = e]
        OBVIOUS
      <4> HIDE DEF e
      <4>6. done \in [Ids -> JobType] /\ done[j] = e /\ \A k \in Ids : k # j => done[k] = jobs[k]
        BY <4>1, <4>2, <4>5
      <4> HIDE DEF done, r
      <4>7. \A k \in Ids : done[k] = jobs[k] \/ (done[k].gen = jobs[k].gen
                /\ done[k].status \in Terminal /\ jobs[k].status # "absent")
        BY <2>1, <4>2, <4>6 DEF Terminal
      <4>8. jobs' = [done EXCEPT ![NextId] = r] /\ NextId \in Ids
        BY <3>2 DEF r
      <4>9. QED BY <4>3, <4>4, <4>6, <4>7, <4>8, JobAdded DEF Inv
    <3>3. QED BY <3>1, <3>2 DEF FinishEmpty
  <2>4. QED BY <2>1, <2>2, <2>3, TurnOverStep, Quiescent, Numbers DEF Inv
<1>OrderedFollowupStep.
  ASSUME NEW j \in Ids, Inv, Ordered(sent), OrderedFollowup(j)
  PROVE  Inv'
  <2> USE <1>OrderedFollowupStep
  <2> DEFINE t == [NoTurn EXCEPT !.pc = "ending"]
  <2>1. /\ turns[j].pc = "replied" /\ turns' = [turns EXCEPT ![j] = t]
        /\ UNCHANGED <<runtime, chat, effects, wrote, sinks, sweep>>
    BY DEF OrderedFollowup
  <2>2. t \in TurnType /\ t.pc = "ending" /\ t.target = 0
    BY Quiescent
  <2>3. JobStep /\ FailuresSent(sent)
    <3>1. CASE CoalesceOrInsert(msgs, CurrentGen, "ordered_followup", 0)
      <4>1. msgs \in [Seqs -> MarkType] /\ \A m \in Seqs : msgs[m] # "absent" => m <= sent
        BY DEF TypeOK, Frontiers, Inv
      <4>2. /\ CurrentGen \in Nat /\ CurrentGen <= rtGen /\ 0 \in 0 .. MaxMsgs
            /\ "ordered_followup" \in Reasons
        BY SMT, Numbers DEF CurrentGen, Inv, Reasons
      <4>3. QED BY <3>1, <4>1, <4>2, Coalesces, Numbers DEF Inv
    <3>2. CASE UNCHANGED <<jobs, outbox>>
      BY <3>2, JobsKept, FailuresKept, Numbers DEF Inv
    <3>3. QED BY <3>1, <3>2 DEF OrderedFollowup
  <2> HIDE DEF t
  <2>4. QED BY <2>1, <2>2, <2>3, TurnOverStep, Numbers DEF Inv
<1>SurfaceFailureStep.
  ASSUME NEW j \in Ids, Inv, Ordered(sent), SurfaceFailure(j)
  PROVE  Inv'
  <2> USE <1>SurfaceFailureStep
  <2>1. /\ turns[j].pc = "ending" /\ turns' = [turns EXCEPT ![j] = Over]
        /\ outbox' = QueueFailures(outbox, {j}, msgs)
        /\ UNCHANGED <<runtime, chat, jobs, effects, wrote, sinks, sweep>>
    BY DEF SurfaceFailure
  <2>2. FailuresSent(sent)
    BY <2>1, FailuresQueued, SentMessages DEF Inv
  <2>3. JobStep
    BY <2>1, JobsKept DEF Inv
  <2>4. QED BY <2>1, <2>2, <2>3, TurnOverStep, Quiescent, Numbers DEF Inv
<1>MarkFailedStep.
  ASSUME NEW j \in Ids, Inv, Ordered(sent), MarkFailed(j)
  PROVE  Inv'
  <2> USE <1>MarkFailedStep
  <2>1. /\ turns[j].pc # "none" /\ turns' = [turns EXCEPT ![j] = Over]
        /\ jobs[j].status # "absent" /\ jobs' = [jobs EXCEPT ![j] = Ended(@, "failed")]
        /\ outbox' = QueueFailures(outbox, {j}, msgs)
        /\ UNCHANGED <<runtime, chat, effects, wrote, sinks, sweep>>
    BY DEF MarkFailed, InTurn, Owned
  <2>2. FailuresSent(sent)
    BY <2>1, FailuresQueued, SentMessages DEF Inv
  <2>3. JobStep
    BY <2>1, JobEnds DEF Inv, Terminal
  <2>4. QED BY <2>1, <2>2, <2>3, TurnOverStep, Quiescent, Numbers DEF Inv
<1>CrashStep.
  ASSUME NEW j \in Ids, Inv, Crash(j)
  PROVE  Inv'
  <2> USE <1>CrashStep
  <2> DEFINE t == [NoTurn EXCEPT !.pc = "dead"]
  <2>1. /\ turns[j].pc # "none" /\ turns' = [turns EXCEPT ![j] = t]
        /\ UNCHANGED <<runtime, chat, jobs, effects, wrote, outbox, sinks, sweep>>
    BY DEF Crash, InTurn
  <2>2. t \in TurnType /\ t.pc = "dead" /\ t.target = 0
    BY Quiescent
  <2>3. JobStep /\ FailuresSent(sent)
    BY <2>1, JobsKept, FailuresKept, Numbers DEF Inv
  <2> HIDE DEF t
  <2>4. QED BY <2>1, <2>2, <2>3, TurnOverStep, Numbers DEF Inv
<1> QED BY <1>FinishEmptyStep, <1>OrderedFollowupStep, <1>SurfaceFailureStep, <1>MarkFailedStep, <1>CrashStep

(* Deadlines and the reaper.                                               *)
LEMMA WatchdogSteps ==
  \A j \in Ids : Inv /\ Ordered(sent) /\ (Overdue(j) \/ Reap(j)) => Inv'
<1>OverdueStep.
  ASSUME NEW j \in Ids, Inv, Overdue(j)
  PROVE  Inv'
  <2> USE <1>OverdueStep
  <2> DEFINE o == [jobs[j] EXCEPT !.overdue = TRUE]
  <2>1. jobs' = [jobs EXCEPT ![j] = o] /\ UNCHANGED <<runtime, chat, turn, outbox, sinks, sweep>>
    BY DEF Overdue, Inv, TypeOK
  <2>2. jobs[j] \in JobType /\ jobs \in [Ids -> JobType]
    BY DEF Inv, TypeOK
  <2>3. o \in JobType /\ o.status = jobs[j].status /\ o.gen = jobs[j].gen
    BY <2>2 DEF JobType
  <2> HIDE DEF o
  <2>4. jobs' \in [Ids -> JobType]
        /\ \A k \in Ids : jobs'[k].status = jobs[k].status /\ jobs'[k].gen = jobs[k].gen
    BY <2>1, <2>2, <2>3
  <2>5. Dense'
    BY <2>4 DEF Inv, Queue, Dense
  <2>6. JobStep
    BY <2>4, <2>5 DEF Inv, Queue, JobStep, Running, Unclaimed
  <2>7. FailuresSent(sent)
    BY <2>1, FailuresKept, Numbers DEF Inv
  <2>8. QED BY <2>1, <2>6, <2>7, SideStep, SinksSame DEF Inv
<1>ReapStep.
  ASSUME NEW j \in Ids, Inv, Ordered(sent), Reap(j)
  PROVE  Inv'
  <2> USE <1>ReapStep
  <2>1. /\ jobs[j].status # "absent" /\ jobs' = [jobs EXCEPT ![j] = Ended(@, "expired")]
        /\ outbox' = QueueFailures(outbox, {j}, msgs)
        /\ UNCHANGED <<runtime, chat, turn, sinks, sweep>>
    BY DEF Reap, Active
  <2>2. FailuresSent(sent)
    BY <2>1, FailuresQueued, SentMessages DEF Inv
  <2>3. JobStep
    BY <2>1, JobEnds DEF Inv, Terminal
  <2>4. QED BY <2>1, <2>2, <2>3, SideStep, SinksSame DEF Inv
<1> QED BY <1>OverdueStep, <1>ReapStep

\* The invariant holds of an empty chat.
LEMMA InitInv == Init => Inv
<1> SUFFICES ASSUME Init PROVE Inv
  OBVIOUS
<1>1. MaxMsgs \in Nat /\ MaxJobs \in Nat /\ MaxGen \in Nat \ {0} /\ 0 \in 0 .. MaxMsgs
  BY SMT, BoundsAssumption
<1>2. TypeOK
  <2>1. NoJob \in JobType
    BY <1>1 DEF NoJob, JobType, Reasons
  <2>2. NoTurn \in TurnType
    BY <1>1 DEF NoTurn, TurnType
  <2>3. NoFailure \in FailureType
    BY <1>1 DEF NoFailure, FailureType
  <2>4. QED BY SMT, <1>1, <2>1, <2>2, <2>3, Quiescent DEF Init, TypeOK, MarkType
<1>3. Frontiers
  BY SMT, <1>1, Quiescent DEF Init, Frontiers, NoTurn, NoFailure
<1>4. Queue
  <2>1. \A j \in Ids : jobs[j] = NoJob
    BY DEF Init
  <2>2. Dense
    <3>1. 0 \in 0 .. MaxJobs /\ \A j \in Ids : ~(j <= 0)
      BY SMT, <1>1 DEF Ids
    <3>2. \A j \in Ids : jobs[j].status # "absent" <=> j <= 0
      BY SMT, <2>1, <3>1 DEF NoJob
    <3>3. QED BY <3>1, <3>2 DEF Dense
  <2>3. rtGen = 1
    BY DEF Init
  <2>4. QED BY SMT, <2>1, <2>2, <2>3, Quiescent DEF Init, Queue, Running, NoJob
<1>5. Untouched
  BY DEF Init, Untouched, NoTurn
<1>6. Live(msgs) = {}
  BY DEF Init, Live
<1>7. Open(msgs) = {} /\ Answered(msgs) = {}
  BY <1>6 DEF Open, Answered
<1>8. Answers /\ CursorCoversMarks /\ NothingSkipped
  BY <1>7 DEF Init, Answers, CursorCoversMarks, NothingSkipped
<1>9. \A j \in Ids : ~Running(j) /\ ~Current(j) /\ ~Pinned(j)
  BY DEF Init, Running, Current, Pinned, NoJob, NoTurn
<1>10. Turns /\ Solo /\ MutatesOnce
  BY <1>9 DEF Init, Turns, Solo, MutatesOnce
<1>11. QED BY <1>2, <1>3, <1>4, <1>5, <1>8, <1>10 DEF Inv

\* It is kept by a step that changes nothing.
LEMMA StutterInv == Inv /\ UNCHANGED vars => Inv'
<1> SUFFICES ASSUME Inv, UNCHANGED vars PROVE Inv'
  OBVIOUS
<1>1. UNCHANGED <<runtime, chat, jobs, turn, outbox, sinks, sweep>>
  BY DEF vars
<1>2. JobStep /\ FailuresSent(sent)
  BY <1>1, JobsKept, FailuresKept, Numbers DEF Inv
<1>3. QED BY <1>1, <1>2, SideStep, SinksSame DEF Inv

\* It is kept by every step.
LEMMA NextInv == Inv /\ Ordered(sent) /\ [Next]_vars => Inv'
<1> SUFFICES ASSUME Inv, Ordered(sent), [Next]_vars PROVE Inv'
  OBVIOUS
<1>1. ASSUME NEW j \in Ids, Claim(j) \/ Turn(j) \/ Crash(j) \/ Overdue(j) \/ Reap(j)
      PROVE  Inv'
  BY <1>1, ClaimStep, ReadingSteps, WriteStep, EndingSteps, WatchdogSteps DEF Turn
<1>2. ASSUME NEW r \in Reconcilers, DeliverWrite(r) \/ DeliverAck(r) \/ DeliveryLost(r)
      PROVE  Inv'
  BY <1>2, PublishingSteps
<1>3. ASSUME NEW r \in Reconcilers, NEW j \in Ids, DeliverRead(r, j) PROVE Inv'
  BY <1>3, PublishingSteps
<1>4. ASSUME NEW j \in Ids, NEW m \in Seqs, ApplyReply(j, m) PROVE Inv'
  BY <1>4, PublishingSteps
<1>5. ASSUME NEW m \in Seqs, ResidentReply(m) PROVE Inv'
  BY <1>5, OwnerSteps
<1>6. ASSUME NEW target \in {"resident", "v2"}, Cutover(target) PROVE Inv'
  BY <1>6, OwnerSteps
<1>7. ASSUME Send \/ Append \/ SweepRead \/ SweepEnqueue \/ Recover \/ ChatClear PROVE Inv'
  BY <1>7, SendingSteps, SweepingSteps, OwnerSteps
<1>8. QED BY <1>1, <1>2, <1>3, <1>4, <1>5, <1>6, <1>7, StutterInv DEF Next

(* The invariant holds of every reachable state.                           *)
THEOREM Invariance == Spec => []Inv
<1>1. Init => Ordered(sent) /\ sent \in Nat
  <2> SUFFICES ASSUME Init, NEW S \in SUBSET (0 .. 0), S # {}
               PROVE  /\ \E x \in S : \A y \in S : y <= x
                      /\ \E x \in S : \A y \in S : x <= y
    BY SMT DEF Init, Ordered
  <2>1. \A y \in S : y = 0 /\ y <= 0
    BY SMT
  <2>2. PICK x \in S : x = 0
    BY <2>1
  <2>3. QED BY <2>1, <2>2
<1>2. Ordered(sent) /\ sent \in Nat /\ [Next]_vars => (Ordered(sent) /\ sent \in Nat)'
  <2> SUFFICES ASSUME Ordered(sent), sent \in Nat, [Next]_vars
               PROVE  Ordered(sent') /\ sent' \in Nat
    BY DEF Ordered
  <2>1. sent' \in {sent, sent + 1}
    BY DEF Next, Turn, vars, runtime, chat, turn, Send, Append, SweepRead, SweepEnqueue, Recover,
       ChatClear, Claim, LoadCursor, Pin, FinishEmpty, Write, EnqueueReply, OrderedFollowup,
       SurfaceFailure, MarkFailed, Crash, Overdue, Reap, DeliverWrite, AppendWithCursor,
       DeliverAck, DeliveryLost, DeliverRead, ApplyReply, ResidentReply, Cutover
  <2>2. QED BY SMT, <2>1, OrderedGrows
<1>3. QED BY <1>1, <1>2, InitInv, NextInv, PTL DEF Spec

(* Every column keeps its type, whatever the workers, sweepers,            *)
(* reconcilers and cutovers do.                                            *)
THEOREM TypeCorrect == Spec => []TypeOK
<1>1. Inv => TypeOK
  BY DEF Inv
<1>2. QED BY <1>1, Invariance, PTL

(* No message gets two real replies.  A turn publishes only while its job  *)
(* runs in the generation that owns the user (apply_pending_effects), what *)
(* it answers then lies beyond the cursor or carries a failure mark, and   *)
(* neither is true of a message with a reply; the resident runtime answers *)
(* open messages only.                                                     *)
THEOREM RepliesOnce == Spec => []AnsweredOnce
<1>1. Inv => AnsweredOnce
  BY DEF Inv, Answers, AnsweredOnce, Replies, Real
<1>2. QED BY <1>1, Invariance, PTL

(* A message with a real reply is never left marked as failed: the notice  *)
(* marks open messages only, and a late reply replaces the notice's mark   *)
(* (chat_append_effect_with_cursor).                                       *)
THEOREM ReplyOutranksNotice == Spec => []RealReplyWins
<1>1. Inv => RealReplyWins
  BY DEF Inv, Answers, Real, RealReplyWins, Replies
<1>2. QED BY <1>1, Invariance, PTL

(* The remote mutations for one input come from one turn: a later turn     *)
(* either finds the record beyond the cursor it loaded, and is offered no  *)
(* mutating tool, or pins a later message, and the older turn no longer    *)
(* runs (get_chat_mutation_recovery_barrier).                              *)
THEOREM OneTurnMutates == Spec => []MutatesOnce
<1>1. Inv => MutatesOnce
  BY DEF Inv
<1>2. QED BY <1>1, Invariance, PTL

(* The cursor passes an open message only by adopting a later reply of the *)
(* resident runtime (patch_blob_strict).                                   *)
THEOREM CursorSkipsNothing == Spec => []NothingSkipped
<1>1. Inv => NothingSkipped
  BY DEF Inv
<1>2. QED BY <1>1, Invariance, PTL

(* Under V2 no answered message lies beyond the reply cursor, so the       *)
(* "already answered by another runtime" abort of                          *)
(* chat_append_effect_with_cursor never refuses a turn's reply.            *)
THEOREM CursorIsAhead == Spec => []CursorCoversMarks
<1>1. Inv => CursorCoversMarks
  BY DEF Inv
<1>2. QED BY <1>1, Invariance, PTL

(* No real reply outlives or follows Chat Clear on the message it answers: *)
(* chat_clear moves the generation a turn must publish in.  A failure      *)
(* notice can (see ClearIsFinal).                                          *)
RepliesStayCleared == \A b \in bubbles : b.kind # "failure" => msgs[b.parent] # "cleared"

(* chat_clear and the generation fence of apply_pending_effects: a reply   *)
(* never stands on a cleared message.                                      *)
THEOREM ClearEndsReplies == Spec => []RepliesStayCleared
<1>1. Inv => RepliesStayCleared
  BY DEF Inv, Answers, Real, RepliesStayCleared
<1>2. QED BY <1>1, Invariance, PTL

=============================================================================
