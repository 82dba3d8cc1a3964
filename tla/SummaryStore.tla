---------------------------- MODULE SummaryStore ----------------------------
(***************************************************************************)
(* The conversation summary of one Runtime V2 user: the transcript table   *)
(* chat_messages, the head row v2_conversation_summary (a version and a    *)
(* watermark), the immutable segments of v2_conversation_summary_segments, *)
(* and everything that writes them at the same time.                       *)
(*                                                                         *)
(* A compaction appends level-0 leaves that cover the oldest uncovered     *)
(* rows and then rolls runs of the canonical cover up into checkpoints.    *)
(* The maintenance job and the turns that catch up before a prompt do so   *)
(* concurrently, from snapshots read outside the transaction that uses     *)
(* them; a call given up at a deadline leaves its database thread behind,  *)
(* which may still commit (stray).  Meanwhile rows arrive, the voice and   *)
(* verify clean-ups delete rows, and Chat Clear deletes everything.        *)
(*                                                                         *)
(* A row is its seq; timestamps follow the seqs.  Segment ids are replaced *)
(* by the segments themselves, which their unique key (level, start, end)  *)
(* determines.  The text of a summary is left out.                         *)
(***************************************************************************)
EXTENDS Integers, FiniteSets, FiniteSetsExt

CONSTANTS Turns,         \* the turns that may catch up: "chat", "wake"
          MaxSeq,        \* bound on the rows ever inserted
          LegacyRows,    \* rows covered by a head from before segmentation
          TailKeep,      \* rows a maintenance job leaves uncovered
          TailLimit,     \* rows a prompt's tail holds
          Batch,         \* rows of one leaf
          Fanout, MaxSegments,
          MaxPasses, MaxRetries,
          BacklogMin,    \* uncovered rows at which the scan adds a job
          Oversized,     \* whether the text of an old summary is too long
          Faults, MaxFaults

ASSUME SummaryAssumption ==
    /\ {MaxSeq, LegacyRows, TailKeep, TailLimit, MaxFaults} \subseteq Nat
    /\ {Batch, MaxSegments, MaxPasses, MaxRetries, BacklogMin} \subseteq Nat \ {0}
    /\ Fanout \in Nat \ {0, 1}
    /\ LegacyRows <= MaxSeq
    /\ Oversized \in BOOLEAN

VARIABLES
    chat,      \* seqs of the rows that count for coverage
    probes,    \* seqs of the verify_ping rows, which never do
    lastSeq,   \* the identity column
    open,      \* rows inserted by transactions still open
    head,      \* the row of v2_conversation_summary
    segs,      \* the rows of v2_conversation_summary_segments
    job,       \* the maintenance job
    wk,        \* the workers
    stray,     \* writes whose caller gave up waiting
    hangup,    \* rows a voice clean-up has found
    left       \* faults still to come

vars == <<chat, probes, lastSeq, open, head, segs, job, wk, stray, hangup, left>>
rowVars == <<chat, probes, lastSeq, open, hangup>>

Workers == Turns \union {"maintenance"}

-----------------------------------------------------------------------------
(* The stored data.                                                        *)

Segment == [kind : {"exact", "legacy_opaque"}, level : Nat, lo : Nat, hi : Nat,
            n : Nat, opaque : Nat]

\* Version 0 stands for the absent row; ts is watermark_ts as the seq of the
\* row that carries it.
NoHead == [ver |-> 0, wm |-> 0, ts |-> 0, ids |-> {}]

Legacy(end) == [kind |-> "legacy_opaque", level |-> 0, lo |-> 0, hi |-> end,
                n |-> 0, opaque |-> end]

Leaf(S) == [kind |-> "exact", level |-> 0, lo |-> Min(S), hi |-> Max(S),
            n |-> Cardinality(S), opaque |-> 0]

\* The cover is what no higher segment contains, up to the watermark.
Canonical(S, w) ==
    LET eligible == {s \in S : s.hi <= w} IN
    {c \in eligible :
        ~ \E p \in eligible : p.level > c.level /\ p.lo <= c.lo /\ p.hi >= c.hi}

MaxOr0(S) == Max(S \union {0})

\* A head from before watermark_seq only has a timestamp.
Translated(h) ==
    IF h.wm = 0 /\ h.ts > 0 /\ h.ids = {}
    THEN MaxOr0({s \in chat \union probes : s < h.ts})
    ELSE h.wm

Uncovered(wm, through) ==
    {s \in chat : s > wm /\ (through = 0 \/ s <= through)}

Total(F) == MapThenSumSet(LAMBDA s : s.n, F)

Kinds(F) == {s \in F : s.kind = "legacy_opaque"}

Disjoint(s, t) == s.hi < t.lo \/ t.hi < s.lo

\* What validate_canonical_frontier asks of the positions of the segments, on
\* the snapshot of get_summary_frontier_state, and the comparison with the ids
\* the head was written with.
WellPlaced(h, S) ==
    LET F == Canonical(S, h.wm)
        source == {r \in chat : r <= h.wm}
    IN  /\ \A s, t \in Kinds(F) : s = t
        /\ \A s \in Kinds(F) : s.lo = 0
        /\ h.wm = 0 => F = Kinds(F) /\ \A s \in F : s.hi = 0 /\ s.opaque = 0
        /\ h.wm > 0 =>
            /\ F # {}
            /\ Kinds(F) = {} => source # {} /\ Min({s.lo : s \in F}) = Min(source)
            /\ Max({s.hi : s \in F}) = h.wm
            /\ \A s, t \in F : s = t \/ Disjoint(s, t)
        /\ F = h.ids

\* Its third witness: the rows counted by the segments are those there are.
Valid(h, S) ==
    LET F == Canonical(S, h.wm)
        through == MaxOr0({s.opaque : s \in Kinds(F)})
    IN  /\ WellPlaced(h, S)
        /\ Total(F) = Cardinality({r \in chat : r > through /\ r <= h.wm})

Eldest(F) == CHOOSE s \in F : \A t \in F : s.lo <= t.lo

\* The Fanout segments from s on, or as many as there are.
RunFrom(F, s) ==
    {t \in F : /\ s.lo <= t.lo
               /\ Cardinality({u \in F : s.lo <= u.lo /\ u.lo < t.lo}) < Fanout}

\* choose_rollup_candidate: an old summary whose text is too long on its own,
\* else the oldest complete run of one level, else the oldest prefix of a cover
\* that has grown too long.
Candidate(F) ==
    LET long == {s \in Kinds(F) : Oversized /\ s.level = 0}
        runs == {s \in F : /\ Cardinality(RunFrom(F, s)) = Fanout
                           /\ \A t \in RunFrom(F, s) : t.level = s.level}
    IN  IF long # {} THEN long
        ELSE IF runs # {} THEN RunFrom(F, Eldest(runs))
        ELSE IF Cardinality(F) > MaxSegments THEN RunFrom(F, Eldest(F))
        ELSE {}

Parent(C) ==
    [kind |-> IF Kinds(C) = {} THEN "exact" ELSE "legacy_opaque",
     level |-> Max({s.level : s \in C}) + 1,
     lo |-> Min({s.lo : s \in C}), hi |-> Max({s.hi : s \in C}),
     n |-> Total(C), opaque |-> Max({s.opaque : s \in C})]

NoSegment == [kind |-> "exact", level |-> 0, lo |-> 0, hi |-> 0, n |-> 0,
              opaque |-> 0]
NoWrite == [kind |-> "none", ver |-> 0, wm |-> 0, seg |-> NoSegment, kids |-> {}]

Idle == [pc |-> "idle", ver |-> 0, wm |-> 0, n |-> 0, through |-> 0, last |-> 0,
         tried |-> FALSE, retries |-> 0, passes |-> 0, stuck |-> 0, own |-> FALSE,
         req |-> NoWrite]

Init ==
    /\ chat = 1..LegacyRows
    /\ probes = {}
    /\ lastSeq = LegacyRows
    /\ open = {}
    /\ head = IF LegacyRows = 0 THEN NoHead
              ELSE [ver |-> 1, wm |-> 0, ts |-> LegacyRows, ids |-> {}]
    /\ segs = {}
    /\ job = "none"
    /\ wk = [w \in Workers |-> Idle]
    /\ stray = {}
    /\ hangup = {}
    /\ left = MaxFaults

Charge(f) == f \in Faults /\ left > 0 /\ left' = left - 1

-----------------------------------------------------------------------------
(* The transcript.  Every insert holds the shared chat fence and the       *)
(* user's chat_r2_lifecycle row from before it draws its seq until it      *)
(* commits; the deletions take the same row, and the voice clean-up and    *)
(* Chat Clear take the fence exclusively.                                  *)

InsertRow(probe) ==
    /\ open = {}
    /\ IF probe THEN Charge("verify") ELSE UNCHANGED left
    /\ lastSeq < MaxSeq
    /\ lastSeq' = lastSeq + 1
    /\ open' = {[seq |-> lastSeq + 1, probe |-> probe]}
    /\ UNCHANGED <<chat, probes, hangup, head, segs, job, wk, stray>>

CommitRow(r) ==
    /\ r \in open
    /\ open' = open \ {r}
    /\ IF r.probe
       THEN probes' = probes \union {r.seq} /\ UNCHANGED chat
       ELSE chat' = chat \union {r.seq} /\ UNCHANGED probes
    /\ UNCHANGED <<lastSeq, hangup, head, segs, job, wk, stray, left>>

\* The transaction rolls back; its seq is lost.
AbortRow(r) ==
    /\ r \in open
    /\ Charge("abort")
    /\ open' = open \ {r}
    /\ UNCHANGED <<chat, probes, lastSeq, hangup, head, segs, job, wk, stray>>

\* verify_loop removes its ping and the answer to it.
DeleteProbe(s) ==
    /\ open = {}
    /\ s \in probes
    /\ probes' = probes \ {s}
    /\ UNCHANGED <<chat, lastSeq, open, hangup, head, segs, job, wk, stray, left>>

\* A hang-up lists the rows of its call ...
FindCallRows(s) ==
    /\ s \in chat
    /\ hangup = {}
    /\ Charge("hangup")
    /\ hangup' = {s}
    /\ UNCHANGED <<chat, probes, lastSeq, open, head, segs, job, wk, stray>>

\* Mutant: a head that only has a timestamp covers nothing.
CoveredBySeq == head.wm

CoveredForDelete ==
    Max({head.wm, MaxOr0({s \in chat \union probes : s <= head.ts})})

\* ... and deletes those the summary has not covered by now.
DeleteCallRows ==
    /\ hangup # {}
    /\ open = {}
    /\ chat' = chat \ {s \in hangup : s > CoveredForDelete}
    /\ hangup' = {}
    /\ UNCHANGED <<probes, lastSeq, open, head, segs, job, wk, stray, left>>

\* chat_clear also fails the active jobs and moves the generation, so every
\* worker that holds one has lost it.
Clear ==
    /\ open = {}
    /\ Charge("clear")
    /\ chat' = {}
    /\ probes' = {}
    /\ head' = NoHead
    /\ segs' = {}
    /\ job' = "none"
    /\ wk' = [w \in Workers |-> [wk[w] EXCEPT !.own = FALSE]]
    /\ UNCHANGED <<lastSeq, open, hangup, stray>>

-----------------------------------------------------------------------------
(* The three writers of jobs_store.  Each is one transaction with the head *)
(* locked, and answers FALSE without writing when its snapshot is stale.   *)

\* append_summary_leaf_cas
LeafFits(q) ==
    /\ IF head.ver = 0 THEN q.ver = 0 /\ q.wm = 0
       ELSE head.ver = q.ver /\ head.wm \in {0, q.wm}
    /\ LET source == {s \in chat : s > q.wm /\ s <= q.seg.hi} IN
       source # {} /\ Leaf(source) = q.seg

\* Mutant: the first leaf does not bring the legacy summary along.
LeafLandsAlone(q) ==
    /\ segs' = segs \union {q.seg}
    /\ head' = [ver |-> head.ver + 1, wm |-> q.seg.hi, ts |-> head.ts,
                ids |-> Canonical(segs \union {q.seg}, q.seg.hi)]

LeafLands(q) ==
    LET old == IF segs = {} /\ head.ver > 0
               THEN {Legacy(IF q.wm > 0 THEN q.wm ELSE q.seg.lo - 1)}
               ELSE segs
        new == old \union {q.seg}
    IN  /\ segs' = new
        /\ head' = [ver |-> head.ver + 1, wm |-> q.seg.hi, ts |-> head.ts,
                    ids |-> Canonical(new, q.seg.hi)]

\* insert_summary_checkpoint
CheckpointFits(q) ==
    LET cover == Canonical(segs, q.wm) IN
    /\ head.ver = q.ver /\ head.wm = q.wm
    /\ q.wm >= q.seg.hi
    /\ cover = head.ids
    /\ q.kids \subseteq segs
    /\ Parent(q.kids) = q.seg
    /\ \A s, t \in q.kids : s = t \/ Disjoint(s, t)
    /\ {s \in cover : s.lo >= q.seg.lo /\ s.hi <= q.seg.hi} = q.kids
    /\ q.seg \notin segs

CheckpointLands(q) ==
    /\ segs' = segs \union {q.seg}
    /\ head' = [head EXCEPT !.ver = @ + 1,
                            !.ids = Canonical(segs \union {q.seg}, head.wm)]

Fits(q) == IF q.kind = "leaf" THEN LeafFits(q) ELSE CheckpointFits(q)
Lands(q) == IF q.kind = "leaf" THEN LeafLands(q) ELSE CheckpointLands(q)

-----------------------------------------------------------------------------
(* The workers: _run_compaction of the maintenance job, and               *)
(* _ensure_prompt_coverage of a turn.                                      *)

At(w, pc) == wk[w].pc = pc
Become(w, r) == wk' = [wk EXCEPT ![w] = r]

\* enqueue_job coalesces with the user's live maintenance job.
Enqueued(j) == IF j = "none" THEN "pending" ELSE j

\* Mutant: the threshold itself is not a backlog.
BacklogScanAbove ==
    /\ job = "none"
    /\ Cardinality(Uncovered(head.wm, 0)) > BacklogMin
    /\ job' = "pending"
    /\ UNCHANGED <<rowVars, head, segs, wk, stray, left>>

\* due_compaction_users, called by _backlog_scan_loop
BacklogScan ==
    /\ job = "none"
    /\ Cardinality(Uncovered(head.wm, 0)) >= BacklogMin
    /\ job' = "pending"
    /\ UNCHANGED <<rowVars, head, segs, wk, stray, left>>

\* get_summary_row
StartMaintenance ==
    /\ At("maintenance", "idle")
    /\ job = "pending"
    /\ job' = "running"
    /\ Become("maintenance", [Idle EXCEPT !.pc = "count", !.own = TRUE,
                              !.ver = head.ver, !.wm = Translated(head)])
    /\ UNCHANGED <<rowVars, head, segs, stray, left>>

\* A turn covers what its tail cannot hold, or everything through the
\* snapshot it answers.
StartTurn(w, through) ==
    /\ w \in Turns
    /\ At(w, "idle")
    /\ Become(w, [Idle EXCEPT !.pc = "head", !.own = TRUE, !.through = through])
    /\ UNCHANGED <<rowVars, head, segs, job, stray, left>>

\* The end of a worker: what is left for the maintenance job.
Finish(w, next) ==
    /\ Become(w, Idle)
    /\ job' = IF w = "maintenance"
              THEN (IF wk[w].own THEN next ELSE job)
              ELSE (IF next = "pending" THEN Enqueued(job) ELSE job)

TurnReadsHead(w) ==
    LET me == wk[w]
        wm == Translated(head)
        retries == IF wm > me.last THEN 0
                   ELSE IF me.tried THEN me.retries + 1 ELSE me.retries
    IN  /\ At(w, "head")
        /\ IF retries >= MaxRetries THEN Finish(w, "pending")
           ELSE /\ Become(w, [me EXCEPT !.pc = "count", !.ver = head.ver, !.wm = wm,
                              !.last = wm, !.tried = FALSE, !.retries = retries])
                /\ UNCHANGED job
        /\ UNCHANGED <<rowVars, head, segs, stray, left>>

\* _unsummarized_count
CountRows(w) ==
    LET me == wk[w]
        n == Cardinality(Uncovered(me.wm, me.through))
        keep == IF w = "maintenance" THEN TailKeep
                ELSE IF me.through = 0 THEN TailLimit ELSE 0
    IN  /\ At(w, "count")
        /\ IF n <= keep THEN Finish(w, "none")
           ELSE /\ Become(w, [me EXCEPT !.pc = "bounds", !.n = Min({Batch, n - keep})])
                /\ UNCHANGED job
        /\ UNCHANGED <<rowVars, head, segs, stray, left>>

Oldest(S, n) == {s \in S : Cardinality({t \in S : t < s}) < n}

\* chat_coverage_bounds_after_seq, then the renewal of the job's lease
ReadBounds(w) ==
    LET me == wk[w]
        rows == Oldest(Uncovered(me.wm, me.through), me.n)
    IN  /\ At(w, "bounds")
        /\ IF Cardinality(rows) # me.n
           THEN Finish(w, IF w = "maintenance" THEN "none" ELSE "pending")
           ELSE IF ~me.own THEN Finish(w, "none")
           ELSE /\ Become(w, [me EXCEPT !.pc = "append", !.n = 0, !.tried = TRUE,
                        !.req = [kind |-> "leaf", ver |-> me.ver, wm |-> me.wm,
                                 seg |-> Leaf(rows), kids |-> {}]])
                /\ UNCHANGED job
        /\ UNCHANGED <<rowVars, head, segs, stray, left>>

\* A leaf that lands is followed by the roll-up; a maintenance job whose leaf
\* did not land fails and is enqueued anew, a turn looks again.
AppendLeaf(w) ==
    LET me == wk[w] IN
    /\ At(w, "append")
    /\ IF LeafFits(me.req)
       THEN /\ LeafLands(me.req)
            /\ Become(w, [me EXCEPT !.pc = "frontier", !.wm = me.req.seg.hi,
                          !.ver = 0, !.req = NoWrite])
            /\ UNCHANGED job
       ELSE /\ UNCHANGED <<head, segs>>
            /\ IF w = "maintenance" THEN Finish(w, "pending")
               ELSE Become(w, [me EXCEPT !.pc = "head", !.req = NoWrite])
                    /\ UNCHANGED job
    /\ UNCHANGED <<rowVars, stray, left>>

\* A turn whose summary text is over its target only rolls up
\* (_bound_materialized_summary); it has not tried a leaf.
StartBounding(w) ==
    /\ w \in Turns
    /\ At(w, "idle")
    /\ head.ver > 0
    /\ Become(w, [Idle EXCEPT !.pc = "frontier", !.own = TRUE])
    /\ UNCHANGED <<rowVars, head, segs, job, stray, left>>

\* The roll-up is over: a maintenance job goes on with a new one while more
\* than the tail is uncovered, a turn that catches up looks again.
AfterRollup(w) ==
    LET me == wk[w] IN
    IF w = "maintenance"
    THEN Finish(w, IF Cardinality(Uncovered(me.wm, 0)) > TailKeep
                   THEN "pending" ELSE "none")
    ELSE IF ~me.tried THEN Finish(w, "none")
    ELSE /\ Become(w, [me EXCEPT !.pc = "head", !.req = NoWrite, !.passes = 0,
                                 !.stuck = 0])
         /\ UNCHANGED job

\* _read_summary_frontier_metadata.  A head without segments is seeded first;
\* a corrupt cover ends the worker, a bounded one the roll-up.  The renewal of
\* the lease follows the choice of the run.
ReadFrontier(w) ==
    LET me == wk[w]
        C == Candidate(Canonical(segs, head.wm))
    IN  /\ At(w, "frontier")
        /\ IF head.ver > 0 /\ segs = {}
           THEN /\ Become(w, [me EXCEPT !.pc = "seed",
                        !.req = [NoWrite EXCEPT !.ver = head.ver, !.wm = Translated(head)]])
                /\ UNCHANGED job
           ELSE IF head.ver > 0 /\ ~Valid(head, segs) THEN Finish(w, "none")
           ELSE IF head.ver = 0 \/ C = {} \/ me.passes >= MaxPasses THEN AfterRollup(w)
           ELSE IF ~me.own THEN Finish(w, "none")
           ELSE /\ Become(w, [me EXCEPT !.pc = "checkpoint",
                        !.req = [kind |-> "checkpoint", ver |-> head.ver,
                                 wm |-> head.wm, seg |-> Parent(C), kids |-> C]])
                /\ UNCHANGED job
        /\ UNCHANGED <<rowVars, head, segs, stray, left>>

\* seed_legacy_summary_segment: a seed that finds segments is done if the head
\* has moved since; one that can neither write nor rely on another's fails.
SeedLegacy(w) ==
    LET me == wk[w]
        fits == head.ver = me.req.ver /\ head.ids = {} /\ head.wm \in {0, me.req.wm}
    IN  /\ At(w, "seed")
        /\ IF segs = {} /\ head.ver > 0 /\ fits
           THEN /\ segs' = {Legacy(me.req.wm)}
                /\ head' = [head EXCEPT !.ver = @ + 1, !.wm = me.req.wm,
                                        !.ids = {Legacy(me.req.wm)}]
           ELSE UNCHANGED <<head, segs>>
        /\ IF \/ segs = {} /\ head.ver > 0 /\ fits
              \/ segs # {} /\ head.ids # {} /\ head.ver > me.req.ver
           THEN /\ Become(w, [me EXCEPT !.pc = "frontier", !.req = NoWrite])
                /\ UNCHANGED job
           ELSE Finish(w, "none")
        /\ UNCHANGED <<rowVars, stray, left>>

\* _append_summary_checkpoint; three passes without progress end the roll-up.
AppendCheckpoint(w) ==
    LET me == wk[w]
        again == [me EXCEPT !.pc = "frontier", !.passes = @ + 1, !.req = NoWrite]
    IN  /\ At(w, "checkpoint")
        /\ IF CheckpointFits(me.req)
           THEN /\ CheckpointLands(me.req)
                /\ Become(w, [again EXCEPT !.stuck = 0])
                /\ UNCHANGED job
           ELSE /\ UNCHANGED <<head, segs>>
                /\ IF me.stuck + 1 >= 3 THEN AfterRollup(w)
                   ELSE Become(w, [again EXCEPT !.stuck = @ + 1]) /\ UNCHANGED job
        /\ UNCHANGED <<rowVars, stray, left>>

\* A deadline passes while a write is under way.  The thread stays behind; a
\* turn's leaf degrades the turn, a checkpoint ends the roll-up.
GiveUp(w) ==
    LET me == wk[w] IN
    /\ Charge("timeout")
    /\ \/ At(w, "append") /\ w \in Turns /\ Finish(w, "pending")
       \/ At(w, "checkpoint") /\ AfterRollup(w)
    /\ stray' = stray \union {me.req}
    /\ UNCHANGED <<rowVars, head, segs>>

StrayLands(q) ==
    /\ q \in stray
    /\ stray' = stray \ {q}
    /\ IF Fits(q) THEN Lands(q) ELSE UNCHANGED <<head, segs>>
    /\ UNCHANGED <<rowVars, job, wk, left>>

\* The process dies; the job is claimed again once its lease has expired.
Crash(w) ==
    /\ ~At(w, "idle")
    /\ Charge("crash")
    /\ Become(w, Idle)
    /\ job' = IF w = "maintenance" /\ wk[w].own THEN "pending" ELSE job
    /\ UNCHANGED <<rowVars, head, segs, stray>>

WorkerStep(w) ==
    \/ TurnReadsHead(w) \/ CountRows(w) \/ ReadBounds(w) \/ AppendLeaf(w)
    \/ ReadFrontier(w) \/ SeedLegacy(w) \/ AppendCheckpoint(w)

Next ==
    \/ \E probe \in BOOLEAN : InsertRow(probe)
    \/ \E r \in open : CommitRow(r) \/ AbortRow(r)
    \/ \E s \in probes : DeleteProbe(s)
    \/ \E s \in chat : FindCallRows(s)
    \/ DeleteCallRows
    \/ Clear
    \/ BacklogScan
    \/ StartMaintenance
    \/ \E w \in Turns : StartBounding(w) \/ (\E t \in {0, lastSeq} : StartTurn(w, t))
    \/ \E w \in Workers : WorkerStep(w) \/ GiveUp(w) \/ Crash(w)
    \/ \E q \in stray : StrayLands(q)

Spec == Init /\ [][Next]_vars

Fairness ==
    /\ WF_vars(\E r \in open : CommitRow(r))
    /\ WF_vars(BacklogScan)
    /\ WF_vars(StartMaintenance)
    /\ \A w \in Workers : WF_vars(WorkerStep(w))

FairSpec == Spec /\ Fairness

-----------------------------------------------------------------------------
(* Properties.                                                             *)

TypeOK ==
    /\ chat \subseteq 1..MaxSeq /\ probes \subseteq 1..MaxSeq
    /\ hangup \subseteq 1..MaxSeq
    /\ lastSeq \in 0..MaxSeq
    /\ open \subseteq [seq : 1..MaxSeq, probe : BOOLEAN]
    /\ head \in [ver : Nat, wm : 0..MaxSeq, ts : 0..MaxSeq, ids : SUBSET segs]
    /\ segs \subseteq Segment
    /\ job \in {"none", "pending", "running"}
    /\ \A w \in Workers :
        wk[w].pc \in {"idle", "head", "count", "bounds", "append", "frontier",
                      "seed", "checkpoint"}
    /\ left \in 0..MaxFaults

Segmented == head.ver > 0 /\ segs # {}

(* Whatever the writers do to each other, the segments the prompt is       *)
(* rendered from are the canonical cover, in place and without overlap, and *)
(* every row up to the watermark lies in one of them: nothing is told twice *)
(* and nothing is left out.                                                *)
CoverIsWhole ==
    Segmented =>
        /\ WellPlaced(head, segs)
        /\ \A r \in chat : r <= head.wm =>
              \E s \in head.ids : s.lo <= r /\ r <= s.hi

(* The cover a turn reads is whole and validate_canonical_frontier accepts *)
(* it in every state.  When it does not, every later turn of the user      *)
(* fails with v2_summary_frontier_integrity_error.                         *)
FrontierValid == CoverIsWhole /\ (Segmented => Valid(head, segs))

\* The rows the summary stands for.
CoveredRows == {s \in chat : s <= Translated(head)}

Abstract == INSTANCE CoveredPrefix WITH rows <- chat, covered <- CoveredRows

(* The store implements a transcript with a covered prefix: rows arrive    *)
(* behind it, only rows behind it are deleted, it grows by whole prefixes  *)
(* and goes only when Chat Clear takes the transcript with it; roll-ups    *)
(* and seeds change nothing.                                               *)
KeepsCoveredPrefix == Abstract!Spec
=============================================================================
