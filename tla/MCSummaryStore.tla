--------------------------- MODULE MCSummaryStore ---------------------------
(***************************************************************************)
(* Instances of SummaryStore for TLC, explored side by side: the variable  *)
(* scene says which one a behaviour is about.                              *)
(*   deletes   verify pings, hang-ups, aborted inserts and Clear around    *)
(*             the writers                                                 *)
(*   writers   leaves of one row and a cover of one segment, so that every *)
(*             leaf is rolled up, with Clear and writes that arrive late   *)
(*   legacy    a head from before segmentation                             *)
(*   oversized the same, too long and from before all but its last row     *)
(*   drains    fair workers, a crash or a write that arrives late          *)
(*   settles   fair workers, no fault (the constants of the configuration) *)
(***************************************************************************)
EXTENDS SummaryStore

VARIABLE scene

ChatTurn == {"chat"}
NoFaults == {}

Deletes == INSTANCE SummaryStore WITH
    TailKeep <- 1, Faults <- {"verify", "hangup", "clear", "abort"}
Writers == INSTANCE SummaryStore WITH
    MaxSeq <- 4, MaxSegments <- 1, BacklogMin <- 1,
    Faults <- {"clear", "timeout"}, MaxFaults <- 1
Older == INSTANCE SummaryStore WITH
    MaxSeq <- 4, LegacyRows <- 2, TailKeep <- 1, Batch <- 2, MaxPasses <- 2,
    Faults <- {"clear", "timeout", "hangup"}, MaxFaults <- 1
Longer == INSTANCE SummaryStore WITH
    LegacyRows <- 1, Oversized <- TRUE, Faults <- {"clear"}, MaxFaults <- 1
Drains == INSTANCE SummaryStore WITH
    TailKeep <- 1, Faults <- {"crash", "timeout"}, MaxFaults <- 1

MCVars == <<scene, vars>>

MCInit ==
    \/ scene = "deletes" /\ Deletes!Init
    \/ scene = "writers" /\ Writers!Init
    \/ scene = "legacy" /\ Older!Init
    \/ scene = "oversized" /\ Longer!Init
    \/ scene = "drains" /\ Drains!Init
    \/ scene = "settles" /\ Init

MCNext ==
    /\ UNCHANGED scene
    /\ \/ scene = "deletes" /\ Deletes!Next
       \/ scene = "writers" /\ Writers!Next
       \/ scene = "legacy" /\ Older!Next
       \/ scene = "oversized" /\ Longer!Next
       \/ scene = "drains" /\ Drains!Next
       \/ scene = "settles" /\ Next

Either(A, B) == (scene = "drains" /\ A) \/ (scene = "settles" /\ B)

\* The fairness of FairSpec in the two scenes with a liveness property.
MCFairness ==
    /\ WF_vars(Either(\E r \in open : Drains!CommitRow(r),
                      \E r \in open : CommitRow(r)))
    /\ WF_vars(Either(Drains!BacklogScan, BacklogScan))
    /\ WF_vars(Either(Drains!StartMaintenance, StartMaintenance))
    /\ \A w \in Workers :
         WF_vars(Either(Drains!WorkerStep(w), WorkerStep(w)))

MCSpec == MCInit /\ [][MCNext]_MCVars /\ MCFairness

-----------------------------------------------------------------------------
\* Once rows stop arriving, the scan and the chain of maintenance jobs cover the
\* backlog, in spite of a crash or of a write that arrives late; without faults,
\* the cover is rolled up until choose_rollup_candidate finds nothing.
SummarySettles ==
    /\ <>[](scene = "drains" =>
               Cardinality(Uncovered(Translated(head), 0)) < BacklogMin)
    /\ <>[](scene = "settles" => Candidate(Canonical(segs, head.wm)) = {})
=============================================================================
