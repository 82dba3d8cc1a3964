---------------------------- MODULE MCOutboxes ----------------------------
(***************************************************************************)
(* Instances of EffectSinks and FailureSinks for TLC, explored side by     *)
(* side: the variable scene says which outbox, and which instance of it, a *)
(* behaviour is about; the other outbox stays as it is.                    *)
(*   fenced  two single writes, cutovers and a dying applier (the          *)
(*           constants of the configuration)                               *)
(*   batch   one workspace batch, and an outer connection that is lost     *)
(*   drain   the two single writes under a fair applier                    *)
(*   chips   two failed chat turns and a user who changes routes           *)
(*   clear   a failed chat turn, a failed reminder and a Clear             *)
(*   poison  a marker two sinks always refuse, under fair reapers          *)
(***************************************************************************)
EXTENDS EffectSinks

CONSTANTS p1, p2, rA, rB

VARIABLES
    scene,
    job, ans, cursor, route, marker, rot, events, bubbles, held, rec, cleared,
    gone, left    \* the variables of FailureSinks

\* Two single writes.
TwoSingles == << << {"note"} >>, << {"wake"} >> >>
OneEach == [c \in Claims |-> 1]
NoTargets == [c \in {} |-> c]
NoP == [p \in {"p", "q"} |-> 0]

\* A batch of three workspace mutations in two waves: create p, then delete p
\* and write q.
BatchTargets ==
    [c \in {"create_p", "delete_p", "write_q"} |->
       [op |-> IF c = "delete_p" THEN "delete" ELSE "write",
        path |-> IF c = "write_q" THEN "q" ELSE "p",
        expected |-> IF c = "delete_p" THEN 1 ELSE 0]]
BatchWaves == << {"create_p"}, {"delete_p", "write_q"} >>
Batch == INSTANCE EffectSinks WITH
    Waves <- <<BatchWaves>>,
    Parts <- [c \in DOMAIN BatchTargets |-> 1], BatchEffects <- {1},
    Target <- BatchTargets, MaxGen <- 0, MaxCrashes <- 0, MaxLost <- 1
Drain == INSTANCE EffectSinks WITH MaxGen <- 0

Chips == INSTANCE FailureSinks WITH
    Workers <- {}, Reapers <- {p2}, Lane <- <<"chat", "chat">>, Routes <- {rA, rB},
    Poison <- {}, Limit <- 2, MaxTouches <- 1, MaxFaults <- 1, MaxClears <- 0
Clears == INSTANCE FailureSinks WITH
    Workers <- {p1}, Reapers <- {p2}, Lane <- <<"chat", "scheduled">>, Routes <- {rA},
    Poison <- {}, Limit <- 2, MaxTouches <- 0, MaxFaults <- 0, MaxClears <- 1
Poisoned == INSTANCE FailureSinks WITH
    Workers <- {}, Reapers <- {p2}, Lane <- <<"chat", "chat">>, Routes <- {rA},
    Poison <- {<<1, "runtime_error">>, <<1, "status">>}, Limit <- 1,
    MaxTouches <- 0, MaxFaults <- 0, MaxClears <- 0

failureVars == <<job, ans, cursor, route, marker, rot, events, bubbles, held, rec,
                 cleared, gone, left>>
MCInit ==
    \/ scene = "fenced" /\ Init /\ Poisoned!Init
    \/ scene = "batch" /\ Batch!Init /\ Poisoned!Init
    \/ scene = "drain" /\ Drain!Init /\ Poisoned!Init
    \/ scene = "chips" /\ Chips!Init /\ Init
    \/ scene = "clear" /\ Clears!Init /\ Init
    \/ scene = "poison" /\ Poisoned!Init /\ Init

MCNext ==
    /\ UNCHANGED scene
    /\ \/ /\ UNCHANGED failureVars
          /\ \/ scene = "fenced" /\ Next
             \/ scene = "batch" /\ Batch!Next
             \/ scene = "drain" /\ Drain!Next
       \/ /\ UNCHANGED vars
          /\ \/ scene = "chips" /\ Chips!Next
             \/ scene = "clear" /\ Clears!Next
             \/ scene = "poison" /\ Poisoned!Next

MCVars == <<scene, vars, failureVars>>
Draining(A) == scene = "drain" /\ A
Reaping(A) == scene = "poison" /\ A

\* The fairness of the two FairSpecs, for the scenes with a liveness property.
MCSpec ==
    /\ MCInit /\ [][MCNext]_MCVars
    /\ \A e \in Effects : WF_vars(Draining(Drain!BackoffElapses(e)))
    /\ \A a \in Appliers : /\ WF_vars(Draining(Drain!Snapshot(a)))
                           /\ SF_vars(Draining(Drain!ApplierStep(a)))
    /\ WF_failureVars(Reaping(Poisoned!Begin(p2))) /\ WF_failureVars(Reaping(Poisoned!Pass(p2)))
    /\ \A j \in Poisoned!Jobs, s \in Poisoned!SinkNames :
         WF_failureVars(Reaping(Poisoned!BackoffElapses(j, s)))

---------------------------------------------------------------------------
\* The verdict of a row is true of its writes: AppliedMeansLanded and
\* RejectedMeansNotLanded, for single writes and for a batch.
VerdictsAreTrue ==
    IF scene = "batch" THEN Batch!AppliedMeansLanded /\ Batch!RejectedMeansNotLanded
    ELSE AppliedMeansLanded /\ RejectedMeansNotLanded

\* FencedLanding, InOrder and the waves of a batch: a write lands for the generation the
\* user has, after every earlier effect of the user and every earlier wave of
\* its batch is decided, although cutovers, a dying applier or a lost
\* connection interfere.
WritesInTurn ==
    [][/\ scene = "fenced" => \A e \in Effects : LandsNow(e) =>
            Fenced(e) /\ \A d \in 1..(e - 1) : ~Pending(d)
       /\ scene = "batch" => \A w \in 1..2 : \A c \in BatchWaves[w] :
            Batch!Lands(c) => \A v \in 1..(w - 1) : \A b \in BatchWaves[v] :
                                 claims[b] = "completed" \/ b \in rejected]_MCVars

\* AckClosesTurn for chat turns, with and without a Clear.
AcksCloseTurns ==
    CASE scene = "chips" -> Chips!AckClosesTurn
      [] scene = "clear" -> Clears!AckClosesTurn
      [] OTHER -> Poisoned!AckClosesTurn

\* Under the fairness of their scenes,
\* neither outbox keeps a row for ever, a poison row in front of it included.
OutboxesSettle ==
    /\ \A e \in Effects : (scene = "drain" /\ Drain!Pending(e))
                             ~> ~(scene = "drain" /\ Drain!Pending(e))
    /\ scene = "poison" => Poisoned!PoisonHidesNothing
===========================================================================
