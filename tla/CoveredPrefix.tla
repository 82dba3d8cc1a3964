---------------------------- MODULE CoveredPrefix ----------------------------
(***************************************************************************)
(* What the summary store promises a prompt: a transcript, and a prefix of *)
(* it that a summary stands for.  A prompt made of the summary and of the  *)
(* rows behind the prefix contains every row exactly once, because a row   *)
(* neither appears inside the prefix nor disappears from it.               *)
(***************************************************************************)
EXTENDS Naturals, FiniteSets

VARIABLES rows, covered

vars == <<rows, covered>>

UpTo(s, R) == {r \in R : r <= s}

Init == covered \subseteq rows

\* A row arrives behind the prefix.
Post ==
    \E s \in rows' \ rows :
        /\ rows' = rows \union {s}
        /\ \A c \in covered : c < s
        /\ UNCHANGED covered

\* Rows behind the prefix are deleted.
Drop == rows' \subseteq rows /\ covered \subseteq rows' /\ UNCHANGED covered

\* The prefix grows up to one of the rows behind it.
Cover ==
    \E s \in rows \ covered : covered' = UpTo(s, rows) /\ UNCHANGED rows

Clear == rows' = {} /\ covered' = {}

Next == Post \/ Drop \/ Cover \/ Clear

Spec == Init /\ [][Next]_vars
=============================================================================
