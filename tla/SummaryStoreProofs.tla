------------------------- MODULE SummaryStoreProofs -------------------------
(***************************************************************************)
(* For every number of rows, of turns and of faults, the summary store     *)
(* implements CoveredPrefix, and the segments a prompt is rendered from    *)
(* cover that prefix without gap or overlap.                               *)
(*                                                                         *)
(* A leaf and a seed are planned on a snapshot and written later, so the   *)
(* argument is about what a plan may still rely on.  A row never appears   *)
(* below a row already seen (RowsInv: one open insert, which holds the     *)
(* largest seq), so whatever watermark a worker has read stays at or above *)
(* every row of an old, timestamped summary (Reaches), even once the head  *)
(* has moved.  A seed also must not end the old summary later than it did: *)
(* that is what its comparison with a head whose watermark is still 0 is   *)
(* worth (Early).  A roll-up never changes the watermark; that it has      *)
(* children is what keeps it off a head without segments.                  *)
(*                                                                         *)
(* The cover is canonical: the segments up to the watermark that lie in no *)
(* larger one.  Segments are never changed, so what has to be kept is how  *)
(* they lie: nested in levels (Layered), starting at a row that cannot be  *)
(* deleted any more (Placed), together spanning every covered row (Spans). *)
(***************************************************************************)
EXTENDS SummaryStore, WellFoundedInduction, TLAPS

(* Leaves are proved by Zenon unless they cite SMT.                        *)
USE Zenon

\* x was drawn from the identity column, and its row is not one that is still
\* being inserted.
Past(x) == x \in Nat /\ x <= lastSeq /\ \A r \in open : x < r.seq

\* No row of the old summary lies behind x.
Reaches(x) == \A s \in chat : s < head.ts => s <= x

\* Until a first watermark is written, the old summary ends behind x.
Early(x) == head.ver > 0 /\ head.wm = 0 => x < head.ts

\* While the watermark is still 0, whoever has read version v knows that a
\* head with segments covers no row.
Fresh(v, x) ==
    /\ v \in Nat
    /\ head.ver > 0 /\ head.wm = 0 =>
         v <= head.ver /\ (v = head.ver /\ segs # {} => x = 0)

LeafPlan(q) ==
    q.kind = "leaf" /\ q.wm \in Nat /\ Reaches(q.wm) /\ Fresh(q.ver, q.wm)
RollupPlan(q) == q.kind = "checkpoint" /\ q.kids # {}
SeedPlan(q) == Past(q.wm) /\ Reaches(q.wm) /\ Early(q.wm)

\* What a worker carries from one transaction to the next.
Informed(me) ==
    /\ me.pc \in {"count", "bounds"} =>
         me.wm \in Nat /\ Reaches(me.wm) /\ Fresh(me.ver, me.wm)
    /\ me.pc = "append" => LeafPlan(me.req)
    /\ me.pc = "checkpoint" => RollupPlan(me.req)
    /\ me.pc = "seed" => SeedPlan(me.req)

Fields ==
    {"pc", "ver", "wm", "n", "through", "last", "tried", "retries", "passes",
     "stuck", "own", "req"}

Shaped(me) == me = [f \in Fields |-> me[f]]

RowsInv ==
    /\ lastSeq \in Nat
    /\ \A s \in chat \union probes : s > 0 /\ Past(s)
    /\ \A r \in open : r.seq \in Nat /\ r.seq > 0 /\ r.seq <= lastSeq
    /\ \A r, t \in open : r = t

HeadInv ==
    /\ head = [ver |-> head.ver, wm |-> head.wm, ts |-> head.ts, ids |-> head.ids]
    /\ head.ver \in Nat /\ Past(head.wm) /\ Past(head.ts)
    /\ head.ver = 0 => head = NoHead
    /\ head.ver > 0 /\ head.wm = 0 => head.ts > 0
    /\ head.wm > 0 \/ head.ids # {} => Reaches(head.wm)

\* The rows of t are rows of c.
Within(t, c) == c.lo <= t.lo /\ t.hi <= c.hi

\* Two segments either share no row, or one was rolled up into the other.
Nested(s, t) ==
    \/ s = t \/ Disjoint(s, t)
    \/ s.level < t.level /\ Within(s, t)
    \/ t.level < s.level /\ Within(t, s)

\* A set of segments up to w whose cover misses nothing.
Layered(S, w) ==
    /\ \A s \in S : {s.level, s.lo, s.hi} \subseteq Nat /\ s.lo <= s.hi /\ s.hi <= w
    /\ \A s, t \in S : Nested(s, t)
    /\ \A t \in S : \E c \in Canonical(S, w) : Within(t, c)

\* A stored segment starts at a row, unless it stands for an old summary.
Placed(s) ==
    /\ s.opaque \in Nat /\ s.opaque <= s.hi
    /\ s.kind \in {"exact", "legacy_opaque"}
    /\ s.kind = "legacy_opaque" => s.lo = 0
    /\ s.kind = "exact" => s.lo \in chat

\* Every covered row lies in one of the segments of S.
Spans(S) == \A r \in chat : r <= head.wm => \E s \in S : s.lo <= r /\ r <= s.hi

SegsInv ==
    /\ head.ver = 0 => segs = {}
    /\ segs = {} => head.wm = 0 /\ head.ids = {}
    /\ head.ids = Canonical(segs, head.wm)
    /\ Layered(segs, head.wm)
    /\ \A s \in segs : Placed(s)
    /\ \E b \in Nat : \A s \in segs : s.level <= b
    /\ segs # {} => Spans(segs) /\ \E s \in segs : s.hi = head.wm

WorkersInv ==
    /\ wk = [w \in Workers |-> wk[w]]
    /\ \A w \in Workers : Shaped(wk[w]) /\ Informed(wk[w])

StrayInv == \A q \in stray : LeafPlan(q) \/ RollupPlan(q)

Inv == RowsInv /\ HeadInv /\ SegsInv /\ WorkersInv /\ StrayInv

Prefix == {s \in chat : IF head.wm = 0 THEN s < head.ts ELSE s <= head.wm}

-----------------------------------------------------------------------------
(* Maxima of bounded sets of numbers.                                      *)

\* MAX() over the rows a query selects is one of them, and none is larger.
LEMMA MaxIsLargest ==
    ASSUME NEW S, S \subseteq Nat, S # {}, NEW n \in Nat, \A x \in S : x <= n
    PROVE  Max(S) \in S /\ \A y \in S : y <= Max(S)
<1> DEFINE gaps == {i \in Nat : n - i \in S}
<1>1. PICK x \in S : TRUE
  OBVIOUS
<1>2. n - x \in gaps
  <2>1. n - x \in Nat /\ n - (n - x) = x
    BY SMT, <1>1
  <2> QED BY <1>1, <2>1
<1>3. PICK i \in gaps : \A j \in gaps \ {i} : <<j, i>> \notin OpToRel(<, Nat)
  BY <1>2, NatLessThanWellFounded, WFMin
<1>4. \A y \in S : y <= n - i
  <2> SUFFICES ASSUME NEW y \in S, ~(y <= n - i)
               PROVE  FALSE
    OBVIOUS
  <2>1. n - y \in Nat /\ n - (n - y) = y /\ i \in Nat /\ n - y < i
    BY SMT
  <2>2. n - y \in gaps \ {i}
    BY SMT, <2>1
  <2> QED BY <2>1, <2>2, <1>3 DEF OpToRel
<1>5. n - i \in S
  OBVIOUS
<1> HIDE DEF gaps
<1>6. \E m \in S : \A y \in S : m >= y
  BY <1>4, <1>5
<1> QED BY <1>6 DEF Max

\* MIN() likewise.
LEMMA MinIsLeast ==
    ASSUME NEW S, S \subseteq Nat, S # {}
    PROVE  Min(S) \in S /\ \A y \in S : Min(S) <= y
<1>1. PICK z \in S : TRUE
  OBVIOUS
<1>2. PICK x \in S : \A y \in S \ {x} : <<y, x>> \notin OpToRel(<, Nat)
  BY <1>1, NatLessThanWellFounded, WFMin
<1>3. \A y \in S : x <= y
  <2> SUFFICES ASSUME NEW y \in S, ~(x <= y)
               PROVE  FALSE
    OBVIOUS
  <2>1. y < x /\ y \in Nat /\ x \in Nat /\ y # x
    BY SMT
  <2> QED BY <1>2, <2>1 DEF OpToRel
<1> QED BY <1>2, <1>3 DEF Min

\* The same with 0 for an empty result (COALESCE).
LEMMA MaxOrZero ==
    ASSUME NEW S, S \subseteq Nat, NEW n \in Nat, \A x \in S : x <= n
    PROVE  MaxOr0(S) \in S \union {0} /\ \A y \in S : y <= MaxOr0(S)
<1>1. S \union {0} \subseteq Nat /\ S \union {0} # {} /\ \A x \in S \union {0} : x <= n
  BY SMT
<1> QED BY <1>1, MaxIsLargest DEF MaxOr0
-----------------------------------------------------------------------------
(* Canonical covers.                                                       *)

\* No two segments of a cover overlap.
LEMMA CoverDisjoint ==
    ASSUME NEW S, NEW w \in Nat, Layered(S, w)
    PROVE  \A s, t \in Canonical(S, w) : s = t \/ Disjoint(s, t)
<1> SUFFICES ASSUME NEW s \in Canonical(S, w), NEW t \in Canonical(S, w)
             PROVE  s = t \/ Disjoint(s, t)
  OBVIOUS
<1>1. /\ s \in S /\ t \in S /\ s.hi <= w /\ t.hi <= w
      /\ ~(t.level > s.level /\ t.lo <= s.lo /\ t.hi >= s.hi)
      /\ ~(s.level > t.level /\ s.lo <= t.lo /\ s.hi >= t.hi)
  BY DEF Canonical
<1>2. Nested(s, t) /\ {s.level, s.lo, s.hi, t.level, t.lo, t.hi} \subseteq Nat
  BY <1>1 DEF Layered
<1> QED BY <1>1, <1>2 DEF Nested, Within

\* append_summary_leaf_cas: a leaf behind everything joins the cover.
LEMMA LeafJoins ==
    ASSUME NEW S, NEW w \in Nat, Layered(S, w), NEW l, l.level = 0,
           l.lo \in Nat, l.hi \in Nat, w < l.lo, l.lo <= l.hi
    PROVE  /\ Layered(S \union {l}, l.hi)
           /\ Canonical(S \union {l}, l.hi) = Canonical(S, w) \union {l}
<1> DEFINE T == S \union {l}
<1>1. \A s \in S : /\ {s.level, s.lo, s.hi} \subseteq Nat /\ s.lo <= s.hi
                   /\ s.hi <= w /\ s.hi <= l.hi
  BY SMT DEF Layered
<1>2. \A s \in T : {s.level, s.lo, s.hi} \subseteq Nat /\ s.lo <= s.hi /\ s.hi <= l.hi
  BY SMT, <1>1
<1>3. \A s \in S : Disjoint(s, l) /\ Disjoint(l, s)
  BY SMT, <1>1 DEF Disjoint
<1>4. \A s, t \in T : Nested(s, t)
  BY <1>3 DEF Layered, Nested
<1>5. Canonical(T, l.hi) = Canonical(S, w) \union {l}
  BY SMT, <1>1, <1>2 DEF Canonical
<1>6. \A t \in T : \E c \in Canonical(S, w) \union {l} : Within(t, c)
  BY SMT, <1>2 DEF Layered, Within
<1> QED BY <1>2, <1>4, <1>5, <1>6 DEF Layered

\* insert_summary_checkpoint: a parent replaces the segments of the cover it
\* spans, when it spans whole ones.
LEMMA ParentReplaces ==
    ASSUME NEW S, NEW w \in Nat, Layered(S, w), NEW p,
           {p.level, p.lo, p.hi} \subseteq Nat, p.lo <= p.hi, p.hi <= w,
           NEW kids,
           kids = {s \in Canonical(S, w) : s.lo >= p.lo /\ s.hi <= p.hi},
           \A k \in kids : k.level < p.level,
           \E k \in kids : k.lo = p.lo, \E k \in kids : k.hi = p.hi
    PROVE  /\ Layered(S \union {p}, w)
           /\ Canonical(S \union {p}, w) = (Canonical(S, w) \ kids) \union {p}
<1> DEFINE C == Canonical(S, w)
           T == S \union {p}
<1>1. \A s \in S : {s.level, s.lo, s.hi} \subseteq Nat /\ s.lo <= s.hi /\ s.hi <= w
  BY DEF Layered
<1>2. C \subseteq S /\ kids \subseteq C /\ \A k \in kids : Within(k, p)
  BY DEF Canonical, Within
<1>3. \A s, t \in C : s = t \/ Disjoint(s, t)
  BY CoverDisjoint
<1>4. \A c \in C : c \in kids <=> c.lo >= p.lo /\ c.hi <= p.hi
  OBVIOUS
<1>5. \A c \in C \ kids : Disjoint(c, p)
  <2> SUFFICES ASSUME NEW c \in C \ kids
               PROVE  Disjoint(c, p)
    OBVIOUS
  <2>1. PICK a \in kids : a.lo = p.lo
    OBVIOUS
  <2>2. PICK b \in kids : b.hi = p.hi
    OBVIOUS
  <2>3. Disjoint(c, a) /\ Disjoint(c, b)
    BY <1>2, <1>3
  <2>4. ~(c.lo >= p.lo /\ c.hi <= p.hi)
    BY <1>4
  <2>5. {c.lo, c.hi, a.lo, a.hi, b.lo, b.hi} \subseteq Nat /\ c.lo <= c.hi
        /\ a.lo <= a.hi /\ b.lo <= b.hi
    BY <1>1, <1>2
  <2> HIDE DEF C
  <2> QED BY SMT, <2>1, <2>2, <2>3, <2>4, <2>5 DEF Disjoint
<1>6. \A t \in S : Disjoint(t, p) \/ (t.level < p.level /\ Within(t, p))
  <2> SUFFICES ASSUME NEW t \in S
               PROVE  Disjoint(t, p) \/ (t.level < p.level /\ Within(t, p))
    OBVIOUS
  <2>1. PICK c \in C : Within(t, c)
    BY DEF Layered
  <2>2. c \in S /\ Nested(t, c) /\ ~(t.level > c.level /\ t.lo <= c.lo /\ t.hi >= c.hi)
    BY <1>1, <1>2 DEF Layered, Canonical
  <2>3. {c.level, c.lo, c.hi, t.level, t.lo, t.hi} \subseteq Nat /\ t.lo <= t.hi
    BY <1>1, <2>2
  <2>4. t = c \/ t.level < c.level
    BY SMT, <2>1, <2>2, <2>3 DEF Nested, Within, Disjoint
  <2>5. CASE c \in kids
    <3>1. c.level < p.level /\ Within(c, p) /\ c.level \in Nat
      BY <1>2, <2>3, <2>5
    <3>2. t.level < p.level
      BY SMT, <2>3, <2>4, <3>1
    <3> QED BY SMT, <2>1, <2>3, <3>1, <3>2 DEF Within
  <2>6. CASE c \notin kids
    <3>1. Disjoint(c, p)
      BY <1>5, <2>6
    <3> QED BY SMT, <2>1, <2>3, <3>1 DEF Disjoint, Within
  <2> QED BY <2>5, <2>6
<1>7. \A s, t \in T : Nested(s, t)
  <2>1. \A t \in S : Nested(t, p) /\ Nested(p, t)
    BY <1>6 DEF Nested, Disjoint
  <2> QED BY <2>1 DEF Layered, Nested
<1> DEFINE Above(t, x) == t.level > x.level /\ t.lo <= x.lo /\ t.hi >= x.hi
<1>8. Canonical(T, w) = (C \ kids) \union {p}
  <2>1. \A t \in S : ~Above(t, p)
    BY SMT, <1>1, <1>6 DEF Disjoint, Within
  <2>2. \A c \in C \ kids : ~Above(p, c)
    BY <1>1, <1>2, <1>4
  <2>3. \A k \in kids : Above(p, k)
    BY <1>1, <1>2, <1>4
  <2>4. \A x \in S : x \in C <=> \A t \in S : ~Above(t, x)
    BY <1>1 DEF Canonical
  <2>5. \A x : x \in Canonical(T, w) <=> x \in T /\ \A t \in T : ~Above(t, x)
    BY <1>1 DEF Canonical
  <2>6. ~Above(p, p)
    BY SMT
  <2>7. \A x : x \in T <=> x \in S \/ x = p
    OBVIOUS
  <2> HIDE DEF Above, C, T
  <2>8. \A x \in S : x # p => (x \in Canonical(T, w) <=> x \in C /\ x \notin kids)
    <3> SUFFICES ASSUME NEW x \in S
                 PROVE  x \in Canonical(T, w) <=> x \in C /\ x \notin kids
      OBVIOUS
    <3>1. x \in Canonical(T, w) <=> (\A t \in S : ~Above(t, x)) /\ ~Above(p, x)
      BY <2>5, <2>7
    <3>2. x \in Canonical(T, w) <=> x \in C /\ ~Above(p, x)
      BY <2>4, <3>1
    <3> QED BY <1>2, <2>2, <2>3, <3>2
  <2>9. p \in Canonical(T, w)
    BY <2>1, <2>5, <2>6, <2>7
  <2>10. \A x : x \in Canonical(T, w) <=> (x \in C /\ x \notin kids) \/ x = p
    BY <1>2, <2>5, <2>7, <2>8, <2>9
  <2> QED BY <2>10
<1>9. \A t \in T : \E c \in (C \ kids) \union {p} : Within(t, c)
  <2>1. \A t \in S : \E c \in C : Within(t, c)
    BY DEF Layered
  <2>2. \A t \in S, c \in kids : Within(t, c) => Within(t, p)
    BY SMT, <1>1, <1>2 DEF Within
  <2>3. Within(p, p)
    BY DEF Within
  <2> HIDE DEF C
  <2> QED BY <2>1, <2>2, <2>3
<1>10. \A s \in T : {s.level, s.lo, s.hi} \subseteq Nat /\ s.lo <= s.hi /\ s.hi <= w
  BY <1>1
<1> QED BY <1>7, <1>8, <1>9, <1>10 DEF Layered

-----------------------------------------------------------------------------
(* What the head stands for.                                               *)

\* The watermark get_summary_row returns is a row already seen, reaches the
\* end of an old summary, and does not go beyond it while that is all there is.
LEMMA TranslatedIs ==
    ASSUME RowsInv, HeadInv
    PROVE  /\ Past(Translated(head)) /\ Reaches(Translated(head))
           /\ Early(Translated(head))
<1> DEFINE old == {s \in chat \union probes : s < head.ts}
<1>1. CASE head.wm = 0 /\ head.ts > 0 /\ head.ids = {}
  <2>1. Translated(head) = MaxOr0(old)
    BY <1>1 DEF Translated
  <2>2. old \subseteq Nat /\ lastSeq \in Nat /\ \A x \in old : x <= lastSeq
    BY DEF RowsInv, Past
  <2>3. MaxOr0(old) \in old \union {0} /\ \A y \in old : y <= MaxOr0(old)
    BY <2>2, MaxOrZero
  <2>4. Past(0)
    BY SMT DEF RowsInv, Past
  <2>5. Past(MaxOr0(old))
    BY <2>3, <2>4 DEF RowsInv
  <2>6. Reaches(MaxOr0(old))
    BY <2>3 DEF Reaches
  <2>7. Early(MaxOr0(old))
    BY <1>1, <2>3 DEF Early
  <2> QED BY <2>1, <2>5, <2>6, <2>7
<1>2. CASE ~(head.wm = 0 /\ head.ts > 0 /\ head.ids = {})
  <2>1. Translated(head) = head.wm
    BY <1>2 DEF Translated
  <2>2. head.wm \in Nat /\ head.ts \in Nat
    BY DEF HeadInv, Past
  <2>3. Reaches(head.wm)
    <3>1. CASE head.wm > 0 \/ head.ids # {}
      BY <3>1 DEF HeadInv
    <3>2. CASE head.wm = 0 /\ head.ids = {}
      <4>1. head.ts = 0
        BY SMT, <1>2, <2>2, <3>2
      <4> QED BY SMT, <4>1 DEF RowsInv, Past, Reaches
    <3> QED BY SMT, <2>2, <3>1, <3>2
  <2>4. Early(head.wm)
    BY <1>2, <2>2 DEF HeadInv, Early
  <2> QED BY <2>1, <2>3, <2>4 DEF HeadInv
<1> QED BY <1>1, <1>2

\* Who reads version and watermark together has read them fresh.
LEMMA TranslatedFresh ==
    ASSUME HeadInv, SegsInv
    PROVE  Fresh(head.ver, Translated(head))
<1>1. head.ver \in Nat /\ head.wm \in Nat /\ head.ts \in Nat
  BY DEF HeadInv, Past
<1>2. ASSUME segs # {}
      PROVE  head.ids # {}
  BY <1>2 DEF SegsInv, Layered
<1>3. segs # {} => Translated(head) = head.wm
  BY <1>2 DEF Translated
<1> QED BY SMT, <1>1, <1>3 DEF Fresh

\* The covered rows without the detour over the probes.
LEMMA CoveredIsPrefix ==
    ASSUME RowsInv, HeadInv
    PROVE  CoveredRows = Prefix
<1>1. Past(Translated(head)) /\ Reaches(Translated(head)) /\ Early(Translated(head))
  BY TranslatedIs
<1>2. head.wm \in Nat /\ head.ts \in Nat /\ head.ver \in Nat /\ Translated(head) \in Nat
  BY <1>1 DEF HeadInv, Past
<1>3. \A s \in chat : s \in Nat /\ s > 0
  BY DEF RowsInv, Past
<1>4. CASE head.wm > 0
  <2>1. Translated(head) = head.wm
    BY SMT, <1>4 DEF Translated
  <2> QED BY SMT, <1>4, <2>1 DEF CoveredRows, Prefix
<1>5. CASE head.wm = 0 /\ head.ver > 0
  <2>1. Translated(head) < head.ts
    BY <1>1, <1>5 DEF Early
  <2>2. \A s \in chat : s <= Translated(head) <=> s < head.ts
    BY SMT, <1>1, <1>2, <1>3, <2>1 DEF Reaches
  <2> QED BY <1>5, <2>2 DEF CoveredRows, Prefix
<1>6. CASE head.wm = 0 /\ head.ver = 0
  <2>1. head.ts = 0
    BY SMT, <1>6 DEF HeadInv, NoHead
  <2>2. Translated(head) = 0
    BY SMT, <1>6, <2>1 DEF Translated
  <2> QED BY SMT, <1>3, <1>6, <2>1, <2>2 DEF CoveredRows, Prefix
<1> QED BY SMT, <1>2, <1>4, <1>5, <1>6

-----------------------------------------------------------------------------
(* What a step may do to a plan.                                           *)

\* What a worker has read stays true.
Kept ==
    /\ \A x \in Nat : /\ Past(x) => Past(x)'
                      /\ Reaches(x) => Reaches(x)'
                      /\ Early(x) => Early(x)'
    /\ \A v, x : Fresh(v, x) => Fresh(v, x)'

\* Where what is kept is kept, pending writes stay as good as they were.
LEMMA KeptPlans ==
    ASSUME Kept, NEW q
    PROVE  /\ LeafPlan(q) => LeafPlan(q)'
           /\ RollupPlan(q) => RollupPlan(q)'
           /\ SeedPlan(q) => SeedPlan(q)'
<1>1. LeafPlan(q) => LeafPlan(q)'
  BY DEF Kept, LeafPlan
<1>2. RollupPlan(q) => RollupPlan(q)'
  BY DEF RollupPlan
<1>3. SeedPlan(q) => q.wm \in Nat
  BY DEF SeedPlan, Past
<1>4. SeedPlan(q) => SeedPlan(q)'
  BY <1>3 DEF Kept, SeedPlan
<1> QED BY <1>1, <1>2, <1>4

\* And so does what a worker has read.
LEMMA KeptInformed ==
    ASSUME Kept, NEW me, Informed(me)
    PROVE  Informed(me)'
<1>1. /\ LeafPlan(me.req) => LeafPlan(me.req)'
      /\ RollupPlan(me.req) => RollupPlan(me.req)'
      /\ SeedPlan(me.req) => SeedPlan(me.req)'
  BY KeptPlans
<1>2. /\ me.wm \in Nat /\ Reaches(me.wm) => Reaches(me.wm)'
      /\ Fresh(me.ver, me.wm) => Fresh(me.ver, me.wm)'
  BY DEF Kept
<1> QED BY <1>1, <1>2 DEF Informed

\* A step after which nobody knows less and no worker has moved.
LEMMA WorkersRest ==
    ASSUME WorkersInv, StrayInv, Kept, UNCHANGED wk, stray' \subseteq stray
    PROVE  WorkersInv' /\ StrayInv'
<1>1. \A w \in Workers : Informed(wk[w])'
  <2> SUFFICES ASSUME NEW w \in Workers
               PROVE  Informed(wk[w])'
    OBVIOUS
  <2>1. PICK me : me = wk[w]
    OBVIOUS
  <2>2. Informed(me)'
    BY <2>1, KeptInformed DEF WorkersInv
  <2> QED BY <2>1, <2>2
<1>2. \A w \in Workers : Shaped(wk[w])'
  BY DEF WorkersInv, Shaped
<1>3. WorkersInv'
  BY <1>1, <1>2 DEF WorkersInv
<1>4. StrayInv'
  BY KeptPlans DEF StrayInv
<1> QED BY <1>3, <1>4

\* A step of worker w, which becomes r.
LEMMA WorkerMoves ==
    ASSUME WorkersInv, Kept, NEW w \in Workers, NEW r, Become(w, r),
           Shaped(r), Informed(r)'
    PROVE  WorkersInv'
<1>1. wk' = [x \in Workers |-> wk'[x]] /\ wk'[w] = r
      /\ \A x \in Workers \ {w} : wk'[x] = wk[x]
  BY DEF WorkersInv, Become
<1>2. \A x \in Workers : Informed(wk[x])'
  <2> SUFFICES ASSUME NEW x \in Workers
               PROVE  Informed(wk[x])'
    OBVIOUS
  <2>1. PICK me : me = wk'[x]
    OBVIOUS
  <2>2. Informed(me)'
    <3>1. CASE x = w
      BY <1>1, <2>1, <3>1
    <3>2. CASE x # w
      BY <1>1, <2>1, <3>2, KeptInformed DEF WorkersInv
    <3> QED BY <3>1, <3>2
  <2> QED BY <2>1, <2>2 DEF Informed, LeafPlan, RollupPlan, SeedPlan
<1>3. \A x \in Workers : Shaped(wk[x])'
  BY <1>1 DEF WorkersInv, Shaped
<1> QED BY <1>1, <1>2, <1>3 DEF WorkersInv
\* An untouched head stays well formed.
LEMMA HeadRests ==
    ASSUME HeadInv, Kept, UNCHANGED head
    PROVE  HeadInv'
<1>1. head.wm \in Nat /\ head.ts \in Nat
  BY DEF HeadInv, Past
<1>2. PICK h : h = head
  OBVIOUS
<1>3. /\ Past(h.wm) => Past(h.wm)'
      /\ Past(h.ts) => Past(h.ts)'
      /\ Reaches(h.wm) => Reaches(h.wm)'
  BY <1>1, <1>2 DEF Kept
<1> QED BY <1>2, <1>3 DEF HeadInv

\* A step on the rows behind the watermark.
LEMMA SegsRest ==
    ASSUME SegsInv, UNCHANGED <<head, segs>>,
           \A r \in chat : r <= head.wm => r \in chat',
           \A r \in chat' : r <= head.wm => r \in chat
    PROVE  SegsInv'
<1>1. Layered(segs, head.wm)' /\ (head.ids = Canonical(segs, head.wm))'
  BY SMT DEF SegsInv, Layered, Canonical, Nested, Within, Disjoint
<1>2. \A s \in segs : Placed(s)'
  <2>1. \A s \in segs : {s.lo, s.hi} \subseteq Nat /\ s.lo <= s.hi /\ s.hi <= head.wm
    BY DEF SegsInv, Layered
  <2> QED BY SMT, <2>1 DEF SegsInv, Placed
<1>3. segs # {} => Spans(segs)' /\ \E s \in segs : s.hi = head.wm
  BY DEF SegsInv, Spans
<1> QED BY <1>1, <1>2, <1>3 DEF SegsInv

\* A step on neither head nor segments.
LEMMA FreshRests ==
    ASSUME UNCHANGED <<head, segs>>
    PROVE  \A v, x : Fresh(v, x) => Fresh(v, x)'
BY DEF Fresh

-----------------------------------------------------------------------------
(* The steps on the transcript.                                            *)

Prefixed == INSTANCE CoveredPrefix WITH rows <- chat, covered <- Prefix

\* A step that keeps the invariant and is one the abstract store allows.
Sound == Inv' /\ (Prefixed!Next \/ UNCHANGED <<chat, Prefix>>)

\* A transaction that draws a seq leaves the transcript alone.
LEMMA InsertSound ==
    ASSUME Inv, NEW probe \in BOOLEAN, InsertRow(probe)
    PROVE  Sound
<1> USE DEF Inv
<1>1. /\ lastSeq \in Nat /\ lastSeq' = lastSeq + 1 /\ open = {}
      /\ open' = {[seq |-> lastSeq + 1, probe |-> probe]}
      /\ UNCHANGED <<chat, probes, head, segs, wk, stray>>
  BY DEF InsertRow, RowsInv
<1>2. \A x \in Nat : Past(x) => Past(x)'
  BY SMT, <1>1 DEF Past
<1>3. Kept
  BY <1>1, <1>2, FreshRests DEF Kept, Reaches, Early
<1>4. RowsInv'
  <2>1. \A s \in chat \union probes : s > 0 /\ Past(s)'
    BY <1>2 DEF RowsInv, Past
  <2>2. \A r \in open' : r.seq = lastSeq + 1
    BY SMT, <1>1
  <2>3. \A r, t \in open' : r = t
    BY <1>1
  <2> QED BY SMT, <1>1, <2>1, <2>2, <2>3 DEF RowsInv
<1>5. HeadInv' /\ SegsInv' /\ WorkersInv' /\ StrayInv'
  BY <1>1, <1>3, HeadRests, SegsRest, WorkersRest
<1>6. UNCHANGED <<chat, Prefix>>
  BY <1>1 DEF Prefix
<1> QED BY <1>4, <1>5, <1>6 DEF Sound

\* A committed row arrives behind the prefix.
LEMMA CommitSound ==
    ASSUME Inv, NEW r \in open, CommitRow(r)
    PROVE  Sound
<1> USE DEF Inv
<1>1. /\ UNCHANGED <<lastSeq, head, segs, wk, stray>>
      /\ open' = {} /\ lastSeq \in Nat
      /\ \/ probes' = probes \union {r.seq} /\ chat' = chat
         \/ chat' = chat \union {r.seq} /\ probes' = probes
  BY DEF CommitRow, RowsInv
<1>2. r.seq \in Nat /\ r.seq > 0 /\ r.seq <= lastSeq
  BY DEF RowsInv
<1>3. head.ts \in Nat /\ head.ts < r.seq /\ head.wm \in Nat /\ head.wm < r.seq
  BY DEF HeadInv, Past
<1>4. \A s \in chat : s \in Nat /\ s < r.seq
  BY DEF RowsInv, Past
<1>5. \A x \in Nat : Past(x) => Past(x)'
  BY <1>1 DEF Past
<1>6. Kept
  <2>1. \A x \in Nat : Reaches(x) => Reaches(x)'
    BY SMT, <1>1, <1>2, <1>3 DEF Reaches
  <2>2. \A x \in Nat : Early(x) => Early(x)'
    BY <1>1 DEF Early
  <2> QED BY <1>1, <1>5, <2>1, <2>2, FreshRests DEF Kept
<1>7. RowsInv'
  <2>1. \A s \in chat \union probes \union {r.seq} : s > 0 /\ Past(s)'
    BY <1>1, <1>2, <1>5 DEF RowsInv, Past
  <2> QED BY <1>1, <2>1 DEF RowsInv
<1>8. HeadInv' /\ SegsInv' /\ WorkersInv' /\ StrayInv'
  <2>1. \A x \in chat' : x <= head.wm => x \in chat
    BY SMT, <1>1, <1>2, <1>3
  <2>2. chat \subseteq chat'
    BY <1>1
  <2>3. SegsInv'
    BY <1>1, <2>1, <2>2, SegsRest
  <2> QED BY <1>1, <1>6, <2>3, HeadRests, WorkersRest
<1>9. Prefix' = Prefix
  BY SMT, <1>1, <1>2, <1>3 DEF Prefix
<1>10. Prefixed!Next \/ UNCHANGED <<chat, Prefix>>
  <2>1. CASE chat' = chat
    BY <1>9, <2>1
  <2>2. CASE chat' = chat \union {r.seq}
    <3>1. r.seq \in chat' \ chat
      BY SMT, <1>2, <1>4, <2>2
    <3>2. \A c \in Prefix : c < r.seq
      BY <1>4 DEF Prefix
    <3> QED BY <1>9, <2>2, <3>1, <3>2 DEF Prefixed!Next, Prefixed!Post
  <2> QED BY <1>1, <2>1, <2>2
<1> QED BY <1>7, <1>8, <1>10 DEF Sound

\* Rows that go, or an insert that is given up, take nothing that was known.
LEMMA FewerRows ==
    ASSUME Inv, chat' \subseteq chat, probes' \subseteq probes, open' \subseteq open,
           UNCHANGED <<lastSeq, head, segs, wk, stray>>,
           \A r \in chat : r <= head.wm => r \in chat'
    PROVE  Inv'
<1> USE DEF Inv
<1>1. \A x \in Nat : Past(x) => Past(x)'
  BY DEF Past
<1>2. Kept
  BY <1>1, FreshRests DEF Kept, Reaches, Early
<1>3. RowsInv'
  <2>1. \A s \in chat' \union probes' : s > 0 /\ Past(s)'
    BY <1>1 DEF RowsInv, Past
  <2> QED BY <2>1 DEF RowsInv
<1>4. SegsInv'
  BY SegsRest
<1> QED BY <1>2, <1>3, <1>4, HeadRests, WorkersRest

\* A rolled back insert leaves the transcript alone.
LEMMA AbortSound ==
    ASSUME Inv, NEW r \in open, AbortRow(r)
    PROVE  Sound
<1>1. Inv'
  BY FewerRows DEF AbortRow
<1>2. UNCHANGED <<chat, Prefix>>
  BY DEF AbortRow, Prefix
<1> QED BY <1>1, <1>2 DEF Sound

\* Deleting a verify ping leaves it alone.
LEMMA DeleteProbeSound ==
    ASSUME Inv, NEW s \in probes, DeleteProbe(s)
    PROVE  Sound
<1>1. Inv'
  BY FewerRows DEF DeleteProbe
<1>2. UNCHANGED <<chat, Prefix>>
  BY DEF DeleteProbe, Prefix
<1> QED BY <1>1, <1>2 DEF Sound

\* Finding the rows of a call leaves it alone.
LEMMA FindSound ==
    ASSUME Inv, NEW s \in chat, FindCallRows(s)
    PROVE  Sound
<1>1. Inv'
  BY FewerRows DEF FindCallRows
<1>2. UNCHANGED <<chat, Prefix>>
  BY DEF FindCallRows, Prefix
<1> QED BY <1>1, <1>2 DEF Sound

\* chat_delete_uncovered_many deletes only behind the prefix.
LEMMA DeleteSound ==
    ASSUME Inv, DeleteCallRows
    PROVE  Sound
<1> DEFINE old == {s \in chat \union probes : s <= head.ts}
<1>1. lastSeq \in Nat
  BY DEF Inv, RowsInv
<1>2. old \subseteq Nat /\ lastSeq \in Nat /\ \A x \in old : x <= lastSeq
  BY DEF Inv, RowsInv, Past
<1>3. MaxOr0(old) \in Nat /\ MaxOr0(old) <= lastSeq /\ \A y \in old : y <= MaxOr0(old)
  BY SMT, <1>2, MaxOrZero
<1>4. head.wm \in Nat /\ head.wm <= lastSeq /\ head.ts \in Nat
  BY DEF Inv, HeadInv, Past
<1> HIDE DEF old
<1>5. {head.wm, MaxOr0(old)} \subseteq Nat /\ {head.wm, MaxOr0(old)} # {}
      /\ \A x \in {head.wm, MaxOr0(old)} : x <= lastSeq
  BY <1>3, <1>4
<1>6. /\ Max({head.wm, MaxOr0(old)}) \in Nat
      /\ \A y \in {head.wm, MaxOr0(old)} : y <= Max({head.wm, MaxOr0(old)})
  BY <1>2, <1>5, MaxIsLargest
<1>7. CoveredForDelete \in Nat /\ head.wm <= CoveredForDelete
      /\ MaxOr0(old) <= CoveredForDelete
  BY <1>6 DEF CoveredForDelete, old
<1>8. \A s \in Prefix : s \in Nat /\ s <= CoveredForDelete
  <2> SUFFICES ASSUME NEW s \in Prefix
               PROVE  s \in Nat /\ s <= CoveredForDelete
    OBVIOUS
  <2>1. s \in chat /\ s \in Nat
    BY DEF Prefix, Inv, RowsInv, Past
  <2>2. s <= head.wm \/ s \in old
    BY SMT, <1>4, <2>1 DEF Prefix, old
  <2> QED BY SMT, <1>3, <1>4, <1>7, <2>1, <2>2
<1>9. chat' = chat \ {s \in hangup : s > CoveredForDelete} /\ UNCHANGED head
  BY DEF DeleteCallRows
<1>10. Prefix \subseteq chat
  BY DEF Prefix
<1>11. Prefix \subseteq chat'
  BY SMT, <1>7, <1>8, <1>9, <1>10
<1>12. Prefix' = Prefix
  BY <1>9, <1>11 DEF Prefix
<1>13. Prefixed!Drop
  BY <1>9, <1>11, <1>12 DEF Prefixed!Drop
<1>14. \A r \in chat : r \in Nat /\ (r <= head.wm => r \in chat')
  <2>1. \A r \in chat : r \in Nat
    BY DEF Inv, RowsInv, Past
  <2> QED BY SMT, <1>4, <1>7, <1>9, <2>1
<1>15. Inv'
  BY <1>9, <1>14, FewerRows DEF DeleteCallRows
<1> QED BY <1>13, <1>15 DEF Sound, Prefixed!Next

\* chat_clear takes prefix and transcript together.
LEMMA ClearSound ==
    ASSUME Inv, Clear
    PROVE  Sound
<1>1. /\ open = {} /\ UNCHANGED <<lastSeq, open, stray>> /\ lastSeq \in Nat
      /\ chat' = {} /\ probes' = {} /\ head' = NoHead /\ segs' = {}
      /\ wk' = [w \in Workers |-> [wk[w] EXCEPT !.own = FALSE]]
  BY DEF Inv, RowsInv, Clear
<1>2. Kept
  <2>1. \A x \in Nat : Past(x) => Past(x)'
    BY <1>1 DEF Past
  <2>2. \A x \in Nat : Reaches(x)'
    BY <1>1 DEF Reaches
  <2>3. \A x \in Nat : Early(x)'
    BY SMT, <1>1 DEF Early, NoHead
  <2>4. \A v, x : Fresh(v, x) => Fresh(v, x)'
    BY SMT, <1>1 DEF Fresh, NoHead
  <2> QED BY <2>1, <2>2, <2>3, <2>4 DEF Kept
<1>3. RowsInv'
  BY <1>1 DEF RowsInv
<1>4. HeadInv'
  BY SMT, <1>1 DEF HeadInv, NoHead, Past
<1>5. WorkersInv'
  <2>1. \A w \in Workers : /\ wk'[w].pc = wk[w].pc /\ wk'[w].wm = wk[w].wm
                           /\ wk'[w].ver = wk[w].ver /\ wk'[w].req = wk[w].req /\ Shaped(wk'[w])
    <3> SUFFICES ASSUME NEW w \in Workers
                 PROVE  /\ wk'[w].pc = wk[w].pc /\ wk'[w].wm = wk[w].wm
                        /\ wk'[w].ver = wk[w].ver /\ wk'[w].req = wk[w].req /\ Shaped(wk'[w])
      OBVIOUS
    <3>1. wk'[w] = [wk[w] EXCEPT !.own = FALSE] /\ Shaped(wk[w])
      BY <1>1 DEF Inv, WorkersInv
    <3> QED BY <3>1 DEF Shaped, Fields
  <2>2. \A w \in Workers : Informed(wk[w])'
    <3> SUFFICES ASSUME NEW w \in Workers
                 PROVE  Informed(wk[w])'
      OBVIOUS
    <3>1. PICK me : me = wk[w]
      OBVIOUS
    <3>2. Informed(me)'
      BY <1>2, <3>1, KeptInformed DEF Inv, WorkersInv
    <3> QED BY <2>1, <3>1, <3>2 DEF Informed, LeafPlan, RollupPlan, SeedPlan
  <2>3. wk' = [w \in Workers |-> wk'[w]]
    BY <1>1
  <2> QED BY <2>1, <2>2, <2>3 DEF WorkersInv, Shaped
<1>6. StrayInv'
  BY <1>1, <1>2, KeptPlans DEF Inv, StrayInv
<1>7. chat' = {} /\ Prefix' = {}
  BY <1>1 DEF Prefix
<1>8. Prefixed!Clear
  BY <1>7 DEF Prefixed!Clear
<1>9. SegsInv'
  <2>1. head'.ver = 0 /\ head'.wm = 0 /\ head'.ids = {}
    BY <1>1 DEF NoHead
  <2>2. Layered(segs, head.wm)' /\ Canonical(segs, head.wm)' = {}
    BY <1>1 DEF Layered, Canonical
  <2> QED BY <1>1, <2>1, <2>2 DEF SegsInv
<1> QED BY <1>3, <1>4, <1>5, <1>6, <1>8, <1>9 DEF Inv, Sound, Prefixed!Next
-----------------------------------------------------------------------------
(* The three writers.                                                      *)

\* The part of Inv that is about the tables.
StoreInv == RowsInv /\ HeadInv /\ SegsInv

\* A new head that keeps the timestamp and whose watermark reaches the end of
\* the old summary.
LEMMA WriteKeeps ==
    ASSUME Inv, UNCHANGED <<chat, probes, lastSeq, open>>, NEW h, head' = h,
           h = [ver |-> h.ver, wm |-> h.wm, ts |-> h.ts, ids |-> h.ids],
           h.ver = head.ver + 1, h.ts = head.ts, Past(h.wm), Reaches(h.wm),
           h.wm = 0 => head.wm = 0 /\ head.ver > 0
    PROVE  RowsInv' /\ HeadInv' /\ Kept
<1> USE DEF Inv
<1>1. /\ h.wm \in Nat /\ h.ts \in Nat /\ head.ver \in Nat
      /\ h.ver \in Nat /\ h.ver > 0
  BY SMT DEF HeadInv, Past
<1>2. Kept
  <2>1. \A x \in Nat : Past(x) => Past(x)'
    BY DEF Past
  <2>2. \A x \in Nat : Reaches(x) => Reaches(x)'
    BY DEF Reaches
  <2>3. \A x \in Nat : Early(x) => Early(x)'
    BY <1>1 DEF Early
  <2>4. \A v, x : Fresh(v, x) => Fresh(v, x)'
    BY SMT, <1>1 DEF Fresh
  <2> QED BY <2>1, <2>2, <2>3, <2>4 DEF Kept
<1>3. RowsInv'
  BY DEF RowsInv, Past
<1>4. HeadInv'
  <2>1. Past(h.wm)' /\ Past(h.ts)' /\ Reaches(h.wm)'
    BY <1>1, <1>2 DEF Kept, HeadInv
  <2>2. h.wm = 0 => h.ts > 0
    BY DEF HeadInv
  <2> QED BY SMT, <1>1, <2>1, <2>2 DEF HeadInv
<1> QED BY <1>2, <1>3, <1>4

\* The segment of an old summary is a cover by itself.
LEMMA LegacyAlone ==
    ASSUME NEW e \in Nat
    PROVE  /\ Layered({Legacy(e)}, e) /\ Canonical({Legacy(e)}, e) = {Legacy(e)}
<1>1. PICK l : l = Legacy(e)
  OBVIOUS
<1>2. l.level = 0 /\ l.lo = 0 /\ l.hi = e
  BY <1>1 DEF Legacy
<1>3. Canonical({l}, e) = {l}
  BY SMT, <1>2 DEF Canonical
<1>4. Layered({l}, e)
  BY SMT, <1>2, <1>3 DEF Layered, Nested, Within
<1> QED BY <1>1, <1>3, <1>4

\* A leaf that fits extends the cover by the rows up to its end.
LEMMA LeafSegs ==
    ASSUME Inv, NEW q, LeafPlan(q), LeafFits(q), LeafLands(q), UNCHANGED chat
    PROVE  SegsInv'
<1> USE DEF Inv
<1> DEFINE source == {s \in chat : s > q.wm /\ s <= q.seg.hi}
<1>1. source # {} /\ Leaf(source) = q.seg /\ q.wm \in Nat /\ Fresh(q.ver, q.wm)
  BY DEF LeafFits, LeafPlan
<1>2. source \subseteq Nat /\ lastSeq \in Nat /\ \A x \in source : x <= lastSeq
  BY DEF RowsInv, Past
<1>3. Max(source) \in source /\ Min(source) \in source /\ \A y \in source : Min(source) <= y
  BY <1>1, <1>2, MaxIsLargest, MinIsLeast
<1>4. PICK l : l = q.seg
  OBVIOUS
<1>5. /\ l.level = 0 /\ l.kind = "exact" /\ l.opaque = 0
      /\ l.lo = Min(source) /\ l.hi = Max(source)
  BY SMT, <1>1, <1>4 DEF Leaf
<1>6. /\ l.lo \in chat /\ l.lo \in Nat /\ l.hi \in Nat /\ q.wm < l.lo /\ l.lo <= l.hi
      /\ \A r \in chat : q.wm < r /\ r <= l.hi => l.lo <= r
  BY <1>2, <1>3, <1>4, <1>5
<1> HIDE DEF source
<1>7. head.ver \in Nat /\ head.wm \in Nat /\ \A r \in chat : r \in Nat /\ r > 0
  BY DEF HeadInv, RowsInv, Past
<1> DEFINE Base(S, x) ==
             /\ x \in Nat /\ x < l.lo /\ Layered(S, x) /\ \A s \in S : Placed(s)
             /\ \E b \in Nat : \A s \in S : s.level <= b
             /\ \A r \in chat : r <= q.wm => \E s \in S : s.lo <= r /\ r <= s.hi
             /\ segs' = S \union {l}
             /\ head' = [ver |-> head.ver + 1, wm |-> l.hi, ts |-> head.ts,
                         ids |-> Canonical(S \union {l}, l.hi)]
<1>8. \E S, x : Base(S, x)
  <2>1. CASE segs # {}
    <3>1. head.ver > 0 /\ head.ver = q.ver /\ head.wm \in {0, q.wm}
      BY SMT, <1>7, <2>1 DEF SegsInv, LeafFits
    <3>2. head.wm = q.wm
      BY <1>1, <2>1, <3>1 DEF Fresh
    <3>3. /\ segs' = segs \union {l}
          /\ head' = [ver |-> head.ver + 1, wm |-> l.hi, ts |-> head.ts,
                      ids |-> Canonical(segs \union {l}, l.hi)]
      BY <1>4, <2>1 DEF LeafLands
    <3>4. Base(segs, head.wm)
      BY <1>6, <1>7, <2>1, <3>2, <3>3 DEF SegsInv, Spans
    <3> QED BY <3>4
  <2>2. CASE segs = {} /\ head.ver > 0
    <3> DEFINE e == IF q.wm > 0 THEN q.wm ELSE l.lo - 1
    <3>1. /\ segs' = {Legacy(e)} \union {l}
          /\ head' = [ver |-> head.ver + 1, wm |-> l.hi, ts |-> head.ts,
                      ids |-> Canonical({Legacy(e)} \union {l}, l.hi)]
      BY <1>4, <2>2 DEF LeafLands
    <3>2. e \in Nat /\ e < l.lo /\ (q.wm <= e)
      BY SMT, <1>1, <1>6, <1>7
    <3> HIDE DEF e
    <3>3. Layered({Legacy(e)}, e)
      BY <3>2, LegacyAlone
    <3>4. PICK g : g = Legacy(e)
      OBVIOUS
    <3>5. g.kind = "legacy_opaque" /\ g.level = 0 /\ g.lo = 0 /\ g.hi = e /\ g.opaque = e
      BY <3>4 DEF Legacy
    <3>6. Placed(g)
      BY SMT, <3>2, <3>5 DEF Placed
    <3>7. \A r \in chat : r <= q.wm => g.lo <= r /\ r <= g.hi
      BY SMT, <1>1, <1>7, <3>2, <3>5
    <3>8. Base({g}, e)
      BY SMT, <3>1, <3>2, <3>3, <3>4, <3>5, <3>6, <3>7
    <3> QED BY <3>8
  <2>3. CASE segs = {} /\ head.ver = 0
    <3>1. q.wm = 0
      BY <2>3 DEF LeafFits
    <3>2. /\ segs' = {} \union {l}
          /\ head' = [ver |-> head.ver + 1, wm |-> l.hi, ts |-> head.ts,
                      ids |-> Canonical({} \union {l}, l.hi)]
      <4>1. ~(segs = {} /\ head.ver > 0)
        BY SMT, <2>3
      <4>2. /\ segs' = segs \union {l}
            /\ head' = [ver |-> head.ver + 1, wm |-> l.hi, ts |-> head.ts,
                        ids |-> Canonical(segs \union {l}, l.hi)]
        BY <1>4, <4>1 DEF LeafLands
      <4> QED BY <2>3, <4>2
    <3>3. Layered({}, 0)
      BY DEF Layered
    <3>4. Base({}, 0)
      BY SMT, <1>6, <1>7, <3>1, <3>2, <3>3
    <3> QED BY <3>4
  <2>4. head.ver = 0 \/ head.ver > 0
    BY SMT, <1>7
  <2> QED BY <2>1, <2>2, <2>3, <2>4
<1>9. PICK S, x : Base(S, x)
  BY <1>8
<1> DEFINE T == S \union {l}
<1>10. Layered(T, l.hi)
  BY <1>5, <1>6, <1>9, LeafJoins
<1>11. segs' = T /\ head'.ver = head.ver + 1 /\ head'.wm = l.hi /\ head'.ids = Canonical(T, l.hi)
  BY <1>9
<1>12. Placed(l)
  BY SMT, <1>5, <1>6 DEF Placed
<1>13. \A s \in T : Placed(s)'
  BY <1>9, <1>12 DEF Placed
<1>14. \E b \in Nat : \A s \in T : s.level <= b
  BY SMT, <1>5, <1>9
<1>15. \A r \in chat : r <= l.hi => \E s \in T : s.lo <= r /\ r <= s.hi
  <2> SUFFICES ASSUME NEW r \in chat, r <= l.hi
               PROVE  \E s \in T : s.lo <= r /\ r <= s.hi
    OBVIOUS
  <2>1. CASE r <= q.wm
    BY <1>9, <2>1
  <2>2. CASE q.wm < r
    BY <1>6, <2>2
  <2> QED BY SMT, <1>1, <1>7, <2>1, <2>2
<1>16. l \in T
  OBVIOUS
<1> HIDE DEF T
<1>17. Layered(segs, head.wm)' /\ (head.ids = Canonical(segs, head.wm))'
  BY <1>10, <1>11
<1>18. Spans(segs)' /\ (\E s \in segs : s.hi = head.wm)'
  BY <1>11, <1>15, <1>16 DEF Spans
<1>19. head'.ver # 0
  BY SMT, <1>7, <1>11
<1> QED BY <1>11, <1>13, <1>14, <1>16, <1>17, <1>18, <1>19 DEF SegsInv

\* A checkpoint replaces its children in the cover by their span.
LEMMA ParentSegs ==
    ASSUME Inv, NEW q, RollupPlan(q), CheckpointFits(q), CheckpointLands(q),
           UNCHANGED chat
    PROVE  SegsInv'
<1> USE DEF Inv
<1>1. PICK p, K, C : p = q.seg /\ K = q.kids /\ C = Canonical(segs, head.wm)
  OBVIOUS
<1>2. /\ head.ids = C /\ K # {} /\ K \subseteq segs /\ Parent(K) = p
      /\ K = {s \in C : s.lo >= p.lo /\ s.hi <= p.hi} /\ p.hi <= head.wm
  BY <1>1 DEF CheckpointFits, RollupPlan
<1>3. /\ head.ver \in Nat /\ head.wm \in Nat
      /\ head = [ver |-> head.ver, wm |-> head.wm, ts |-> head.ts, ids |-> head.ids]
  BY DEF HeadInv, Past
<1>4. \A k \in K : /\ {k.level, k.lo, k.hi, k.opaque} \subseteq Nat /\ k.lo <= k.hi
                   /\ k.hi <= head.wm /\ k.opaque <= k.hi /\ Placed(k)
  BY <1>2 DEF SegsInv, Layered, Placed
<1>5. PICK b \in Nat : \A s \in segs : s.level <= b
  BY DEF SegsInv
<1> DEFINE levels == {s.level : s \in K}
           los == {s.lo : s \in K}
           his == {s.hi : s \in K}
           opaques == {s.opaque : s \in K}
<1>6. Max(levels) \in levels /\ \A y \in levels : y <= Max(levels)
  <2>1. levels \subseteq Nat /\ levels # {} /\ \A y \in levels : y <= b
    BY <1>2, <1>4, <1>5
  <2> HIDE DEF levels
  <2> QED BY <2>1, MaxIsLargest
<1>7. Min(los) \in los /\ \A y \in los : Min(los) <= y
  <2>1. los \subseteq Nat /\ los # {}
    BY <1>2, <1>4
  <2> HIDE DEF los
  <2> QED BY <2>1, MinIsLeast
<1>8. Max(his) \in his /\ \A y \in his : y <= Max(his)
  <2>1. his \subseteq Nat /\ his # {} /\ \A y \in his : y <= head.wm
    BY <1>2, <1>4
  <2> HIDE DEF his
  <2> QED BY <1>3, <2>1, MaxIsLargest
<1>9. Max(opaques) \in opaques
  <2>1. opaques \subseteq Nat /\ opaques # {} /\ \A y \in opaques : y <= head.wm
    BY SMT, <1>2, <1>3, <1>4
  <2> HIDE DEF opaques
  <2> QED BY <1>3, <2>1, MaxIsLargest
<1>10. /\ p.level = Max(levels) + 1 /\ p.lo = Min(los) /\ p.hi = Max(his)
       /\ p.opaque = Max(opaques)
       /\ p.kind = IF Kinds(K) = {} THEN "exact" ELSE "legacy_opaque"
  BY <1>2 DEF Parent
<1>11. (\E k \in K : k.lo = p.lo) /\ \A k \in K : p.lo <= k.lo
  BY <1>7, <1>10
<1>12. (\E k \in K : k.hi = p.hi) /\ \A k \in K : k.hi <= p.hi
  BY <1>8, <1>10
<1>13. /\ {p.level, p.lo, p.hi} \subseteq Nat /\ \A k \in K : k.level < p.level
       /\ p.level <= b + 1
  <2>1. Max(levels) \in Nat /\ Max(levels) <= b
    BY <1>2, <1>4, <1>5, <1>6
  <2>2. \A k \in K : k.level <= Max(levels) /\ k.level \in Nat
    BY <1>4, <1>6
  <2> HIDE DEF levels
  <2>3. p.level \in Nat /\ \A k \in K : k.level < p.level
    BY SMT, <1>10, <2>1, <2>2
  <2> QED BY SMT, <1>4, <1>10, <1>11, <1>12, <2>1, <2>3
<1>14. p.lo <= p.hi
  BY SMT, <1>4, <1>11, <1>12, <1>13
<1>15. p.opaque \in Nat /\ p.opaque <= p.hi
  BY SMT, <1>4, <1>9, <1>10, <1>12, <1>13
<1> HIDE DEF levels, los, his, opaques
<1>16. Placed(p)
  <2>1. CASE Kinds(K) = {}
    <3>1. \A k \in K : k.kind = "exact" /\ k.lo \in chat
      BY <1>4, <2>1 DEF Kinds, Placed
    <3> QED BY <1>10, <1>11, <1>15, <2>1, <3>1 DEF Placed
  <2>2. CASE Kinds(K) # {}
    <3>1. PICK k \in K : k.kind = "legacy_opaque"
      BY <2>2 DEF Kinds
    <3>2. k.lo = 0
      BY <1>4, <3>1 DEF Placed
    <3>3. p.lo = 0
      BY SMT, <1>11, <1>13, <3>2
    <3> QED BY <1>10, <1>15, <2>2, <3>3 DEF Placed
  <2> QED BY <2>1, <2>2
<1> DEFINE T == segs \union {p}
<1>17. Layered(T, head.wm)
  <2>1. Layered(segs, head.wm)
    BY DEF SegsInv
  <2>2. K = {s \in Canonical(segs, head.wm) : s.lo >= p.lo /\ s.hi <= p.hi}
    BY <1>1, <1>2
  <2>3. /\ {p.level, p.lo, p.hi} \subseteq Nat /\ p.lo <= p.hi /\ p.hi <= head.wm
        /\ \A k \in K : k.level < p.level
        /\ (\E k \in K : k.lo = p.lo) /\ \E k \in K : k.hi = p.hi
    BY <1>2, <1>11, <1>12, <1>13, <1>14
  <2> QED BY <1>3, <2>1, <2>2, <2>3, ParentReplaces
<1>18. segs' = T /\ head' = [head EXCEPT !.ver = @ + 1, !.ids = Canonical(T, head.wm)]
  BY <1>1 DEF CheckpointLands
<1> HIDE DEF T
<1>19. head'.ver = head.ver + 1 /\ head'.wm = head.wm /\ head'.ids = Canonical(T, head.wm)
  BY <1>3, <1>18
<1>20. segs # {} /\ segs \subseteq T /\ T \subseteq segs \union {p}
  BY <1>2 DEF T
<1>21. \A s \in T : Placed(s)'
  BY <1>16, <1>20 DEF SegsInv, Placed
<1>22. \E c \in Nat : \A s \in T : s.level <= c
  <2>1. b + 1 \in Nat /\ \A s \in T : s.level <= b + 1
    BY SMT, <1>5, <1>13, <1>20 DEF SegsInv, Layered
  <2> QED BY <2>1
<1>23. Layered(segs, head.wm)' /\ (head.ids = Canonical(segs, head.wm))'
  BY <1>17, <1>18, <1>19
<1>24. Spans(segs)' /\ (\E s \in segs : s.hi = head.wm)'
  <2>1. Spans(segs) /\ \E s \in segs : s.hi = head.wm
    BY <1>20 DEF SegsInv
  <2> QED BY <1>18, <1>19, <1>20, <2>1 DEF Spans
<1>25. head'.ver # 0
  BY SMT, <1>3, <1>19
<1> QED BY <1>18, <1>20, <1>21, <1>22, <1>23, <1>24, <1>25 DEF SegsInv

\* append_summary_leaf_cas extends the prefix.
LEMMA LeafWrites ==
    ASSUME Inv, NEW q, LeafPlan(q), LeafFits(q), LeafLands(q),
           UNCHANGED <<chat, probes, lastSeq, open>>
    PROVE  StoreInv' /\ Kept /\ Prefixed!Next
<1> USE DEF Inv
<1> DEFINE source == {s \in chat : s > q.wm /\ s <= q.seg.hi}
<1>1. source # {} /\ Leaf(source) = q.seg
  BY DEF LeafFits
<1>2. source \subseteq Nat /\ lastSeq \in Nat /\ \A x \in source : x <= lastSeq
  BY DEF RowsInv, Past
<1>3. Max(source) \in source
  BY <1>1, <1>2, MaxIsLargest
<1>4. q.seg.hi = Max(source)
  BY SMT, <1>1 DEF Leaf
<1>5. q.seg.hi \in chat /\ q.seg.hi > q.wm
  BY <1>3, <1>4
<1> HIDE DEF source
<1>6. q.wm \in Nat /\ Reaches(q.wm)
  BY DEF LeafPlan
<1>7. q.seg.hi \in Nat /\ q.seg.hi > 0 /\ Past(q.seg.hi)
  BY <1>5 DEF RowsInv, Past
<1>8. Reaches(q.seg.hi)
  <2>1. \A s \in chat : s \in Nat
    BY DEF RowsInv, Past
  <2> QED BY SMT, <1>5, <1>6, <1>7, <2>1 DEF Reaches
<1>9. PICK C : head' = [ver |-> head.ver + 1, wm |-> q.seg.hi, ts |-> head.ts, ids |-> C]
  BY DEF LeafLands
<1>10. head.ver \in Nat /\ head.wm \in Nat /\ head.ts \in Nat
  BY DEF HeadInv, Past
<1>11. RowsInv' /\ HeadInv' /\ Kept
  <2>1. PICK h : h = head'
    OBVIOUS
  <2>2. /\ h = [ver |-> h.ver, wm |-> h.wm, ts |-> h.ts, ids |-> h.ids]
        /\ h.ver = head.ver + 1 /\ h.wm = q.seg.hi /\ h.ts = head.ts
    BY <1>9, <2>1
  <2>3. h.ver \in Nat /\ h.ver > 0 /\ h.wm # 0 /\ Past(h.wm) /\ Reaches(h.wm)
    BY SMT, <1>7, <1>8, <1>10, <2>2
  <2> QED BY <2>1, <2>2, <2>3, WriteKeeps
<1>12. q.seg.hi \notin Prefix
  <2>1. CASE head.wm = 0
    <3>1. q.seg.hi < head.ts => q.seg.hi <= q.wm
      BY <1>5, <1>6 DEF Reaches
    <3>2. ~(q.seg.hi < head.ts)
      BY SMT, <1>5, <1>6, <1>7, <3>1
    <3> QED BY <2>1, <3>2 DEF Prefix
  <2>2. CASE head.wm # 0
    <3>1. head.ver # 0
      BY SMT, <2>2 DEF HeadInv, NoHead
    <3>2. head.wm = q.wm
      BY <2>2, <3>1 DEF LeafFits
    <3>3. ~(q.seg.hi <= head.wm)
      BY SMT, <1>5, <1>6, <1>7, <3>2
    <3> QED BY <2>2, <3>3 DEF Prefix
  <2> QED BY <2>1, <2>2
<1>13. Prefix' = {r \in chat : r <= q.seg.hi}
  <2>1. head'.wm = q.seg.hi /\ head'.wm # 0
    BY SMT, <1>7, <1>9
  <2> QED BY <2>1 DEF Prefix
<1>14. Prefixed!Cover
  BY <1>5, <1>12, <1>13 DEF Prefixed!Cover, Prefixed!UpTo
<1>15. SegsInv'
  BY LeafSegs
<1> QED BY <1>11, <1>14, <1>15 DEF Prefixed!Next, StoreInv

\* insert_summary_checkpoint leaves the prefix alone.
LEMMA CheckpointWrites ==
    ASSUME Inv, NEW q, RollupPlan(q), CheckpointFits(q), CheckpointLands(q),
           UNCHANGED <<chat, probes, lastSeq, open>>
    PROVE  StoreInv' /\ Kept /\ UNCHANGED Prefix
<1> USE DEF Inv
<1>1. head.ids # {}
  <2> DEFINE cover == Canonical(segs, q.wm)
  <2>1. cover = head.ids
        /\ {s \in cover : s.lo >= q.seg.lo /\ s.hi <= q.seg.hi} = q.kids
    BY DEF CheckpointFits
  <2> HIDE DEF cover
  <2> QED BY <2>1 DEF RollupPlan
<1>2. /\ head = [ver |-> head.ver, wm |-> head.wm, ts |-> head.ts, ids |-> head.ids]
      /\ head.ver \in Nat /\ Past(head.wm) /\ Reaches(head.wm)
  BY <1>1 DEF HeadInv
<1>3. head.ver > 0
  BY SMT, <1>1, <1>2 DEF HeadInv, NoHead
<1>4. PICK C : head' = [head EXCEPT !.ver = @ + 1, !.ids = C]
  BY DEF CheckpointLands
<1>5. head' = [ver |-> head.ver + 1, wm |-> head.wm, ts |-> head.ts, ids |-> C]
  BY <1>2, <1>4
<1>6. PICK h : h = head'
  OBVIOUS
<1>7. /\ h = [ver |-> h.ver, wm |-> h.wm, ts |-> h.ts, ids |-> h.ids]
      /\ h.ver = head.ver + 1 /\ h.wm = head.wm /\ h.ts = head.ts
  BY <1>5, <1>6
<1>8. h.ver \in Nat /\ h.ver > 0 /\ Past(h.wm) /\ Reaches(h.wm)
  BY SMT, <1>2, <1>7
<1>9. RowsInv' /\ HeadInv' /\ Kept
  BY <1>3, <1>6, <1>7, <1>8, WriteKeeps
<1>10. UNCHANGED Prefix
  BY <1>6, <1>7 DEF Prefix
<1>11. SegsInv'
  BY ParentSegs
<1> QED BY <1>9, <1>10, <1>11 DEF StoreInv

\* seed_legacy_summary_segment leaves the prefix alone.
LEMMA SeedWrites ==
    ASSUME Inv, NEW q, SeedPlan(q), head.ver > 0, head.wm \in {0, q.wm},
           head' = [head EXCEPT !.ver = @ + 1, !.wm = q.wm, !.ids = {Legacy(q.wm)}],
           segs' = {Legacy(q.wm)},
           UNCHANGED <<chat, probes, lastSeq, open>>
    PROVE  StoreInv' /\ Kept /\ UNCHANGED Prefix
<1> USE DEF Inv
<1>1. /\ head = [ver |-> head.ver, wm |-> head.wm, ts |-> head.ts, ids |-> head.ids]
      /\ head.ver \in Nat /\ head.wm \in Nat /\ head.ts \in Nat
  BY DEF HeadInv, Past
<1>2. Past(q.wm) /\ Reaches(q.wm) /\ Early(q.wm) /\ q.wm \in Nat
  BY DEF SeedPlan, Past
<1>3. head' = [ver |-> head.ver + 1, wm |-> q.wm, ts |-> head.ts, ids |-> {Legacy(q.wm)}]
  BY <1>1
<1>4. PICK h : h = head'
  OBVIOUS
<1>5. /\ h = [ver |-> h.ver, wm |-> h.wm, ts |-> h.ts, ids |-> h.ids]
      /\ h.ver = head.ver + 1 /\ h.wm = q.wm /\ h.ts = head.ts
  BY <1>3, <1>4
<1>6. h.ver \in Nat /\ h.ver > 0 /\ Past(h.wm) /\ Reaches(h.wm)
  BY SMT, <1>1, <1>2, <1>5
<1>7. RowsInv' /\ HeadInv' /\ Kept
  BY <1>4, <1>5, <1>6, WriteKeeps
<1>8. \A s \in chat : s \in Nat /\ s > 0
  BY DEF RowsInv, Past
<1>9. Prefix' = {s \in chat : IF q.wm = 0 THEN s < head.ts ELSE s <= q.wm}
  BY <1>4, <1>5 DEF Prefix
<1>10. UNCHANGED Prefix
  <2>1. CASE head.wm = 0 /\ q.wm # 0
    <3>1. q.wm < head.ts
      BY <1>2, <2>1 DEF Early
    <3>2. \A s \in chat : s < head.ts <=> s <= q.wm
      BY SMT, <1>1, <1>2, <1>8, <3>1 DEF Reaches
    <3> QED BY <1>9, <2>1, <3>2 DEF Prefix
  <2>2. CASE head.wm = q.wm
    BY <1>9, <2>2 DEF Prefix
  <2> QED BY <2>1, <2>2
<1>11. SegsInv'
  <2>1. /\ Layered({Legacy(q.wm)}, q.wm)
        /\ Canonical({Legacy(q.wm)}, q.wm) = {Legacy(q.wm)}
    BY <1>2, LegacyAlone
  <2>2. Layered(segs, head.wm)' /\ Canonical(segs, head.wm)' = {Legacy(q.wm)}
    BY <1>4, <1>5, <2>1
  <2>3. PICK g : g = Legacy(q.wm)
    OBVIOUS
  <2>4. g.kind = "legacy_opaque" /\ g.level = 0 /\ g.lo = 0 /\ g.hi = q.wm /\ g.opaque = q.wm
    BY <2>3 DEF Legacy
  <2>5. Placed(g)'
    BY SMT, <1>2, <2>4 DEF Placed
  <2>6. Spans({g})'
    BY SMT, <1>4, <1>5, <1>8, <2>4 DEF Spans
  <2>7. segs' = {g} /\ head'.ids = {g} /\ head'.wm = q.wm /\ head'.ver # 0
    BY SMT, <1>1, <1>3, <2>3
  <2>8. (\A s \in segs : Placed(s))' /\ \E b \in Nat : \A s \in segs' : s.level <= b
    BY SMT, <2>4, <2>5, <2>7
  <2>9. Spans(segs)' /\ \E s \in segs' : s.hi = head'.wm
    BY <2>4, <2>6, <2>7 DEF Spans
  <2>10. segs' # {} /\ (head.ids = Canonical(segs, head.wm))'
    BY <2>2, <2>3, <2>7
  <2> QED BY <2>2, <2>7, <2>8, <2>9, <2>10 DEF SegsInv
<1> QED BY <1>7, <1>10, <1>11 DEF StoreInv
-----------------------------------------------------------------------------
(* The steps of the workers.                                               *)

\* A worker between two calls has read nothing.
LEMMA IdleIs == Shaped(Idle) /\ Informed(Idle) /\ Informed(Idle)'
<1>1. Idle.pc = "idle" /\ Shaped(Idle)
  BY DEF Idle, Shaped, Fields
<1> QED BY <1>1 DEF Informed

\* A worker that moves while the tables rest.
LEMMA WorkerSound ==
    ASSUME Inv, UNCHANGED <<chat, probes, lastSeq, open, head, segs>>,
           NEW w \in Workers, NEW r, Become(w, r), Shaped(r), Informed(r), StrayInv'
    PROVE  Sound
<1> USE DEF Inv
<1>1. Kept
  BY FreshRests DEF Kept, Past, Reaches, Early
<1>2. RowsInv' /\ SegsInv'
  BY SegsRest DEF RowsInv, Past
<1>3. HeadInv'
  BY <1>1, HeadRests
<1>4. Informed(r)'
  BY <1>1, KeptInformed
<1>5. WorkersInv'
  BY <1>1, <1>4, WorkerMoves
<1>6. UNCHANGED <<chat, Prefix>>
  BY DEF Prefix
<1> QED BY <1>2, <1>3, <1>5, <1>6 DEF Sound

\* Late writes stay good while the store rests.
LEMMA StrayRests ==
    ASSUME StrayInv, UNCHANGED <<chat, head, segs, stray>>
    PROVE  StrayInv'
BY DEF StrayInv, LeafPlan, RollupPlan, Reaches, Fresh

\* A worker that finishes leaves the store alone.
LEMMA FinishSound ==
    ASSUME Inv, UNCHANGED <<chat, probes, lastSeq, open, head, segs>>,
           NEW w \in Workers, NEW next, Finish(w, next), StrayInv'
    PROVE  Sound
<1>1. Become(w, Idle)
  BY DEF Finish
<1> QED BY <1>1, IdleIs, WorkerSound

\* due_compaction_users leaves it alone.
LEMMA ScanSound ==
    ASSUME Inv, BacklogScan
    PROVE  Sound
<1>1. UNCHANGED <<chat, probes, lastSeq, open, head, segs, wk, stray>>
  BY DEF BacklogScan, rowVars
<1>2. Inv'
  BY <1>1, FewerRows
<1>3. UNCHANGED <<chat, Prefix>>
  BY <1>1 DEF Prefix
<1> QED BY <1>2, <1>3 DEF Sound

\* A maintenance job that starts has read the head.
LEMMA StartMaintenanceSound ==
    ASSUME Inv, StartMaintenance
    PROVE  Sound
<1> DEFINE r == [Idle EXCEPT !.pc = "count", !.own = TRUE,
                             !.ver = head.ver, !.wm = Translated(head)]
<1>1. /\ UNCHANGED <<chat, probes, lastSeq, open, head, segs, stray>>
      /\ "maintenance" \in Workers /\ Become("maintenance", r)
  BY DEF StartMaintenance, rowVars, Workers
<1>2. Shaped(r) /\ r.pc = "count" /\ r.wm = Translated(head) /\ r.ver = head.ver
  BY DEF Shaped, Fields, Idle
<1>3. /\ Translated(head) \in Nat /\ Reaches(Translated(head))
      /\ Fresh(head.ver, Translated(head))
  BY TranslatedIs, TranslatedFresh DEF Inv, Past
<1> HIDE DEF r
<1>4. Informed(r)
  BY <1>2, <1>3 DEF Informed
<1>5. StrayInv'
  BY <1>1, StrayRests DEF Inv
<1> QED BY <1>1, <1>2, <1>4, <1>5, WorkerSound

\* A turn that starts to catch up leaves the store alone.
LEMMA StartTurnSound ==
    ASSUME Inv, NEW w \in Turns, NEW t, StartTurn(w, t)
    PROVE  Sound
<1> DEFINE r == [Idle EXCEPT !.pc = "head", !.own = TRUE, !.through = t]
<1>1. /\ UNCHANGED <<chat, probes, lastSeq, open, head, segs, stray>>
      /\ w \in Workers /\ Become(w, r)
  BY DEF StartTurn, rowVars, Workers
<1>2. Shaped(r) /\ r.pc = "head"
  BY DEF Shaped, Fields, Idle
<1> HIDE DEF r
<1>3. Informed(r)
  BY <1>2 DEF Informed
<1>4. StrayInv'
  BY <1>1, StrayRests DEF Inv
<1> QED BY <1>1, <1>2, <1>3, <1>4, WorkerSound

\* So does one that bounds an old summary.
LEMMA StartBoundingSound ==
    ASSUME Inv, NEW w \in Turns, StartBounding(w)
    PROVE  Sound
<1> DEFINE r == [Idle EXCEPT !.pc = "frontier", !.own = TRUE]
<1>1. /\ UNCHANGED <<chat, probes, lastSeq, open, head, segs, stray>>
      /\ w \in Workers /\ Become(w, r)
  BY DEF StartBounding, rowVars, Workers
<1>2. Shaped(r) /\ r.pc = "frontier"
  BY DEF Shaped, Fields, Idle
<1> HIDE DEF r
<1>3. Informed(r)
  BY <1>2 DEF Informed
<1>4. StrayInv'
  BY <1>1, StrayRests DEF Inv
<1> QED BY <1>1, <1>2, <1>3, <1>4, WorkerSound

\* A turn has read the head.
LEMMA ReadsHeadSound ==
    ASSUME Inv, NEW w \in Workers, TurnReadsHead(w)
    PROVE  Sound
<1>1. UNCHANGED <<chat, probes, lastSeq, open, head, segs, stray>>
  BY DEF TurnReadsHead, rowVars
<1>2. StrayInv'
  BY <1>1, StrayRests DEF Inv
<1>3. \/ Finish(w, "pending")
      \/ \E n : Become(w, [wk[w] EXCEPT !.pc = "count", !.ver = head.ver,
                             !.wm = Translated(head), !.last = Translated(head),
                             !.tried = FALSE, !.retries = n])
  BY DEF TurnReadsHead
<1>4. CASE Finish(w, "pending")
  BY <1>1, <1>2, <1>4, FinishSound
<1>5. ASSUME NEW n,
             Become(w, [wk[w] EXCEPT !.pc = "count", !.ver = head.ver,
                          !.wm = Translated(head), !.last = Translated(head),
                          !.tried = FALSE, !.retries = n])
      PROVE  Sound
  <2> DEFINE r == [wk[w] EXCEPT !.pc = "count", !.ver = head.ver,
                     !.wm = Translated(head), !.last = Translated(head),
                     !.tried = FALSE, !.retries = n]
  <2>1. Shaped(wk[w])
    BY DEF Inv, WorkersInv
  <2>2. Shaped(r) /\ r.pc = "count" /\ r.wm = Translated(head) /\ r.ver = head.ver
    BY <2>1 DEF Shaped, Fields
  <2>3. Become(w, r)
    BY <1>5
  <2>4. /\ Translated(head) \in Nat /\ Reaches(Translated(head))
        /\ Fresh(head.ver, Translated(head))
    BY TranslatedIs, TranslatedFresh DEF Inv, Past
  <2> HIDE DEF r
  <2>5. Informed(r)
    BY <2>2, <2>4 DEF Informed
  <2> QED BY <1>1, <1>2, <2>2, <2>3, <2>5, WorkerSound
<1> QED BY <1>3, <1>4, <1>5

\* Counting uncovered rows leaves the store alone.
LEMMA CountSound ==
    ASSUME Inv, NEW w \in Workers, CountRows(w)
    PROVE  Sound
<1>1. UNCHANGED <<chat, probes, lastSeq, open, head, segs, stray>> /\ wk[w].pc = "count"
  BY DEF CountRows, rowVars, At
<1>2. StrayInv'
  BY <1>1, StrayRests DEF Inv
<1>3. Finish(w, "none") \/ \E n : Become(w, [wk[w] EXCEPT !.pc = "bounds", !.n = n])
  BY DEF CountRows
<1>4. CASE Finish(w, "none")
  BY <1>1, <1>2, <1>4, FinishSound
<1>5. ASSUME NEW n, Become(w, [wk[w] EXCEPT !.pc = "bounds", !.n = n])
      PROVE  Sound
  <2> DEFINE r == [wk[w] EXCEPT !.pc = "bounds", !.n = n]
  <2>1. Shaped(wk[w]) /\ Informed(wk[w])
    BY DEF Inv, WorkersInv
  <2>2. Shaped(r) /\ r.pc = "bounds" /\ r.wm = wk[w].wm /\ r.ver = wk[w].ver
    BY <2>1 DEF Shaped, Fields
  <2>3. Become(w, r)
    BY <1>5
  <2> HIDE DEF r
  <2>4. Informed(r)
    BY <1>1, <2>1, <2>2 DEF Informed
  <2> QED BY <1>1, <1>2, <2>2, <2>3, <2>4, WorkerSound
<1> QED BY <1>3, <1>4, <1>5

\* The leaf planned from the bounds is a good plan.
LEMMA BoundsSound ==
    ASSUME Inv, NEW w \in Workers, ReadBounds(w)
    PROVE  Sound
<1>1. UNCHANGED <<chat, probes, lastSeq, open, head, segs, stray>> /\ wk[w].pc = "bounds"
  BY DEF ReadBounds, rowVars, At
<1>2. StrayInv'
  BY <1>1, StrayRests DEF Inv
<1>3. \/ \E next : Finish(w, next)
      \/ \E s : Become(w, [wk[w] EXCEPT !.pc = "append", !.n = 0, !.tried = TRUE,
                     !.req = [kind |-> "leaf", ver |-> wk[w].ver, wm |-> wk[w].wm,
                              seg |-> s, kids |-> {}]])
  BY DEF ReadBounds
<1>4. ASSUME NEW next, Finish(w, next)
      PROVE  Sound
  BY <1>1, <1>2, <1>4, FinishSound
<1>5. ASSUME NEW s,
             Become(w, [wk[w] EXCEPT !.pc = "append", !.n = 0, !.tried = TRUE,
                     !.req = [kind |-> "leaf", ver |-> wk[w].ver, wm |-> wk[w].wm,
                              seg |-> s, kids |-> {}]])
      PROVE  Sound
  <2> DEFINE q == [kind |-> "leaf", ver |-> wk[w].ver, wm |-> wk[w].wm,
                   seg |-> s, kids |-> {}]
             r == [wk[w] EXCEPT !.pc = "append", !.n = 0, !.tried = TRUE, !.req = q]
  <2>1. Shaped(wk[w]) /\ Informed(wk[w])
    BY DEF Inv, WorkersInv
  <2>2. q.kind = "leaf" /\ q.wm = wk[w].wm /\ q.ver = wk[w].ver
    OBVIOUS
  <2>3. Become(w, r)
    BY <1>5
  <2> HIDE DEF q
  <2>4. Shaped(r) /\ r.pc = "append" /\ r.req = q
    BY <2>1 DEF Shaped, Fields
  <2> HIDE DEF r
  <2>5. LeafPlan(q)
    BY <1>1, <2>1, <2>2 DEF Informed, LeafPlan
  <2>6. Informed(r)
    BY <2>4, <2>5 DEF Informed
  <2> QED BY <1>1, <1>2, <2>3, <2>4, <2>6, WorkerSound
<1> QED BY <1>3, <1>4, <1>5

\* The end of a roll-up: the worker is done, or looks at the head again.
LEMMA AfterRollupSound ==
    ASSUME Inv, UNCHANGED <<chat, probes, lastSeq, open, head, segs>>,
           NEW w \in Workers, AfterRollup(w), StrayInv'
    PROVE  Sound
<1>1. \/ \E next : Finish(w, next)
      \/ Become(w, [wk[w] EXCEPT !.pc = "head", !.req = NoWrite, !.passes = 0,
                                 !.stuck = 0])
  BY DEF AfterRollup
<1>2. ASSUME NEW next, Finish(w, next)
      PROVE  Sound
  BY <1>2, FinishSound
<1>3. CASE Become(w, [wk[w] EXCEPT !.pc = "head", !.req = NoWrite, !.passes = 0,
                                   !.stuck = 0])
  <2> DEFINE r == [wk[w] EXCEPT !.pc = "head", !.req = NoWrite, !.passes = 0,
                                !.stuck = 0]
  <2>1. Shaped(wk[w])
    BY DEF Inv, WorkersInv
  <2>2. Shaped(r) /\ r.pc = "head"
    BY <2>1 DEF Shaped, Fields
  <2>3. Become(w, r)
    BY <1>3
  <2> HIDE DEF r
  <2>4. Informed(r)
    BY <2>2 DEF Informed
  <2> QED BY <2>2, <2>3, <2>4, WorkerSound
<1> QED BY <1>1, <1>2, <1>3

\* The checkpoint or seed planned from the frontier is a good plan.
LEMMA FrontierSound ==
    ASSUME Inv, NEW w \in Workers, ReadFrontier(w)
    PROVE  Sound
<1>1. UNCHANGED <<chat, probes, lastSeq, open, head, segs, stray>>
  BY DEF ReadFrontier, rowVars
<1>2. StrayInv'
  BY <1>1, StrayRests DEF Inv
<1>3. \/ \E next : Finish(w, next)
      \/ AfterRollup(w)
      \/ Become(w, [wk[w] EXCEPT !.pc = "seed",
              !.req = [NoWrite EXCEPT !.ver = head.ver, !.wm = Translated(head)]])
      \/ \E C, s : /\ C # {}
                   /\ Become(w, [wk[w] EXCEPT !.pc = "checkpoint",
                           !.req = [kind |-> "checkpoint", ver |-> head.ver,
                                    wm |-> head.wm, seg |-> s, kids |-> C]])
  BY DEF ReadFrontier
<1>4. ASSUME NEW next, Finish(w, next)
      PROVE  Sound
  BY <1>1, <1>2, <1>4, FinishSound
<1>5. CASE AfterRollup(w)
  BY <1>1, <1>2, <1>5, AfterRollupSound
<1>6. CASE Become(w, [wk[w] EXCEPT !.pc = "seed",
              !.req = [NoWrite EXCEPT !.ver = head.ver, !.wm = Translated(head)]])
  <2> DEFINE q == [NoWrite EXCEPT !.ver = head.ver, !.wm = Translated(head)]
             r == [wk[w] EXCEPT !.pc = "seed", !.req = q]
  <2>1. Shaped(wk[w])
    BY DEF Inv, WorkersInv
  <2>2. q.wm = Translated(head)
    BY DEF NoWrite
  <2>3. Become(w, r)
    BY <1>6
  <2> HIDE DEF q
  <2>4. Shaped(r) /\ r.pc = "seed" /\ r.req = q
    BY <2>1 DEF Shaped, Fields
  <2> HIDE DEF r
  <2>5. SeedPlan(q)
    BY <2>2, TranslatedIs DEF Inv, SeedPlan
  <2>6. Informed(r)
    BY <2>4, <2>5 DEF Informed
  <2> QED BY <1>1, <1>2, <2>3, <2>4, <2>6, WorkerSound
<1>7. ASSUME NEW C, NEW s, C # {},
             Become(w, [wk[w] EXCEPT !.pc = "checkpoint",
                     !.req = [kind |-> "checkpoint", ver |-> head.ver,
                              wm |-> head.wm, seg |-> s, kids |-> C]])
      PROVE  Sound
  <2> DEFINE q == [kind |-> "checkpoint", ver |-> head.ver, wm |-> head.wm,
                   seg |-> s, kids |-> C]
             r == [wk[w] EXCEPT !.pc = "checkpoint", !.req = q]
  <2>1. Shaped(wk[w])
    BY DEF Inv, WorkersInv
  <2>2. RollupPlan(q)
    BY <1>7 DEF RollupPlan
  <2>3. Become(w, r)
    BY <1>7
  <2> HIDE DEF q
  <2>4. Shaped(r) /\ r.pc = "checkpoint" /\ r.req = q
    BY <2>1 DEF Shaped, Fields
  <2> HIDE DEF r
  <2>5. Informed(r)
    BY <2>2, <2>4 DEF Informed
  <2> QED BY <1>1, <1>2, <2>3, <2>4, <2>5, WorkerSound
<1> QED BY <1>3, <1>4, <1>5, <1>6, <1>7

\* A worker whose write has landed: w becomes r, which carries no plan.
LEMMA WriterSound ==
    ASSUME Inv, StoreInv', Kept, NEW w \in Workers, NEW r, Become(w, r), Shaped(r),
           r.pc \in {"idle", "head", "frontier"}, UNCHANGED stray,
           Prefixed!Next \/ UNCHANGED <<chat, Prefix>>
    PROVE  Sound
<1>1. Informed(r)'
  BY DEF Informed
<1>2. WorkersInv'
  BY <1>1, WorkerMoves DEF Inv
<1>3. StrayInv'
  BY KeptPlans DEF Inv, StrayInv
<1> QED BY <1>2, <1>3 DEF Sound, Inv, StoreInv

\* Appending a leaf is sound, whether it fits or is refused.
LEMMA AppendSound ==
    ASSUME Inv, NEW w \in Workers, AppendLeaf(w)
    PROVE  Sound
<1>1. /\ UNCHANGED <<chat, probes, lastSeq, open, stray>> /\ wk[w].pc = "append"
      /\ Shaped(wk[w]) /\ Informed(wk[w])
  BY DEF AppendLeaf, rowVars, At, Inv, WorkersInv
<1>2. CASE LeafFits(wk[w].req)
  <2> DEFINE r == [wk[w] EXCEPT !.pc = "frontier", !.wm = wk[w].req.seg.hi,
                                !.ver = 0, !.req = NoWrite]
  <2>1. LeafLands(wk[w].req) /\ Become(w, r)
    BY <1>2 DEF AppendLeaf
  <2>2. Shaped(r) /\ r.pc = "frontier"
    BY <1>1 DEF Shaped, Fields
  <2> HIDE DEF r
  <2>3. PICK q : q = wk[w].req
    OBVIOUS
  <2>4. LeafPlan(q) /\ LeafFits(q) /\ LeafLands(q)
    BY <1>1, <1>2, <2>1, <2>3 DEF Informed
  <2>5. StoreInv' /\ Kept /\ Prefixed!Next
    BY <1>1, <2>4, LeafWrites
  <2> QED BY <1>1, <2>1, <2>2, <2>5, WriterSound
<1>3. CASE ~LeafFits(wk[w].req)
  <2> DEFINE r == [wk[w] EXCEPT !.pc = "head", !.req = NoWrite]
  <2>1. UNCHANGED <<head, segs>> /\ (Finish(w, "pending") \/ Become(w, r))
    BY <1>3 DEF AppendLeaf
  <2>2. Shaped(r) /\ r.pc = "head"
    BY <1>1 DEF Shaped, Fields
  <2> HIDE DEF r
  <2>3. StrayInv'
    BY <1>1, <2>1, StrayRests DEF Inv
  <2>4. Informed(r)
    BY <2>2 DEF Informed
  <2> QED BY <1>1, <2>1, <2>2, <2>3, <2>4, FinishSound, WorkerSound
<1> QED BY <1>2, <1>3

\* So is seeding an old summary.
LEMMA SeedSound ==
    ASSUME Inv, NEW w \in Workers, SeedLegacy(w)
    PROVE  Sound
<1> DEFINE q == wk[w].req
           lands == /\ segs = {} /\ head.ver > 0
                    /\ head.ver = q.ver /\ head.ids = {} /\ head.wm \in {0, q.wm}
           r == [wk[w] EXCEPT !.pc = "frontier", !.req = NoWrite]
<1>1. /\ UNCHANGED <<chat, probes, lastSeq, open, stray>> /\ wk[w].pc = "seed"
      /\ Shaped(wk[w]) /\ Informed(wk[w])
  BY DEF SeedLegacy, rowVars, At, Inv, WorkersInv
<1>2. Shaped(r) /\ r.pc = "frontier"
  BY <1>1 DEF Shaped, Fields
<1>3. CASE lands
  <2>1. /\ head' = [head EXCEPT !.ver = @ + 1, !.wm = q.wm, !.ids = {Legacy(q.wm)}]
        /\ segs' = {Legacy(q.wm)} /\ Become(w, r)
    BY <1>3 DEF SeedLegacy
  <2>2. PICK p : p = q
    OBVIOUS
  <2>3. /\ SeedPlan(p) /\ head.ver > 0 /\ head.wm \in {0, p.wm}
        /\ head' = [head EXCEPT !.ver = @ + 1, !.wm = p.wm, !.ids = {Legacy(p.wm)}]
        /\ segs' = {Legacy(p.wm)}
    BY <1>1, <1>3, <2>1, <2>2 DEF Informed
  <2>4. StoreInv' /\ Kept /\ UNCHANGED Prefix
    BY <1>1, <2>3, SeedWrites
  <2> HIDE DEF r
  <2> QED BY <1>1, <1>2, <2>1, <2>4, WriterSound
<1>4. CASE ~lands
  <2>1. UNCHANGED <<head, segs>> /\ (Finish(w, "none") \/ Become(w, r))
    BY <1>4 DEF SeedLegacy
  <2>2. StrayInv'
    BY <1>1, <2>1, StrayRests DEF Inv
  <2> HIDE DEF r
  <2>3. Informed(r)
    BY <1>2 DEF Informed
  <2> QED BY <1>1, <1>2, <2>1, <2>2, <2>3, FinishSound, WorkerSound
<1> QED BY <1>3, <1>4

\* So is appending a checkpoint.
LEMMA CheckpointSound ==
    ASSUME Inv, NEW w \in Workers, AppendCheckpoint(w)
    PROVE  Sound
<1> DEFINE again == [wk[w] EXCEPT !.pc = "frontier", !.passes = @ + 1, !.req = NoWrite]
<1>1. /\ UNCHANGED <<chat, probes, lastSeq, open, stray>> /\ wk[w].pc = "checkpoint"
      /\ Shaped(wk[w]) /\ Informed(wk[w])
  BY DEF AppendCheckpoint, rowVars, At, Inv, WorkersInv
<1>2. Shaped(again) /\ again.pc = "frontier"
  BY <1>1 DEF Shaped, Fields
<1>3. /\ CheckpointFits(wk[w].req) =>
            CheckpointLands(wk[w].req) /\ Become(w, [again EXCEPT !.stuck = 0])
      /\ ~CheckpointFits(wk[w].req) =>
            /\ UNCHANGED <<head, segs>>
            /\ AfterRollup(w) \/ Become(w, [again EXCEPT !.stuck = @ + 1])
  BY DEF AppendCheckpoint
<1> HIDE DEF again
<1>4. \A k : Shaped([again EXCEPT !.stuck = k])
             /\ [again EXCEPT !.stuck = k].pc = "frontier"
  BY <1>2 DEF Shaped, Fields
<1>5. CASE CheckpointFits(wk[w].req)
  <2> DEFINE r == [again EXCEPT !.stuck = 0]
  <2>1. Become(w, r) /\ Shaped(r) /\ r.pc = "frontier"
    BY <1>3, <1>4, <1>5
  <2> HIDE DEF r
  <2>2. PICK q : q = wk[w].req
    OBVIOUS
  <2>3. RollupPlan(q) /\ CheckpointFits(q) /\ CheckpointLands(q)
    BY <1>1, <1>3, <1>5, <2>2 DEF Informed
  <2>4. StoreInv' /\ Kept /\ UNCHANGED Prefix
    BY <1>1, <2>3, CheckpointWrites
  <2> QED BY <1>1, <2>1, <2>4, WriterSound
<1>6. CASE ~CheckpointFits(wk[w].req)
  <2> DEFINE r == [again EXCEPT !.stuck = @ + 1]
  <2>1. UNCHANGED <<head, segs>> /\ (AfterRollup(w) \/ Become(w, r))
    BY <1>3, <1>6
  <2>2. Shaped(r) /\ r.pc = "frontier"
    BY <1>4
  <2> HIDE DEF r
  <2>3. StrayInv'
    BY <1>1, <2>1, StrayRests DEF Inv
  <2>4. Informed(r)
    BY <2>2 DEF Informed
  <2> QED BY <1>1, <2>1, <2>2, <2>3, <2>4, AfterRollupSound, WorkerSound
<1> QED BY <1>5, <1>6

\* A call given up leaves a good plan behind.
LEMMA GiveUpSound ==
    ASSUME Inv, NEW w \in Workers, GiveUp(w)
    PROVE  Sound
<1>1. /\ UNCHANGED <<chat, probes, lastSeq, open, head, segs>>
      /\ stray' = stray \union {wk[w].req}
      /\ Shaped(wk[w]) /\ Informed(wk[w])
  BY DEF GiveUp, rowVars, Inv, WorkersInv
<1>2. \/ wk[w].pc = "append" /\ Finish(w, "pending")
      \/ wk[w].pc = "checkpoint" /\ AfterRollup(w)
  BY DEF GiveUp, At
<1>3. PICK q : q = wk[w].req
  OBVIOUS
<1>4. LeafPlan(q) \/ RollupPlan(q)
  BY <1>1, <1>2, <1>3 DEF Informed
<1>5. StrayInv'
  BY <1>1, <1>3, <1>4 DEF Inv, StrayInv, LeafPlan, RollupPlan, Reaches, Fresh
<1> QED BY <1>1, <1>2, <1>5, FinishSound, AfterRollupSound

\* The death of a worker leaves the store alone.
LEMMA CrashSound ==
    ASSUME Inv, NEW w \in Workers, Crash(w)
    PROVE  Sound
<1>1. UNCHANGED <<chat, probes, lastSeq, open, head, segs, stray>> /\ Become(w, Idle)
  BY DEF Crash, rowVars
<1>2. StrayInv'
  BY <1>1, StrayRests DEF Inv
<1> QED BY <1>1, <1>2, IdleIs, WorkerSound

\* A late write is sound, whether it fits or is refused.
LEMMA StraySound ==
    ASSUME Inv, NEW q \in stray, StrayLands(q)
    PROVE  Sound
<1>1. UNCHANGED <<chat, probes, lastSeq, open, wk>> /\ stray' \subseteq stray
  BY DEF StrayLands, rowVars
<1>2. LeafPlan(q) \/ RollupPlan(q)
  BY DEF Inv, StrayInv
<1>3. ASSUME StoreInv', Kept, Prefixed!Next \/ UNCHANGED <<chat, Prefix>>
      PROVE  Sound
  <2>1. WorkersInv' /\ StrayInv'
    BY <1>1, <1>3, WorkersRest DEF Inv
  <2> QED BY <1>3, <2>1 DEF Sound, Inv, StoreInv
<1>4. CASE ~Fits(q)
  <2>1. UNCHANGED <<head, segs>>
    BY <1>4 DEF StrayLands
  <2>2. Kept /\ RowsInv'
    BY <1>1, <2>1, FreshRests DEF Inv, Kept, Past, Reaches, Early, RowsInv
  <2>3. HeadInv' /\ SegsInv'
    BY <1>1, <2>1, <2>2, HeadRests, SegsRest DEF Inv
  <2>4. UNCHANGED <<chat, Prefix>>
    BY <1>1, <2>1 DEF Prefix
  <2> QED BY <1>3, <2>2, <2>3, <2>4 DEF StoreInv
<1>5. CASE Fits(q) /\ LeafPlan(q)
  <2>1. q.kind = "leaf" /\ Lands(q)
    BY <1>5 DEF StrayLands, LeafPlan
  <2>2. LeafFits(q) /\ LeafLands(q)
    BY <1>5, <2>1 DEF Fits, Lands
  <2>3. StoreInv' /\ Kept /\ Prefixed!Next
    BY <1>1, <1>5, <2>2, LeafWrites
  <2> QED BY <1>3, <2>3
<1>6. CASE Fits(q) /\ RollupPlan(q)
  <2>1. q.kind # "leaf" /\ Lands(q)
    BY <1>6 DEF StrayLands, RollupPlan
  <2>2. CheckpointFits(q) /\ CheckpointLands(q)
    BY <1>6, <2>1 DEF Fits, Lands
  <2>3. StoreInv' /\ Kept /\ UNCHANGED Prefix
    BY <1>1, <1>6, <2>2, CheckpointWrites
  <2> QED BY <1>1, <1>3, <2>3
<1> QED BY <1>2, <1>4, <1>5, <1>6

-----------------------------------------------------------------------------
(* The theorems.                                                           *)

\* The invariant holds of an empty and of a pre-segmentation database.
LEMMA InitSound == Init => Inv
<1> SUFFICES ASSUME Init
             PROVE  Inv
  OBVIOUS
<1>1. LegacyRows \in Nat
  BY SummaryAssumption
<1>2. chat = 1..LegacyRows /\ probes = {} /\ lastSeq = LegacyRows /\ open = {}
      /\ wk = [w \in Workers |-> Idle] /\ stray = {}
  BY DEF Init
<1>3. RowsInv
  BY SMT, <1>1, <1>2 DEF RowsInv, Past
<1>4. head = IF LegacyRows = 0 THEN NoHead
             ELSE [ver |-> 1, wm |-> 0, ts |-> LegacyRows, ids |-> {}]
  BY DEF Init
<1>5. HeadInv
  <2>1. Past(0) /\ Past(LegacyRows)
    BY SMT, <1>1, <1>2 DEF Past
  <2>2. CASE LegacyRows = 0
    <3>1. /\ head = NoHead /\ NoHead.ver = 0 /\ NoHead.wm = 0 /\ NoHead.ts = 0
          /\ NoHead.ids = {}
          /\ NoHead = [ver |-> NoHead.ver, wm |-> NoHead.wm, ts |-> NoHead.ts,
                       ids |-> NoHead.ids]
      BY <1>4, <2>2 DEF NoHead
    <3> QED BY SMT, <2>1, <3>1 DEF HeadInv
  <2>3. CASE LegacyRows # 0
    <3> DEFINE h == [ver |-> 1, wm |-> 0, ts |-> LegacyRows, ids |-> {}]
    <3>1. /\ h.ver = 1 /\ h.wm = 0 /\ h.ts = LegacyRows /\ h.ids = {}
          /\ h = [ver |-> h.ver, wm |-> h.wm, ts |-> h.ts, ids |-> h.ids]
      OBVIOUS
    <3>2. head = h
      BY <1>4, <2>3
    <3> HIDE DEF h
    <3> QED BY SMT, <1>1, <2>1, <2>3, <3>1, <3>2 DEF HeadInv
  <2> QED BY <2>2, <2>3
<1>6. WorkersInv
  BY <1>2, IdleIs DEF WorkersInv
<1>7. StrayInv
  BY <1>2 DEF StrayInv
<1>8. SegsInv
  <2>1. segs = {} /\ head.wm = 0 /\ head.ids = {}
    BY SMT, <1>4 DEF Init, NoHead
  <2>2. Layered(segs, head.wm) /\ Canonical(segs, head.wm) = {}
    BY <2>1 DEF Layered, Canonical
  <2> QED BY <2>1, <2>2 DEF SegsInv
<1> QED BY <1>3, <1>5, <1>6, <1>7, <1>8 DEF Inv

\* Every step is sound.
LEMMA NextSound ==
    ASSUME Inv, [Next]_vars
    PROVE  Sound
<1>1. CASE UNCHANGED vars
  <2>1. UNCHANGED <<chat, probes, lastSeq, open, head, segs, wk, stray>>
    BY <1>1 DEF vars
  <2>2. Inv'
    BY <2>1, FewerRows
  <2> QED BY <2>1, <2>2 DEF Sound, Prefix
<1>2. ASSUME NEW probe \in BOOLEAN, InsertRow(probe)
      PROVE  Sound
  BY <1>2, InsertSound
<1>3. ASSUME NEW r \in open, CommitRow(r) \/ AbortRow(r)
      PROVE  Sound
  BY <1>3, CommitSound, AbortSound
<1>4. ASSUME NEW s \in probes, DeleteProbe(s)
      PROVE  Sound
  BY <1>4, DeleteProbeSound
<1>5. ASSUME NEW s \in chat, FindCallRows(s)
      PROVE  Sound
  BY <1>5, FindSound
<1>6. CASE DeleteCallRows
  BY <1>6, DeleteSound
<1>7. CASE Clear
  BY <1>7, ClearSound
<1>8. CASE BacklogScan
  BY <1>8, ScanSound
<1>9. CASE StartMaintenance
  BY <1>9, StartMaintenanceSound
<1>10. ASSUME NEW w \in Turns,
              StartBounding(w) \/ (\E t \in {0, lastSeq} : StartTurn(w, t))
       PROVE  Sound
  BY <1>10, StartBoundingSound, StartTurnSound
<1>11. ASSUME NEW w \in Workers, WorkerStep(w)
       PROVE  Sound
  BY <1>11, ReadsHeadSound, CountSound, BoundsSound, AppendSound, FrontierSound,
     SeedSound, CheckpointSound DEF WorkerStep
<1>12. ASSUME NEW w \in Workers, GiveUp(w) \/ Crash(w)
       PROVE  Sound
  BY <1>12, GiveUpSound, CrashSound
<1>13. ASSUME NEW q \in stray, StrayLands(q)
       PROVE  Sound
  BY <1>13, StraySound
<1> QED
  BY <1>1, <1>2, <1>3, <1>4, <1>5, <1>6, <1>7, <1>8, <1>9, <1>10, <1>11, <1>12, <1>13
     DEF Next

\* The invariant of the argument: a row never appears below one already seen,
\* and a plan read before an await still reaches the end of an old summary
\* when append_summary_leaf_cas, insert_summary_checkpoint or
\* seed_legacy_summary_segment uses it, or when its stray thread does.
THEOREM PlansStayGood == Spec => []Inv
<1>1. Inv /\ [Next]_vars => Inv'
  BY NextSound DEF Sound
<1> QED BY InitSound, <1>1, PTL DEF Spec

\* The cover of a set of segments whose rows are all spanned.
LEMMA CoverWhole ==
    ASSUME Inv
    PROVE  CoverIsWhole
<1> USE DEF Inv
<1> SUFFICES ASSUME Segmented
             PROVE  /\ WellPlaced(head, segs)
                    /\ \A r \in chat : r <= head.wm =>
                          \E s \in head.ids : s.lo <= r /\ r <= s.hi
  BY DEF CoverIsWhole
<1>1. PICK F, w : F = Canonical(segs, head.wm) /\ w = head.wm
  OBVIOUS
<1>2. /\ w \in Nat /\ lastSeq \in Nat /\ w <= lastSeq
      /\ \A r \in chat : r \in Nat /\ 0 < r /\ r <= lastSeq
  BY <1>1 DEF RowsInv, HeadInv, Past
<1>3. /\ head.ids = F /\ Layered(segs, w) /\ Spans(segs)
      /\ \A s \in segs : Placed(s)
      /\ \E s \in segs : s.hi = w
  BY <1>1 DEF SegsInv, Segmented
<1>4. F \subseteq segs
  BY <1>1 DEF Canonical
<1>5. \A s \in segs : /\ {s.lo, s.hi, s.opaque} \subseteq Nat /\ s.lo <= s.hi /\ s.hi <= w
                     /\ s.opaque <= s.hi
                     /\ (s.kind = "legacy_opaque" => s.lo = 0)
                     /\ (s.kind # "legacy_opaque" => s.lo \in chat)
  BY <1>3 DEF Layered, Placed
<1>6. \A s \in segs : \E c \in F : c.lo <= s.lo /\ s.hi <= c.hi
  BY <1>1, <1>3 DEF Layered, Within
<1>7. \A s, t \in F : s = t \/ Disjoint(s, t)
  BY <1>1, <1>2, <1>3, CoverDisjoint
<1>8. \A r \in chat : r <= w => \E s \in F : s.lo <= r /\ r <= s.hi
  <2> SUFFICES ASSUME NEW r \in chat, r <= w
               PROVE  \E s \in F : s.lo <= r /\ r <= s.hi
    OBVIOUS
  <2>1. PICK s \in segs : s.lo <= r /\ r <= s.hi
    BY <1>1, <1>3 DEF Spans
  <2>2. PICK c \in F : c.lo <= s.lo /\ s.hi <= c.hi
    BY <1>6
  <2>3. c.lo <= r /\ r <= c.hi
    BY SMT, <1>2, <1>4, <1>5, <2>1, <2>2
  <2> QED BY <2>3
<1>9. \A s, t \in Kinds(F) : s = t
  <2>1. \A s, t \in Kinds(F) : ~Disjoint(s, t)
    BY SMT, <1>4, <1>5 DEF Kinds, Disjoint
  <2> QED BY <1>7, <2>1 DEF Kinds
<1>10. \A s \in Kinds(F) : s.lo = 0
  BY <1>4, <1>5 DEF Kinds
<1>11. w = 0 => F = Kinds(F) /\ \A s \in F : s.hi = 0 /\ s.opaque = 0
  <2> SUFFICES ASSUME w = 0
               PROVE  F = Kinds(F) /\ \A s \in F : s.hi = 0 /\ s.opaque = 0
    OBVIOUS
  <2>1. \A s \in F : s.hi = 0 /\ s.opaque = 0 /\ s.lo = 0
    BY SMT, <1>4, <1>5
  <2>2. \A s \in F : s.kind = "legacy_opaque"
    BY SMT, <1>2, <1>4, <1>5, <2>1
  <2> QED BY <2>1, <2>2 DEF Kinds
<1>12. F # {}
  BY <1>3, <1>6
<1>13. Max({s.hi : s \in F}) = w
  <2> DEFINE his == {s.hi : s \in F}
  <2>1. his \subseteq Nat /\ his # {} /\ \A y \in his : y <= w
    BY <1>4, <1>5, <1>12
  <2>2. w \in his
    <3>1. PICK s \in segs : s.hi = w
      BY <1>3
    <3>2. PICK c \in F : s.hi <= c.hi
      BY <1>6
    <3>3. c.hi = w
      BY SMT, <1>2, <1>4, <1>5, <3>1, <3>2
    <3> QED BY <3>3
  <2> HIDE DEF his
  <2>3. Max(his) \in his /\ w <= Max(his)
    BY <1>2, <2>1, <2>2, MaxIsLargest
  <2>4. Max(his) = w
    <3>1. Max(his) \in Nat /\ Max(his) <= w
      BY <2>1, <2>3
    <3> QED BY SMT, <1>2, <2>3, <3>1
  <2> QED BY <2>4 DEF his
<1>14. Kinds(F) = {} => /\ {r \in chat : r <= w} # {}
                        /\ Min({s.lo : s \in F}) = Min({r \in chat : r <= w})
  <2> SUFFICES ASSUME Kinds(F) = {}
               PROVE  /\ {r \in chat : r <= w} # {}
                      /\ Min({s.lo : s \in F}) = Min({r \in chat : r <= w})
    OBVIOUS
  <2> DEFINE source == {r \in chat : r <= w}
             los == {s.lo : s \in F}
  <2>1. \A s \in F : s.lo \in chat /\ s.lo <= w
    BY SMT, <1>2, <1>4, <1>5 DEF Kinds
  <2>2. los \subseteq source /\ los # {} /\ source \subseteq Nat /\ los \subseteq Nat
    BY <1>2, <1>12, <2>1
  <2>3. \A r \in source : \E y \in los : y <= r
    BY <1>8
  <2> HIDE DEF source, los
  <2>4. /\ Min(los) \in los /\ \A y \in los : Min(los) <= y
        /\ Min(source) \in source /\ \A y \in source : Min(source) <= y
    BY <2>2, MinIsLeast
  <2>5. Min(los) \in Nat /\ Min(source) \in Nat /\ Min(source) <= Min(los)
    BY <2>2, <2>4
  <2>6. PICK y \in los : y <= Min(source)
    BY <2>3, <2>4
  <2>7. Min(los) = Min(source)
    BY SMT, <2>2, <2>4, <2>5, <2>6
  <2> QED BY <2>2, <2>7 DEF source, los
<1>15. WellPlaced(head, segs)
  BY <1>1, <1>3, <1>7, <1>9, <1>10, <1>11, <1>12, <1>13, <1>14 DEF WellPlaced
<1> QED BY <1>1, <1>3, <1>8, <1>15

\* validate_canonical_frontier never finds the segments out of place: whatever
\* compactions, catch-ups, seeds, late commits, clean-ups and Chat Clear do to
\* each other, the cover the prompt is rendered from has no overlap and every
\* row up to the watermark lies in one of its segments.
THEOREM CoverStaysWhole == Spec => []CoverIsWhole
<1> QED BY PlansStayGood, CoverWhole, PTL

\* The store implements CoveredPrefix: whatever the compaction, the turns that
\* catch up, the clean-ups, Chat Clear, late commits and crashes do to each
\* other, rows arrive behind the covered prefix, only rows behind it are
\* deleted, and it grows by whole prefixes.
THEOREM PrefixKept == Spec => KeepsCoveredPrefix
<1>1. Inv => Abstract!Init
  BY DEF Abstract!Init, CoveredRows
<1>2. Inv /\ [Next]_vars => [Abstract!Next]_(Abstract!vars)
  <2> SUFFICES ASSUME Inv, [Next]_vars
               PROVE  Abstract!Next \/ UNCHANGED <<chat, CoveredRows>>
    BY DEF Abstract!vars
  <2>1. Sound
    BY NextSound
  <2>2. CoveredRows = Prefix
    BY CoveredIsPrefix DEF Inv
  <2>3. CoveredRows' = Prefix'
    <3>1. RowsInv' /\ HeadInv' => (CoveredRows = Prefix)'
      BY CoveredIsPrefix, PTL
    <3> QED BY <2>1, <3>1 DEF Sound, Inv
  <2> QED BY <2>1, <2>2, <2>3
      DEF Sound, Prefixed!Next, Prefixed!Post, Prefixed!Drop, Prefixed!Cover,
          Prefixed!Clear, Prefixed!UpTo, Abstract!Next, Abstract!Post, Abstract!Drop,
          Abstract!Cover, Abstract!Clear, Abstract!UpTo
<1> QED BY InitSound, PlansStayGood, <1>1, <1>2, PTL
        DEF Spec, KeepsCoveredPrefix, Abstract!Spec
=============================================================================
