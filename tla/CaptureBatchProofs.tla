------------------------- MODULE CaptureBatchProofs -------------------------
(***************************************************************************)
(* Proofs about CaptureBatch, for any number of worker slots, messages,    *)
(* window sizes, thresholds, disturbances and attempts.                    *)
(*                                                                         *)
(* Two inductive invariants.  Fenced says what a turn may still do with    *)
(* the window it read without a lock: while its provider call is out no    *)
(* revocation has happened, and while it owns the job its window is not    *)
(* cleared.  Accounted adds the ledger of the frontier: the owner's place  *)
(* is the frontier, and every live message behind it is paid for once.     *)
(***************************************************************************)
EXTENDS CaptureBatch, TLAPS

(* Leaves are proved by Zenon unless they cite SMT.                        *)
USE Zenon

Owns(w) == job.owner = {w}

(* A turn that has read the frontier, and one that has read its window.    *)
Placed == {"adopt", "tail", "nowork", "call", "calling", "prepare", "commit", "fail"}
Windowing == {"call", "calling", "prepare"}

(* What a resident capture job may still write lies within the chat.       *)
ResidentsBehind(top) ==
    \A j \in v1 : j.through <= top /\ \A c \in j.seen : c.front <= top

Fenced ==
    /\ rt.gen + left <= MaxFaults
    /\ cap.front <= chat.top
    /\ ResidentsBehind(chat.top)
    /\ \A w \in Workers : wk[w].through <= chat.top
    /\ \A w \in Workers : wk[w].pc \in Windowing => wk[w].after < wk[w].through
    /\ \A w \in Workers : Owns(w) /\ wk[w].pc \in Placed /\ wk[w].after < wk[w].through
                            => wk[w].through > chat.base
    /\ DisclosureFenced
    /\ ErasedStaysErased
    /\ OneHeir
    /\ old = "active" => hist.heirs = 0

(* The ledger of the frontier, for a user the resident runtime never serves. *)
Paid(s) ==
    IF s <= cap.front
    THEN hist.v2[s] + (IF s \in hist.skipped THEN 1 ELSE 0) = 1
    ELSE hist.v2[s] = 0 /\ s \notin hist.skipped

Accounted ==
    /\ rt.v2 /\ v1 = {}
    /\ cap.front = 0 \/ cap.front > chat.base
    /\ \A w \in Workers : Owns(w) /\ wk[w].pc \in Placed => wk[w].after = cap.front
    /\ \A s \in Seqs : s > chat.base => Paid(s)

-----------------------------------------------------------------------------
(***************************************************************************)
(* What the shared operators compute                                       *)
(***************************************************************************)

\* What BoundsAssumption says of each constant.
LEMMA Numbers ==
    /\ MaxSeq \in Nat /\ MaxSeq >= 1
    /\ Window \in Nat /\ Window >= 1
    /\ TransientAfter \in Nat /\ TransientAfter >= 1
    /\ PoisonAfter \in Nat
    /\ MaxFaults \in Nat
  BY SMT, BoundsAssumption

\* The edges of the ranges in use belong to them.
LEMMA Bounds ==
    /\ -1 \in -1..MaxSeq
    /\ 0 \in 0..TransientAfter
    /\ 0 \in 0..MaxSeq
    /\ 0..MaxSeq \subseteq -1..MaxSeq
    /\ <<>> \in Seq(Causes)
  BY SMT, Numbers

(* A reset keeps the frontier.                                             *)
LEMMA ResetKeeps ==
    ASSUME NEW c \in CapType
    PROVE  /\ Reset(c) \in CapType
           /\ Reset(c).front = c.front
  BY Bounds DEF Reset, CapType

\* A frontier moved by a success is well formed and where it should be.
LEMMA MovesTo ==
    ASSUME NEW c \in CapType, NEW f \in 0..MaxSeq
    PROVE  /\ [Reset(c) EXCEPT !.front = f] \in CapType
           /\ [Reset(c) EXCEPT !.front = f].front = f
<1> DEFINE r == Reset(c)
<1>1. r \in CapType
  BY ResetKeeps
<1> HIDE DEF r
<1>2. [r EXCEPT !.front = f] \in CapType /\ [r EXCEPT !.front = f].front = f
  BY <1>1 DEF CapType
<1> QED
  BY <1>2 DEF r

\* windowless_failure_patch does not move the frontier.
LEMMA WindowlessKeeps ==
    ASSUME NEW c \in CapType, NEW kind
    PROVE  /\ Windowless(c, kind) \in CapType
           /\ Windowless(c, kind).front = c.front
  BY DEF Windowless, CapType

(* A recorded failure moves the frontier to the end of the window, or not  *)
(* at all.                                                                 *)
LEMMA WindowedMoves ==
    ASSUME NEW c \in CapType, NEW after \in 0..MaxSeq, NEW through \in 0..MaxSeq, NEW kind,
           NEW since \in BOOLEAN, NEW exp \in BOOLEAN
    PROVE  /\ Windowed(c, after, through, kind, since, exp) \in CapType
           /\ Windowed(c, after, through, kind, since, exp).front
                = IF Skips(c, after, through, kind, exp) THEN through ELSE c.front
<1> DEFINE p == ParseOf(c, after, kind)
           n == CountOf(c, after, kind)
           a == (since \/ kind = "account")
<1>1. p \in Nat
  BY SMT DEF ParseOf, CapType
<1>2. n \in 0..TransientAfter
  BY SMT, Numbers DEF CountOf, Least, CapType
<1>3. a \in BOOLEAN
  OBVIOUS
<1>4. CASE Skips(c, after, through, kind, exp)
  BY <1>4, MovesTo DEF Windowed
<1>5. CASE ~Skips(c, after, through, kind, exp)
  <2>1. Windowed(c, after, through, kind, since, exp)
          = [c EXCEPT !.key = after, !.parse = p, !.count = n, !.acct = a, !.cool = TRUE]
    BY <1>5 DEF Windowed
  <2> HIDE DEF p, n, a
  <2>2. /\ [c EXCEPT !.key = after, !.parse = p, !.count = n, !.acct = a, !.cool = TRUE] \in CapType
        /\ [c EXCEPT !.key = after, !.parse = p, !.count = n, !.acct = a, !.cool = TRUE].front = c.front
    BY <1>1, <1>2, <1>3, Bounds DEF CapType
  <2> QED
    BY <2>1, <2>2, <1>5
<1> QED
  BY <1>4, <1>5

\* The remembered failures keep their type.
LEMMA NoteType ==
    ASSUME NEW h \in Seq(Causes), NEW k \in Causes
    PROVE  Note(h, k) \in Seq(Causes)
  BY SMT DEF Note

-----------------------------------------------------------------------------
(***************************************************************************)
(* What the transactions do to the capture state and the history           *)
(***************************************************************************)

(* The frontier and the ledger stay; only failure accounting may change.   *)
Quiet ==
    /\ cap' \in CapType /\ cap'.front = cap.front
    /\ hist' \in HistType
    /\ hist'.v2 = hist.v2 /\ hist'.skipped = hist.skipped /\ hist'.heirs = hist.heirs
    /\ hist'.moved = hist.moved

(* The frontier moves over a window that is captured or given up.          *)
Captured(after, through) ==
    /\ hist'.v2 = [s \in Seqs |-> IF s \in Span(after, through) THEN hist.v2[s] + 1 ELSE hist.v2[s]]
    /\ hist'.skipped = hist.skipped

GivenUp(after, through) ==
    /\ hist'.v2 = hist.v2
    /\ hist'.skipped = hist.skipped \cup Span(after, through)
    /\ hist'.heirs = hist.heirs

Advance(after, through) ==
    /\ after < through
    /\ cap' \in CapType /\ cap'.front = through
    /\ hist' \in HistType /\ hist'.moved = hist.moved
    /\ Captured(after, through) \/ GivenUp(after, through)

\* Leaving the state alone is quiet.
LEMMA UnchangedIsQuiet ==
    ASSUME TypeOK, UNCHANGED <<cap, hist>>
    PROVE  Quiet
  BY DEF TypeOK, Quiet

\* SUCCESS_RESET_PATCH without a new frontier is quiet.
LEMMA ResetIsQuiet ==
    ASSUME TypeOK, cap' = Reset(cap), hist' = [hist EXCEPT !.fails = <<>>]
    PROVE  Quiet
  BY ResetKeeps, Bounds DEF TypeOK, Quiet, HistType

\* Counting a failure that has no window is quiet.
LEMMA NotedIsQuiet ==
    ASSUME TypeOK, NEW k \in Causes, NEW kind, cap' = Windowless(cap, kind),
           hist' = [hist EXCEPT !.fails = Note(hist.fails, k)]
    PROVE  Quiet
<1> DEFINE n == Note(hist.fails, k)
<1>1. n \in Seq(Causes)
  BY NoteType DEF TypeOK, HistType
<1> HIDE DEF n
<1>2. /\ [hist EXCEPT !.fails = n] \in HistType
      /\ [hist EXCEPT !.fails = n].v2 = hist.v2
      /\ [hist EXCEPT !.fails = n].skipped = hist.skipped
      /\ [hist EXCEPT !.fails = n].heirs = hist.heirs
      /\ [hist EXCEPT !.fails = n].moved = hist.moved
  BY <1>1 DEF TypeOK, HistType
<1>3. hist' = [hist EXCEPT !.fails = n]
  BY DEF n
<1> QED
  BY <1>2, <1>3, WindowlessKeeps DEF TypeOK, Quiet

\* Recording a crash is quiet and ends the job.
LEMMA CrashedIsQuiet ==
    ASSUME TypeOK, Crashed
    PROVE  Quiet /\ job' = NoJob
<1>1. job' = NoJob
  BY DEF Crashed, JobGone
<1>2. CASE rt.v2 /\ job.gen = rt.gen /\ enabled
  BY <1>2, <1>1, NotedIsQuiet DEF Crashed, Causes
<1>3. CASE ~(rt.v2 /\ job.gen = rt.gen /\ enabled)
  BY <1>3, <1>1, UnchangedIsQuiet DEF Crashed
<1> QED
  BY <1>2, <1>3

\* A failure without a window is quiet and ends the job.
LEMMA WindowlessIsQuiet ==
    ASSUME TypeOK, NEW kind \in Causes, FailedWindowless(kind)
    PROVE  Quiet /\ job' = NoJob
  BY NotedIsQuiet DEF FailedWindowless, JobGone

(* A failure with a window: a quiet note, or the skip of that window.      *)
LEMMA FailureEffect ==
    ASSUME TypeOK, NEW after \in 0..MaxSeq, NEW through \in 0..MaxSeq, NEW kind \in Causes,
           NEW gone, FailedAt(after, through, kind, gone)
    PROVE  /\ batches' \subseteq batches
           /\ job' = NoJob
           /\ Quiet \/ (Advance(after, through) /\ hist'.heirs = hist.heirs)
<1>1. PICK gap \in BOOLEAN, exp \in BOOLEAN :
        LET since == cap.key = after /\ cap.acct /\ ~gap
            skip  == Skips(cap, after, through, kind, exp)
        IN  /\ cap' = Windowed(cap, after, through, kind, since, exp)
            /\ hist' = [hist EXCEPT
                    !.skipped = IF skip THEN @ \cup Span(after, through) ELSE @,
                    !.fails = IF skip THEN <<>> ELSE Note(@, kind),
                    !.why = IF skip THEN Note(hist.fails, kind) ELSE @]
            /\ batches' = {b \in batches \ gone : ~(skip /\ b.after = after /\ b.gen = job.gen)}
            /\ job' = NoJob
  BY DEF FailedAt, JobGone
<1> DEFINE since == (cap.key = after /\ cap.acct /\ ~gap)
           skip  == Skips(cap, after, through, kind, exp)
           sk == IF skip THEN hist.skipped \cup Span(after, through) ELSE hist.skipped
           fl == IF skip THEN <<>> ELSE Note(hist.fails, kind)
           wy == IF skip THEN Note(hist.fails, kind) ELSE hist.why
<1>2. since \in BOOLEAN /\ cap \in CapType /\ hist \in HistType
  BY DEF TypeOK
<1>3. cap' \in CapType /\ cap'.front = IF skip THEN through ELSE cap.front
  <2>1. cap' = Windowed(cap, after, through, kind, since, exp)
    BY <1>1
  <2> HIDE DEF since
  <2> QED
    BY SMT, <2>1, <1>2, WindowedMoves
<1>4. sk \in SUBSET Seqs /\ fl \in Seq(Causes) /\ wy \in Seq(Causes)
  <2>1. Note(hist.fails, kind) \in Seq(Causes) /\ hist.why \in Seq(Causes) /\ hist.skipped \in SUBSET Seqs
    BY <1>2, NoteType DEF HistType
  <2>2. Span(after, through) \subseteq Seqs
    BY DEF Span
  <2> QED
    BY SMT, <2>1, <2>2
<1>5. hist' = [hist EXCEPT !.skipped = sk, !.fails = fl, !.why = wy]
  BY <1>1
<1>6. batches' \subseteq batches /\ job' = NoJob
  BY <1>1
<1>7. skip => after < through
  BY DEF Skips
<1>8. /\ skip => sk = hist.skipped \cup Span(after, through)
      /\ ~skip => sk = hist.skipped
  OBVIOUS
<1> HIDE DEF sk, fl, wy, skip
<1>9. /\ hist' \in HistType
      /\ hist'.v2 = hist.v2 /\ hist'.heirs = hist.heirs /\ hist'.skipped = sk
      /\ hist'.moved = hist.moved
  BY <1>2, <1>4, <1>5 DEF HistType
<1>10. CASE skip
  BY <1>10, <1>3, <1>6, <1>7, <1>8, <1>9 DEF Advance, GivenUp
<1>11. CASE ~skip
  BY <1>11, <1>3, <1>6, <1>8, <1>9 DEF Quiet
<1> QED
  BY <1>10, <1>11

(* A commit moves the frontier over its own window.                        *)
LEMMA LandEffect ==
    ASSUME TypeOK, NEW w \in Workers, NEW b \in batches, Land(w, b)
    PROVE  /\ batches' \subseteq batches
           /\ job' = NoJob
           /\ Advance(b.after, b.through)
           /\ hist'.heirs = IF b.act = "sup" THEN hist.heirs + 1 ELSE hist.heirs
           /\ old' = IF b.act = "sup" THEN "superseded" ELSE old
<1> DEFINE v == [s \in Seqs |-> IF s \in Span(b.after, b.through) THEN hist.v2[s] + 1 ELSE hist.v2[s]]
           n == IF b.act = "sup" THEN hist.heirs + 1 ELSE hist.heirs
<1>1. b \in BatchType /\ b.after < b.through /\ hist \in HistType /\ cap \in CapType
  BY DEF TypeOK
<1>2. hist' = [hist EXCEPT !.v2 = v, !.fails = <<>>, !.heirs = n]
  BY DEF Land
<1>3. v \in [Seqs -> Nat] /\ n \in Nat
  BY SMT, <1>1 DEF HistType
<1>4. cap' \in CapType /\ cap'.front = b.through
  BY <1>1, MovesTo DEF Land, BatchType
<1>5. batches' \subseteq batches /\ job' = NoJob /\ old' = IF b.act = "sup" THEN "superseded" ELSE old
  BY DEF Land, JobGone
<1> HIDE DEF v, n
<1>6. /\ hist' \in HistType /\ hist'.v2 = v /\ hist'.skipped = hist.skipped /\ hist'.heirs = n
      /\ hist'.moved = hist.moved
  BY <1>1, <1>2, <1>3, Bounds DEF HistType
<1> QED
  BY <1>1, <1>4, <1>5, <1>6 DEF Advance, Captured, v, n

-----------------------------------------------------------------------------
(***************************************************************************)
(* Frames: a step of one worker, and a step beside the workers             *)
(***************************************************************************)

Step ==
    /\ UNCHANGED <<rt, halted, enabled>>
    /\ chat' \in [base : 0..MaxSeq, top : Seqs]
    /\ chat'.base = chat.base
    /\ chat'.top >= chat.top
    /\ left' \in 0..left
    /\ due' \in BOOLEAN
    /\ job' \in JobType
    /\ job'.owner = {} <=> job'.st # "claimed"
    /\ cap' \in CapType
    /\ hist' \in HistType
    /\ v1' \subseteq ResidentType
    /\ cap'.front <= chat'.top
    /\ v1' = v1 \/ \A j \in v1' : j.through <= chat.top /\ \A c \in j.seen : c.front <= chat.top

(* Journals only go, or one of the window of an owner is added with        *)
(* capture on.                                                             *)
JournalsKept == batches' \subseteq batches
Journalled(b) ==
    /\ batches' = batches \cup {b}
    /\ b \in BatchType
    /\ b.after < b.through /\ b.through <= chat.top /\ b.through > chat.base
    /\ enabled

(* The older card: untouched, archived, or superseded while it was active. *)
CardStep ==
    \/ old' = old /\ hist'.heirs = hist.heirs
    \/ old = "active" /\ old' = "archived" /\ hist'.heirs = hist.heirs
    \/ old = "active" /\ old' = "superseded" /\ hist'.heirs = hist.heirs + 1

\* A step that touches no turn and hands the job to nobody keeps types and
\* fences.
LEMMA SideKeeps ==
    ASSUME TypeOK, Fenced, Step, JournalsKept, CardStep, wk' = wk,
           job'.owner = job.owner \/ job'.owner = {}
    PROVE  TypeOK' /\ Fenced'
<1>1. /\ chat \in [base : 0..MaxSeq, top : Seqs] /\ chat.base <= chat.top
      /\ wk \in [Workers -> WorkerType]
      /\ rt \in [v2 : BOOLEAN, gen : 0..MaxFaults]
      /\ left \in 0..MaxFaults
      /\ \A b \in batches : b \in BatchType /\ b.after < b.through /\ b.through <= chat.top
  BY DEF TypeOK
<1>2. /\ chat.base \in Nat /\ chat.top \in Nat /\ chat'.top \in Nat
      /\ \A w \in Workers : wk[w].after \in Nat /\ wk[w].through \in Nat
      /\ \A b \in batches : b.through \in Nat
      /\ rt.gen \in Nat /\ left \in Nat /\ MaxFaults \in Nat
  BY SMT, <1>1, Numbers DEF Step, WorkerType, BatchType, Seqs
<1>3. TypeOK'
  <2>1. batches' \subseteq BatchType /\ \A b \in batches' : b.after < b.through /\ b.through <= chat'.top
    BY SMT, <1>1, <1>2 DEF JournalsKept, Step
  <2>2. chat'.base <= chat'.top /\ left' \in 0..MaxFaults
    BY SMT, <1>1, <1>2 DEF Step
  <2>3. old' \in {"active", "archived", "superseded"}
    BY DEF CardStep, TypeOK
  <2> QED
    BY <2>1, <2>2, <2>3 DEF TypeOK, Step
<1>4. rt'.gen + left' <= MaxFaults
  BY SMT, <1>2 DEF Fenced, Step
<1>5. \A w \in Workers : wk'[w].through <= chat'.top
  BY SMT, <1>1, <1>2 DEF Fenced, Step
<1>6. /\ \A w \in Workers : wk'[w].pc \in Windowing => wk'[w].after < wk'[w].through
      /\ \A w \in Workers : job'.owner = {w} /\ wk'[w].pc \in Placed /\ wk'[w].after < wk'[w].through
                              => wk'[w].through > chat'.base
  BY <1>1, <1>2 DEF Fenced, Step, Owns
<1>7. DisclosureFenced'
  BY <1>1 DEF Fenced, Step, DisclosureFenced
<1>8. ErasedStaysErased'
  BY <1>1 DEF Fenced, Step, ErasedStaysErased, JournalsKept
<1>9. OneHeir' /\ (old' = "active" => hist'.heirs = 0)
  <2>1. hist.heirs \in Nat /\ hist.heirs <= 1 /\ (hist.heirs = 1 => old = "superseded")
        /\ (old = "active" => hist.heirs = 0)
    BY DEF TypeOK, HistType, Fenced, OneHeir
  <2> QED
    BY SMT, <2>1 DEF CardStep, OneHeir
<1>d. cap'.front <= chat'.top /\ (ResidentsBehind(chat.top))'
  <2>1. /\ chat.top \in Nat /\ chat'.top \in Nat /\ chat.top <= chat'.top
        /\ \A j \in v1 \cup v1' : j.through \in Nat /\ \A c \in j.seen : c.front \in Nat
    BY SMT, Numbers DEF TypeOK, Step, Seqs, ResidentType, CapType
  <2> QED
    BY SMT, <2>1 DEF Fenced, Step, ResidentsBehind
<1> QED
  BY <1>3, <1>4, <1>5, <1>6, <1>7, <1>8, <1>9, <1>d DEF Fenced, Owns

(* What the worker that moves has to bring with it.                        *)
Sound(w, u) ==
    /\ u \in WorkerType
    /\ u.through <= chat.top
    /\ u.pc \in Windowing => u.after < u.through
    /\ job'.owner = {w} /\ u.pc \in Placed /\ u.after < u.through => u.through > chat.base
    /\ u.pc = "calling" => enabled /\ ~halted /\ rt.v2 /\ u.through > chat.base

\* A step of one turn that leaves it sound keeps types and fences.
LEMMA TurnKeeps ==
    ASSUME TypeOK, Fenced, Step, CardStep, chat' = chat,
           JournalsKept \/ \E b : Journalled(b),
           NEW w \in Workers, NEW u, Sound(w, u), wk' = [wk EXCEPT ![w] = u],
           \A x \in Workers : x # w /\ job'.owner = {x} => job.owner = {x}
    PROVE  TypeOK' /\ Fenced'
<1>1. /\ chat \in [base : 0..MaxSeq, top : Seqs] /\ chat.base <= chat.top
      /\ wk \in [Workers -> WorkerType]
      /\ rt \in [v2 : BOOLEAN, gen : 0..MaxFaults]
      /\ left \in 0..MaxFaults
      /\ \A b \in batches : b \in BatchType /\ b.after < b.through /\ b.through <= chat.top
  BY DEF TypeOK
<1>2. rt.gen \in Nat /\ left \in Nat /\ MaxFaults \in Nat
  BY SMT, <1>1, Numbers
<1>a. /\ wk' \in [Workers -> WorkerType]
      /\ wk'[w] = u
      /\ \A x \in Workers : x # w => wk'[x] = wk[x]
  BY <1>1 DEF Sound
<1>b. \A b \in batches' :
        \/ b \in batches
        \/ b \in BatchType /\ b.after < b.through /\ b.through <= chat.top /\ b.through > chat.base /\ enabled
  BY DEF JournalsKept, Journalled
<1>3. TypeOK'
  <2>1. batches' \subseteq BatchType /\ \A b \in batches' : b.after < b.through /\ b.through <= chat'.top
    BY <1>1, <1>b
  <2>2. chat'.base <= chat'.top /\ left' \in 0..MaxFaults
    BY SMT, <1>1, <1>2 DEF Step
  <2>3. old' \in {"active", "archived", "superseded"}
    BY DEF CardStep, TypeOK
  <2> QED
    BY <2>1, <2>2, <2>3, <1>a DEF TypeOK, Step
<1>4. rt'.gen + left' <= MaxFaults
  BY SMT, <1>2 DEF Fenced, Step
<1>5. \A x \in Workers : wk'[x].through <= chat'.top
  BY <1>a DEF Fenced, Sound
<1>6. \A x \in Workers : wk'[x].pc \in Windowing => wk'[x].after < wk'[x].through
  BY <1>a DEF Fenced, Sound
<1>c. \A x \in Workers : job'.owner = {x} /\ wk'[x].pc \in Placed /\ wk'[x].after < wk'[x].through
                              => wk'[x].through > chat'.base
  BY SMT, <1>a DEF Fenced, Sound, Owns
<1>7. DisclosureFenced'
  <2>1. \A x \in Workers : wk[x].pc = "calling" => enabled /\ ~halted /\ rt.v2 /\ wk[x].through > chat.base
    BY <1>1 DEF Fenced, DisclosureFenced
  <2>2. \A x \in Workers : wk'[x].pc = "calling" => enabled /\ ~halted /\ rt.v2 /\ wk'[x].through > chat.base
    BY <2>1, <1>a DEF Sound
  <2> QED
    BY <2>2, <1>a DEF DisclosureFenced, Step
<1>8. ErasedStaysErased'
  BY <1>b DEF Fenced, Step, ErasedStaysErased
<1>9. OneHeir' /\ (old' = "active" => hist'.heirs = 0)
  <2>1. hist.heirs \in Nat /\ hist.heirs <= 1 /\ (hist.heirs = 1 => old = "superseded")
        /\ (old = "active" => hist.heirs = 0)
    BY DEF TypeOK, HistType, Fenced, OneHeir
  <2> QED
    BY SMT, <2>1 DEF CardStep, OneHeir
<1>d. cap'.front <= chat'.top /\ (ResidentsBehind(chat.top))'
  <2>1. /\ chat.top \in Nat /\ chat'.top \in Nat /\ chat.top <= chat'.top
        /\ \A j \in v1 \cup v1' : j.through \in Nat /\ \A c \in j.seen : c.front \in Nat
    BY SMT, Numbers DEF TypeOK, Step, Seqs, ResidentType, CapType
  <2> QED
    BY <2>1 DEF Fenced, Step, ResidentsBehind
<1> QED
  BY <1>3, <1>4, <1>5, <1>6, <1>7, <1>8, <1>9, <1>c, <1>d DEF Fenced, Owns

-----------------------------------------------------------------------------
(***************************************************************************)
(* The ledger                                                              *)
(***************************************************************************)

\* A quiet step leaves every message paid for as it was.
LEMMA QuietPays ==
    ASSUME TypeOK, Accounted, Quiet, chat'.base = chat.base
    PROVE  \A s \in Seqs : s > chat'.base => Paid(s)'
  BY DEF Accounted, Quiet, Paid

(* A window that starts at the frontier is unpaid, and paid once by its    *)
(* commit or its skip.                                                     *)
LEMMA AdvancePays ==
    ASSUME TypeOK, Accounted, chat' = chat, NEW through \in 0..MaxSeq,
           Advance(cap.front, through)
    PROVE  \A s \in Seqs : s > chat'.base => Paid(s)'
<1> SUFFICES ASSUME NEW s \in Seqs, s > chat.base
             PROVE  Paid(s)'
  OBVIOUS
<1>1. /\ cap.front \in Nat /\ chat.base \in Nat /\ s \in Nat /\ through \in Nat
      /\ hist.v2[s] \in Nat
  <2>1. hist.v2 \in [Seqs -> Nat]
    BY DEF TypeOK, HistType
  <2>2. hist.v2[s] \in Nat
    BY <2>1
  <2> QED
    BY SMT, <2>2, Numbers DEF TypeOK, CapType, Seqs
<1>2. /\ s <= cap.front => hist.v2[s] + (IF s \in hist.skipped THEN 1 ELSE 0) = 1
      /\ ~(s <= cap.front) => hist.v2[s] = 0 /\ s \notin hist.skipped
  BY DEF Accounted, Paid
<1>3. cap.front < through /\ cap'.front = through
  BY DEF Advance
<1>4. s \in Span(cap.front, through) <=> (s > cap.front /\ s <= through)
  BY DEF Span
<1>5. CASE Captured(cap.front, through)
  <2>1. /\ hist'.v2[s] = IF s \in Span(cap.front, through) THEN hist.v2[s] + 1 ELSE hist.v2[s]
        /\ hist'.skipped = hist.skipped
    BY <1>5 DEF Captured
  <2> QED
    BY SMT, <1>1, <1>2, <1>3, <1>4, <2>1 DEF Paid
<1>6. CASE GivenUp(cap.front, through)
  <2>1. hist'.v2 = hist.v2 /\ (s \in hist'.skipped <=> s \in hist.skipped \/ s \in Span(cap.front, through))
    BY <1>6 DEF GivenUp
  <2> QED
    BY SMT, <1>1, <1>2, <1>3, <1>4, <2>1 DEF Paid
<1> QED
  BY <1>5, <1>6 DEF Advance

\* A quiet step beside the turns keeps the ledger.
LEMMA AccountSide ==
    ASSUME TypeOK, Accounted, Step, Quiet, wk' = wk, v1' = v1,
           job'.owner = job.owner \/ job'.owner = {}
    PROVE  Accounted'
<1>1. \A s \in Seqs : s > chat'.base => Paid(s)'
  BY QuietPays DEF Step
<1>3. \A w \in Workers : job'.owner = {w} /\ wk'[w].pc \in Placed => wk'[w].after = cap'.front
  BY DEF Accounted, Quiet, Owns
<1> QED
  BY <1>1, <1>3 DEF Accounted, Quiet, Step, Owns

(* A turn's step: quiet, or the frontier moves over the owner's window and *)
(* the job is over.                                                        *)
LEMMA AccountTurn ==
    ASSUME TypeOK, Accounted, Step, chat' = chat, v1' = v1,
           NEW w \in Workers, NEW u, wk' = [wk EXCEPT ![w] = u],
           \A x \in Workers : x # w /\ job'.owner = {x} => job.owner = {x},
           job'.owner = {w} /\ u.pc \in Placed => u.after = cap'.front,
           \/ Quiet
           \/ /\ job'.owner = {}
              /\ \E through \in 0..MaxSeq : /\ Advance(cap.front, through)
                                            /\ through <= chat.top /\ through > chat.base
    PROVE  Accounted'
<1>1. /\ wk'[w] = u
      /\ \A x \in Workers : x # w => wk'[x] = wk[x]
  BY DEF TypeOK
<1>2. CASE Quiet
  <2>1. \A s \in Seqs : s > chat'.base => Paid(s)'
    BY <1>2, QuietPays
  <2>2. \A x \in Workers : job'.owner = {x} /\ wk'[x].pc \in Placed => wk'[x].after = cap'.front
    BY <1>1, <1>2 DEF Accounted, Quiet, Owns
  <2> QED
    BY <1>2, <2>1, <2>2 DEF Accounted, Quiet, Step, Owns
<1>3. ASSUME job'.owner = {}, NEW through \in 0..MaxSeq, Advance(cap.front, through),
             through <= chat.top, through > chat.base
      PROVE  Accounted'
  <2>1. \A s \in Seqs : s > chat'.base => Paid(s)'
    BY <1>3, AdvancePays
  <2>2. \A x \in Workers : job'.owner # {x}
    BY <1>3
  <2>3. cap'.front = through
    BY <1>3 DEF Advance
  <2> QED
    BY <1>3, <2>1, <2>2, <2>3 DEF Accounted, Step, Owns
<1> QED
  BY <1>2, <1>3

-----------------------------------------------------------------------------
(***************************************************************************)
(* The three shapes of a step                                              *)
(***************************************************************************)

Keeps == TypeOK' /\ Fenced' /\ (Accounted => Accounted')

JobFine == job' \in JobType /\ (job'.owner = {} <=> job'.st # "claimed")

\* The absence of a job is well formed and owned by nobody.
LEMMA NoJobFine ==
    ASSUME job' = NoJob
    PROVE  JobFine /\ job'.owner = {}
  BY SMT, Numbers DEF NoJob, JobType, JobFine

\* An unchanged job stays well formed.
LEMMA SameJobFine ==
    ASSUME TypeOK, job' = job
    PROVE  JobFine /\ job'.owner = job.owner
  BY DEF TypeOK, JobFine

\* A worker without a turn is sound.
LEMMA IdleSound ==
    ASSUME TypeOK, NEW w
    PROVE  Sound(w, IdleWorker) /\ IdleWorker.pc = "idle"
  BY SMT, Numbers DEF IdleWorker, WorkerType, Pcs, Sound, Placed, Windowing, TypeOK, Seqs

(* A worker's turn moves on with nothing else changed but the journals.    *)
LEMMA MoveKeeps ==
    ASSUME TypeOK, Fenced, UNCHANGED <<rt, halted, enabled, chat, cap, job, due, v1, old, hist>>,
           left' \in 0..left, JournalsKept \/ \E b : Journalled(b),
           NEW w \in Workers, NEW u, Sound(w, u), wk' = [wk EXCEPT ![w] = u],
           Accounted /\ Owns(w) /\ u.pc \in Placed => u.after = cap.front
    PROVE  Keeps
<1>1. Quiet
  BY UnchangedIsQuiet
<1>2. Step
  BY SMT, Numbers DEF TypeOK, Step, Seqs, Fenced
<1>3. CardStep
  BY DEF CardStep
<1>4. \A x \in Workers : x # w /\ job'.owner = {x} => job.owner = {x}
  OBVIOUS
<1>5. TypeOK' /\ Fenced'
  BY <1>2, <1>3, <1>4, TurnKeeps
<1>6. ASSUME Accounted PROVE Accounted'
  <2>1. job'.owner = {w} /\ u.pc \in Placed => u.after = cap'.front
    BY <1>6 DEF Owns
  <2> QED
    BY <1>1, <1>2, <1>4, <1>6, <2>1, AccountTurn
<1> QED
  BY <1>5, <1>6 DEF Keeps

(* A turn ends with a transaction.                                         *)
LEMMA DoneKeeps ==
    ASSUME TypeOK, Fenced, UNCHANGED <<rt, halted, enabled, chat, due, v1, left>>,
           NEW w \in Workers, Done(w), CardStep, JournalsKept,
           JobFine, job'.owner = job.owner \/ job'.owner = {},
           cap' \in CapType, hist' \in HistType, cap'.front <= chat.top,
           \/ Quiet
           \/ /\ job'.owner = {}
              /\ Accounted => \E through \in 0..MaxSeq : /\ Advance(cap.front, through)
                                                         /\ through <= chat.top
                                                         /\ through > chat.base
    PROVE  Keeps
<1>1. Step
  BY SMT, Numbers DEF TypeOK, Step, Seqs, JobFine
<1>2. \A x \in Workers : x # w /\ job'.owner = {x} => job.owner = {x}
  OBVIOUS
<1>3. wk' = [wk EXCEPT ![w] = IdleWorker]
  BY DEF Done
<1>4. Sound(w, IdleWorker) /\ IdleWorker.pc \notin Placed
  BY IdleSound DEF Placed
<1>5. TypeOK' /\ Fenced'
  BY <1>1, <1>2, <1>3, <1>4, TurnKeeps
<1>6. ASSUME Accounted PROVE Accounted'
  BY <1>1, <1>2, <1>3, <1>4, <1>6, AccountTurn
<1> QED
  BY <1>5, <1>6 DEF Keeps

(* A step beside the workers.                                              *)
LEMMA BesideKeeps ==
    ASSUME TypeOK, Fenced, UNCHANGED <<rt, halted, enabled, wk>>,
           chat' \in [base : 0..MaxSeq, top : Seqs], chat'.base = chat.base, chat'.top >= chat.top,
           left' \in 0..left, due' \in BOOLEAN, v1' \subseteq ResidentType,
           CardStep, JournalsKept,
           JobFine, job'.owner = job.owner \/ job'.owner = {},
           cap' \in CapType, hist' \in HistType, cap'.front <= chat.top,
           v1' = v1 \/ \A j \in v1' : j.through <= chat.top /\ \A c \in j.seen : c.front <= chat.top,
           Accounted => Quiet /\ v1' = v1
    PROVE  Keeps
<1>1. Step
  <2>1. cap'.front \in Nat /\ chat.top \in Nat /\ chat'.top \in Nat
    BY SMT, Numbers DEF TypeOK, CapType, Seqs
  <2>2. cap'.front <= chat'.top
    BY SMT, <2>1
  <2> QED
    BY <2>2 DEF Step, JobFine
<1>2. TypeOK' /\ Fenced'
  BY <1>1, SideKeeps
<1>3. ASSUME Accounted PROVE Accounted'
  BY <1>1, <1>3, AccountSide
<1> QED
  BY <1>2, <1>3 DEF Keeps

-----------------------------------------------------------------------------
(***************************************************************************)
(* The worker's turn                                                       *)
(***************************************************************************)

\* A turn that ends quietly, with its job or without, keeps the
\* invariants.
LEMMA QuietDone ==
    ASSUME TypeOK, Fenced, UNCHANGED <<rt, halted, enabled, chat, due, v1, old, left>>,
           NEW w \in Workers, Done(w), Quiet, JournalsKept,
           job' = job \/ job' = NoJob
    PROVE  Keeps
<1>1. JobFine /\ (job'.owner = job.owner \/ job'.owner = {})
  BY NoJobFine, SameJobFine
<1>2. CardStep /\ cap' \in CapType /\ hist' \in HistType /\ cap'.front <= chat.top
  BY DEF CardStep, Quiet, Fenced
<1> QED
  BY <1>1, <1>2, DoneKeeps

\* A turn that ends by cancelling its job keeps them.
LEMMA CancelledDone ==
    ASSUME TypeOK, Fenced, UNCHANGED <<rt, halted, enabled, chat, due, v1, old, left>>,
           NEW w \in Workers, Done(w), Cancelled
    PROVE  Keeps
<1>1. Quiet
  BY UnchangedIsQuiet DEF Cancelled
<1>2. JournalsKept /\ job' = NoJob
  BY DEF JournalsKept, Cancelled, JobGone
<1> QED
  BY <1>1, <1>2, QuietDone

\* A turn that finds its job gone keeps them.
LEMMA IdleDone ==
    ASSUME TypeOK, Fenced, NEW w \in Workers, Done(w),
           UNCHANGED <<rt, halted, enabled, chat, due, v1, old, left, cap, hist, batches, job>>
    PROVE  Keeps
<1>1. Quiet
  BY UnchangedIsQuiet
<1> QED
  BY <1>1, QuietDone DEF JournalsKept

\* A turn's window lies within the chat.
LEMMA WorkerFacts ==
    ASSUME TypeOK, Fenced, NEW w \in Workers
    PROVE  /\ wk[w] \in WorkerType
           /\ wk[w].after \in Nat /\ wk[w].through \in Nat
           /\ wk[w].after \in 0..MaxSeq /\ wk[w].through \in 0..MaxSeq
           /\ chat.base \in Nat /\ chat.top \in Nat /\ chat.top \in 0..MaxSeq
           /\ cap.front \in Nat /\ cap.front \in 0..MaxSeq
           /\ wk[w].through <= chat.top /\ cap.front <= chat.top
           /\ 0 \in 0..left /\ left \in 0..left /\ left \in Nat
  BY SMT, Numbers DEF TypeOK, Fenced, WorkerType, CapType, Seqs

(* A turn that only changes its place in the code.                         *)
LEMMA GotoKeeps ==
    ASSUME TypeOK, Fenced, NEW w \in Workers, NEW p \in Pcs, Goto(w, p),
           UNCHANGED <<rt, halted, enabled, chat, cap, job, due, v1, old, hist>>,
           left' \in 0..left, JournalsKept,
           p \in Windowing => wk[w].pc \in Windowing,
           p \in Placed => wk[w].pc \in Placed,
           p # "calling"
    PROVE  Keeps
<1> DEFINE u == [wk[w] EXCEPT !.pc = p]
<1>1. wk' = [wk EXCEPT ![w] = u]
  BY DEF Goto
<1>2. u \in WorkerType /\ u.pc = p /\ u.after = wk[w].after /\ u.through = wk[w].through
  BY WorkerFacts DEF WorkerType
<1> HIDE DEF u
<1>3. Sound(w, u)
  BY <1>2, WorkerFacts DEF Sound, Fenced, Owns
<1>4. Accounted /\ Owns(w) /\ u.pc \in Placed => u.after = cap.front
  BY <1>2 DEF Accounted
<1> QED
  BY <1>1, <1>3, <1>4, MoveKeeps

\* claim_next_jobs keeps the invariants.
LEMMA ClaimKeeps ==
    ASSUME TypeOK, Fenced, NEW w \in Workers, Claim(w)
    PROVE  Keeps
<1>0. Quiet
  BY UnchangedIsQuiet DEF Claim
<1>1. CASE rt.v2 /\ job.gen = rt.gen
  <2> DEFINE u == [IdleWorker EXCEPT !.pc = "gate"]
             j == [job EXCEPT !.st = "claimed", !.owner = {w}]
  <2>1. wk' = [wk EXCEPT ![w] = u] /\ job' = j
    BY <1>1 DEF Claim
  <2>2. j \in JobType /\ j.owner = {w} /\ j.st = "claimed"
    BY DEF TypeOK, JobType
  <2>3. u \in WorkerType /\ u.pc = "gate" /\ u.through = 0
    BY SMT, Numbers DEF IdleWorker, WorkerType, Pcs
  <2>4. UNCHANGED <<rt, halted, enabled, chat, cap, batches, due, v1, old, hist, left>>
    BY DEF Claim
  <2> HIDE DEF u, j
  <2>5. Sound(w, u) /\ u.pc \notin Placed
    BY SMT, <2>3, WorkerFacts DEF Sound, Placed, Windowing
  <2>6. Step
    <3>1. left' \in 0..left /\ chat'.top >= chat.top
      BY SMT, <2>4, WorkerFacts
    <3> QED
      BY <2>1, <2>2, <2>4, <3>1 DEF Step, TypeOK, Fenced
  <2>7. CardStep /\ JournalsKept
    BY <2>4 DEF CardStep, JournalsKept
  <2>8. \A x \in Workers : x # w /\ job'.owner = {x} => job.owner = {x}
    BY <2>1, <2>2
  <2>9. TypeOK' /\ Fenced'
    BY <2>1, <2>4, <2>5, <2>6, <2>7, <2>8, TurnKeeps
  <2>10. ASSUME Accounted PROVE Accounted'
    BY <1>0, <2>1, <2>4, <2>5, <2>6, <2>8, <2>10, AccountTurn
  <2> QED
    BY <2>9, <2>10 DEF Keeps
<1>2. CASE ~(rt.v2 /\ job.gen = rt.gen)
  <2>1. UNCHANGED <<rt, halted, enabled, chat, cap, batches, due, v1, old, hist, left, wk>> /\ job' = NoJob
    BY <1>2 DEF Claim, JobGone
  <2>2. left' \in 0..left /\ chat'.top >= chat.top
    BY SMT, <2>1, WorkerFacts
  <2>3. CardStep /\ JournalsKept
    BY <2>1 DEF CardStep, JournalsKept
  <2>4. JobFine /\ job'.owner = {}
    BY <2>1, NoJobFine
  <2> QED
    BY <1>0, <2>1, <2>2, <2>3, <2>4, BesideKeeps DEF TypeOK, Fenced
<1> QED
  BY <1>1, <1>2

\* The turn's first look at halt and opt-out keeps them.
LEMMA GateKeeps ==
    ASSUME TypeOK, Fenced, NEW w \in Workers, Gate(w)
    PROVE  Keeps
<1>1. UNCHANGED <<rt, halted, enabled, chat, due, v1, old, left>>
  BY DEF Gate
<1>2. CASE (halted \/ ~enabled) /\ Owned(w)
  BY <1>1, <1>2, CancelledDone DEF Gate
<1>3. CASE (halted \/ ~enabled) /\ ~Owned(w)
  <2>1. Quiet
    BY <1>3, UnchangedIsQuiet DEF Gate
  <2>2. Done(w) /\ JournalsKept /\ (job' = job \/ job' = NoJob)
    BY <1>3 DEF Gate, JournalsKept
  <2> QED
    BY <1>1, <2>1, <2>2, QuietDone
<1>4. CASE ~(halted \/ ~enabled)
  <2>1. Goto(w, "front") /\ UNCHANGED <<job, cap, hist, batches>>
    BY <1>4 DEF Gate
  <2>2. left' \in 0..left /\ JournalsKept
    BY <1>1, <2>1, WorkerFacts DEF JournalsKept
  <2> QED
    BY <1>1, <2>1, <2>2, GotoKeeps DEF Pcs, Windowing, Placed
<1> QED
  BY <1>2, <1>3, <1>4


\* Reading the frontier keeps them: the owner's place is the frontier.
LEMMA ReadFrontierKeeps ==
    ASSUME TypeOK, Fenced, NEW w \in Workers, ReadFrontier(w)
    PROVE  Keeps
<1> DEFINE u == [wk[w] EXCEPT !.pc = "adopt", !.after = cap.front, !.through = cap.front]
<1>1. wk' = [wk EXCEPT ![w] = u]
  BY DEF ReadFrontier
<1>2. u \in WorkerType /\ u.pc = "adopt" /\ u.after = cap.front /\ u.through = cap.front
  BY WorkerFacts DEF WorkerType, Pcs
<1>3. UNCHANGED <<rt, halted, enabled, chat, cap, batches, job, due, v1, old, hist, left>>
  BY DEF ReadFrontier
<1> HIDE DEF u
<1>4. Sound(w, u)
  BY SMT, <1>2, WorkerFacts DEF Sound, Windowing
<1>5. left' \in 0..left /\ JournalsKept
  BY <1>3, WorkerFacts DEF JournalsKept
<1> QED
  BY <1>1, <1>2, <1>3, <1>4, <1>5, MoveKeeps

(* A turn that takes over a journal of its place.                          *)
LEMMA TakesJournal ==
    ASSUME TypeOK, Fenced, NEW w \in Workers, NEW b, b \in BatchType, b.through <= chat.top,
           b.through > chat.base, wk[w].pc \in Placed,
           wk' = [wk EXCEPT ![w].pc = "commit", ![w].through = b.through, ![w].act = b.act],
           UNCHANGED <<rt, halted, enabled, chat, cap, job, due, v1, old, hist, left>>,
           JournalsKept \/ Journalled(b)
    PROVE  Keeps
<1> DEFINE u == [wk[w] EXCEPT !.pc = "commit", !.through = b.through, !.act = b.act]
<1>1. wk' = [wk EXCEPT ![w] = u]
  OBVIOUS
<1>2. u \in WorkerType /\ u.pc = "commit" /\ u.after = wk[w].after /\ u.through = b.through
  BY WorkerFacts DEF WorkerType, Pcs, BatchType
<1> HIDE DEF u
<1>3. Sound(w, u)
  BY <1>2 DEF Sound, Windowing
<1>4. Accounted /\ Owns(w) /\ u.pc \in Placed => u.after = cap.front
  BY <1>2 DEF Accounted
<1>5. left' \in 0..left
  BY WorkerFacts
<1> QED
  BY <1>1, <1>3, <1>4, <1>5, MoveKeeps

\* Adopting the journal of a dead turn keeps them.
LEMMA AdoptKeeps ==
    ASSUME TypeOK, Fenced, NEW w \in Workers, Adopt(w)
    PROVE  Keeps
<1>1. /\ UNCHANGED <<rt, halted, enabled, chat, cap, job, due, v1, old, hist, left>>
      /\ wk[w].pc = "adopt"
      /\ left' \in 0..left
  BY WorkerFacts DEF Adopt
<1>2. ASSUME Goto(w, "tail"), JournalsKept
      PROVE  Keeps
  BY <1>1, <1>2, GotoKeeps DEF Pcs, Windowing, Placed
<1>3. CASE ~Owned(w)
  BY <1>2, <1>3 DEF Adopt, JournalsKept
<1>4. CASE Owned(w)
  <2> DEFINE here == {b \in batches : b.gen = job.gen /\ b.after = wk[w].after}
  <2>1. batches' = here
    BY <1>4 DEF Adopt
  <2>2. JournalsKept
    BY <2>1 DEF JournalsKept
  <2>3. CASE here = {}
    BY <1>2, <1>4, <2>2, <2>3 DEF Adopt
  <2>4. CASE here # {}
    <3>1. PICK b \in here : wk' = [wk EXCEPT ![w].pc = "commit", ![w].through = b.through, ![w].act = b.act]
      BY <1>4, <2>4 DEF Adopt
    <3>2. b \in BatchType /\ b.through <= chat.top /\ b.through > chat.base
      BY DEF TypeOK, Fenced, ErasedStaysErased
    <3> QED
      BY <1>1, <2>2, <3>1, <3>2, TakesJournal DEF Placed
  <2> QED
    BY <2>3, <2>4
<1> QED
  BY <1>3, <1>4

\* Reading the window keeps them.
LEMMA ReadTailKeeps ==
    ASSUME TypeOK, Fenced, NEW w \in Workers, ReadTail(w)
    PROVE  Keeps
<1> DEFINE from == IF wk[w].after < chat.base THEN chat.base ELSE wk[w].after
           t == Least(chat.top, from + Window)
           u == [wk[w] EXCEPT !.pc = "call", !.through = t]
<1>1. /\ UNCHANGED <<rt, halted, enabled, chat, cap, batches, job, due, v1, old, hist, left>>
      /\ wk[w].pc = "tail"
      /\ left' \in 0..left /\ JournalsKept
  BY WorkerFacts DEF ReadTail, JournalsKept
<1>2. CASE chat.top <= from
  <2>1. Goto(w, "nowork")
    BY <1>2 DEF ReadTail
  <2> QED
    BY <1>1, <2>1, GotoKeeps DEF Pcs, Windowing, Placed
<1>3. CASE ~(chat.top <= from)
  <2>1. wk' = [wk EXCEPT ![w] = u]
    BY <1>3 DEF ReadTail
  <2>2. from \in Nat /\ from >= wk[w].after /\ from >= chat.base
    BY SMT, WorkerFacts
  <2>3. t \in 0..MaxSeq /\ t > from /\ t <= chat.top
    BY SMT, <1>3, <2>2, WorkerFacts, Numbers DEF Least
  <2>4. t > wk[w].after /\ t > chat.base
    BY SMT, <2>2, <2>3, WorkerFacts
  <2> HIDE DEF t
  <2>5. u \in WorkerType /\ u.pc = "call" /\ u.after = wk[w].after /\ u.through = t
    BY <2>3, WorkerFacts DEF WorkerType, Pcs
  <2> HIDE DEF u
  <2>6. Sound(w, u)
    BY <2>3, <2>4, <2>5 DEF Sound
  <2>7. Accounted /\ Owns(w) /\ u.pc \in Placed => u.after = cap.front
    BY <1>1, <2>5 DEF Accounted, Placed
  <2> QED
    BY <1>1, <2>1, <2>6, <2>7, MoveKeeps
<1> QED
  BY <1>2, <1>3

\* complete_capture_no_work keeps them.
LEMMA NoWorkKeeps ==
    ASSUME TypeOK, Fenced, NEW w \in Workers, NoWork(w)
    PROVE  Keeps
<1>1. UNCHANGED <<rt, halted, enabled, chat, due, v1, old, left>> /\ Done(w) /\ JournalsKept
  BY DEF NoWork, JournalsKept
<1>2. CASE Owned(w)
  <2>1. Quiet
    BY <1>2, ResetIsQuiet DEF NoWork
  <2>2. job' = NoJob
    BY <1>2 DEF NoWork, JobGone
  <2> QED
    BY <1>1, <2>1, <2>2, QuietDone
<1>3. CASE ~Owned(w)
  BY <1>1, <1>3, IdleDone DEF NoWork
<1> QED
  BY <1>2, <1>3

\* authorize_capture_provider_call keeps them: the fences were free.
LEMMA AuthorizeKeeps ==
    ASSUME TypeOK, Fenced, NEW w \in Workers, Authorize(w)
    PROVE  Keeps
<1>1. UNCHANGED <<rt, halted, enabled, chat, due, v1, old, left>> /\ wk[w].pc = "call"
  BY DEF Authorize
<1>2. CASE ~Owned(w)
  BY <1>1, <1>2, IdleDone DEF Authorize
<1>3. CASE Owned(w) /\ (halted \/ ~enabled)
  BY <1>1, <1>3, CancelledDone DEF Authorize
<1>4. CASE Owned(w) /\ ~(halted \/ ~enabled)
  <2> DEFINE u == [wk[w] EXCEPT !.pc = "calling"]
  <2>1. wk' = [wk EXCEPT ![w] = u] /\ UNCHANGED <<cap, hist, batches, job>>
    BY <1>4 DEF Authorize, Goto
  <2>2. u \in WorkerType /\ u.pc = "calling" /\ u.after = wk[w].after /\ u.through = wk[w].through
    BY WorkerFacts DEF WorkerType, Pcs
  <2>3. wk[w].after < wk[w].through /\ wk[w].through > chat.base
    BY <1>1, <1>4 DEF Fenced, Windowing, Placed, Owned, Owns
  <2> HIDE DEF u
  <2>4. Sound(w, u)
    BY <1>4, <2>2, <2>3, WorkerFacts DEF Sound, Owned
  <2>5. Accounted /\ Owns(w) /\ u.pc \in Placed => u.after = cap.front
    BY <1>1, <2>2 DEF Accounted, Placed
  <2>6. left' \in 0..left /\ JournalsKept
    BY <1>1, <2>1, WorkerFacts DEF JournalsKept
  <2> QED
    BY <1>1, <2>1, <2>4, <2>5, <2>6, MoveKeeps
<1> QED
  BY <1>2, <1>3, <1>4

(* A turn that keeps its place and its window.                             *)
LEMMA SlideKeeps ==
    ASSUME TypeOK, Fenced, NEW w \in Workers, NEW u \in WorkerType, wk' = [wk EXCEPT ![w] = u],
           u.after = wk[w].after, u.through = wk[w].through,
           UNCHANGED <<rt, halted, enabled, chat, cap, batches, job, due, v1, old, hist>>,
           left' \in 0..left,
           u.pc \in Windowing => wk[w].pc \in Windowing,
           wk[w].pc \in Placed,
           u.pc # "calling"
    PROVE  Keeps
<1>1. Sound(w, u)
  BY WorkerFacts DEF Sound, Fenced, Owns
<1>2. Accounted /\ Owns(w) /\ u.pc \in Placed => u.after = cap.front
  BY DEF Accounted
<1>3. JournalsKept
  BY DEF JournalsKept
<1> QED
  BY <1>1, <1>2, <1>3, MoveKeeps

\* A disturbance takes one from those left.
LEMMA ChargeSpends ==
    ASSUME TypeOK, NEW f, Charge(f)
    PROVE  left' \in 0..left /\ left' = left - 1 /\ left \in Nat /\ left > 0
  BY SMT, Numbers DEF TypeOK, Charge

\* The provider's answer, which frees the fences, keeps them.
LEMMA AnsweredKeeps ==
    ASSUME TypeOK, Fenced, NEW w \in Workers, Answered(w)
    PROVE  Keeps
<1>1. /\ UNCHANGED <<rt, halted, enabled, chat, cap, batches, job, due, v1, old, hist>>
      /\ wk[w].pc = "calling"
  BY DEF Answered
<1>2. CASE Done(w) /\ UNCHANGED left
  BY <1>1, <1>2, IdleDone
<1>3. ASSUME NEW a \in {"add", "sup"}, wk' = [wk EXCEPT ![w].pc = "prepare", ![w].act = a],
             UNCHANGED left
      PROVE  Keeps
  <2> DEFINE u == [wk[w] EXCEPT !.pc = "prepare", !.act = a]
  <2>1. wk' = [wk EXCEPT ![w] = u]
    BY <1>3
  <2>2. u \in WorkerType /\ u.pc = "prepare" /\ u.after = wk[w].after /\ u.through = wk[w].through
    BY WorkerFacts DEF WorkerType, Pcs
  <2>3. left' \in 0..left
    BY <1>3, WorkerFacts
  <2> HIDE DEF u
  <2> QED
    BY <1>1, <2>1, <2>2, <2>3, SlideKeeps DEF Windowing, Placed
<1>4. ASSUME NEW k \in Kinds, wk' = [wk EXCEPT ![w].pc = "fail", ![w].kind = k], left' \in 0..left
      PROVE  Keeps
  <2> DEFINE u == [wk[w] EXCEPT !.pc = "fail", !.kind = k]
  <2>1. wk' = [wk EXCEPT ![w] = u]
    BY <1>4
  <2>2. u \in WorkerType /\ u.pc = "fail" /\ u.after = wk[w].after /\ u.through = wk[w].through
    BY WorkerFacts DEF WorkerType, Pcs
  <2> HIDE DEF u
  <2> QED
    BY <1>1, <1>4, <2>1, <2>2, SlideKeeps DEF Windowing, Placed
<1>5. ASSUME NEW k \in Kinds, IF k = "account" THEN Charge("account") ELSE UNCHANGED left
      PROVE  left' \in 0..left
  BY <1>5, ChargeSpends, WorkerFacts
<1> QED
  BY <1>2, <1>3, <1>4, <1>5 DEF Answered

\* prepare_capture_batch keeps them.
LEMMA PrepareKeeps ==
    ASSUME TypeOK, Fenced, NEW w \in Workers, Prepare(w)
    PROVE  Keeps
<1> DEFINE here == {b \in batches : b.gen = job.gen /\ b.after = wk[w].after}
           mine == [gen |-> job.gen, after |-> wk[w].after, through |-> wk[w].through, act |-> wk[w].act]
<1>1. UNCHANGED <<rt, halted, enabled, chat, due, v1, old, left>> /\ wk[w].pc = "prepare"
  BY DEF Prepare
<1>2. CASE ~Owned(w)
  BY <1>1, <1>2, IdleDone DEF Prepare
<1>3. CASE Owned(w) /\ (halted \/ ~enabled)
  BY <1>1, <1>3, CancelledDone DEF Prepare
<1>4. CASE Owned(w) /\ ~(halted \/ ~enabled)
  <2>1. PICK b \in IF here = {} THEN {mine} ELSE here :
          /\ batches' = batches \cup {b}
          /\ wk' = [wk EXCEPT ![w].pc = "commit", ![w].through = b.through, ![w].act = b.act]
          /\ UNCHANGED <<cap, hist, job>>
    BY <1>4 DEF Prepare
  <2>2. /\ mine \in BatchType /\ mine.after < mine.through
        /\ mine.through <= chat.top /\ mine.through > chat.base
    <3>1. wk[w].after < wk[w].through /\ wk[w].through > chat.base
      BY <1>1, <1>4 DEF Fenced, Windowing, Placed, Owned, Owns
    <3>2. job.gen \in 0..MaxFaults
      BY <1>4 DEF Owned, TypeOK
    <3> QED
      BY <3>1, <3>2, WorkerFacts DEF BatchType, WorkerType
  <2>3. \A x \in here : /\ x \in BatchType /\ x.after < x.through
                        /\ x.through <= chat.top /\ x.through > chat.base
    BY DEF TypeOK, Fenced, ErasedStaysErased
  <2> HIDE DEF here, mine
  <2>4. b \in BatchType /\ b.after < b.through /\ b.through <= chat.top /\ b.through > chat.base
    BY <2>1, <2>2, <2>3
  <2>5. Journalled(b)
    BY <1>4, <2>1, <2>4 DEF Journalled
  <2> QED
    BY <1>1, <2>1, <2>4, <2>5, TakesJournal DEF Placed
<1> QED
  BY <1>2, <1>3, <1>4

(* What a failure with a window does to the frontier, of the turn's owner. *)
LEMMA FailureDone ==
    ASSUME TypeOK, Fenced, UNCHANGED <<rt, halted, enabled, chat, due, v1, old, left>>,
           NEW w \in Workers, Done(w),
           NEW after \in 0..MaxSeq, NEW through \in 0..MaxSeq, NEW kind \in Causes, NEW gone,
           FailedAt(after, through, kind, gone), through <= chat.top,
           Accounted => after = cap.front,
           after < through => through > chat.base
    PROVE  Keeps
<1>1. /\ batches' \subseteq batches
      /\ job' = NoJob
      /\ Quiet \/ (Advance(after, through) /\ hist'.heirs = hist.heirs)
  BY FailureEffect
<1>2. CASE Quiet
  BY <1>1, <1>2, QuietDone DEF JournalsKept
<1>3. CASE Advance(after, through) /\ hist'.heirs = hist.heirs
  <2>1. /\ cap' \in CapType /\ hist' \in HistType /\ cap'.front <= chat.top
        /\ after < through
    BY <1>3 DEF Advance
  <2>2. JobFine /\ job'.owner = {}
    BY <1>1, NoJobFine
  <2>3. CardStep /\ JournalsKept
    BY <1>1, <1>3 DEF CardStep, JournalsKept
  <2>4. Accounted => \E t \in 0..MaxSeq : Advance(cap.front, t) /\ t <= chat.top /\ t > chat.base
    BY <1>3, <2>1
  <2> QED
    BY <2>1, <2>2, <2>3, <2>4, DoneKeeps
<1> QED
  BY <1>1, <1>2, <1>3

\* fail_capture_job keeps them.
LEMMA FailKeeps ==
    ASSUME TypeOK, Fenced, NEW w \in Workers, Fail(w)
    PROVE  Keeps
<1>1. UNCHANGED <<rt, halted, enabled, chat, due, v1, old, left>> /\ Done(w) /\ wk[w].pc = "fail"
  BY DEF Fail
<1>2. CASE ~Owned(w)
  BY <1>1, <1>2, IdleDone DEF Fail
<1>3. CASE Owned(w)
  <2>1. FailedAt(wk[w].after, wk[w].through, wk[w].kind, {})
    BY <1>3 DEF Fail
  <2>2. wk[w].kind \in Causes
    BY WorkerFacts DEF WorkerType, Causes
  <2>3. Owns(w) /\ wk[w].pc \in Placed
    BY <1>1, <1>3 DEF Owned, Owns, Placed
  <2>4. Accounted => wk[w].after = cap.front
    BY <2>3 DEF Accounted
  <2>5. wk[w].after < wk[w].through => wk[w].through > chat.base
    BY <2>3 DEF Fenced
  <2> QED
    BY <1>1, <2>1, <2>2, <2>4, <2>5, WorkerFacts, FailureDone
<1> QED
  BY <1>2, <1>3

\* commit_capture_batch keeps them.
LEMMA CommitKeeps ==
    ASSUME TypeOK, Fenced, NEW w \in Workers, Commit(w)
    PROVE  Keeps
<1>1. UNCHANGED <<rt, halted, enabled, chat, due, v1, left>> /\ Done(w) /\ wk[w].pc = "commit"
  BY DEF Commit
<1>2. CASE ~Owned(w) /\ UNCHANGED <<cap, hist, batches, job, old>>
  BY <1>1, <1>2, IdleDone
<1>3. CASE Cancelled /\ UNCHANGED old
  BY <1>1, <1>3, CancelledDone
<1>4. CASE FailedWindowless("batch_unavailable") /\ UNCHANGED <<batches, old>>
  <2>1. Quiet /\ job' = NoJob
    BY <1>4, WindowlessIsQuiet DEF Causes
  <2> QED
    BY <1>1, <1>4, <2>1, QuietDone DEF JournalsKept
<1>5. ASSUME NEW b \in Held(w), FailedWindowless("frontier_changed"), batches' = batches \ {b}, UNCHANGED old
      PROVE  Keeps
  <2>1. Quiet /\ job' = NoJob
    BY <1>5, WindowlessIsQuiet DEF Causes
  <2> QED
    BY <1>1, <1>5, <2>1, QuietDone DEF JournalsKept
<1>6. ASSUME NEW b \in Held(w), cap.front = b.after
      PROVE  /\ b \in batches /\ b.after \in 0..MaxSeq /\ b.through \in 0..MaxSeq
             /\ b.after < b.through /\ b.through <= chat.top /\ b.through > chat.base
  BY DEF Held, TypeOK, Fenced, ErasedStaysErased, BatchType
<1>7. ASSUME NEW b \in Held(w), cap.front = b.after, FailedAt(b.after, b.through, "other", {b}), UNCHANGED old
      PROVE  Keeps
  <2>1. "other" \in Causes
    BY DEF Causes
  <2> QED
    BY <1>1, <1>6, <1>7, <2>1, FailureDone
<1>8. ASSUME NEW b \in Held(w), cap.front = b.after, ~Rejected(b), Land(w, b)
      PROVE  Keeps
  <2>1. b \in batches
    BY <1>6, <1>8
  <2>2. /\ batches' \subseteq batches
        /\ job' = NoJob
        /\ Advance(b.after, b.through)
        /\ hist'.heirs = IF b.act = "sup" THEN hist.heirs + 1 ELSE hist.heirs
        /\ old' = IF b.act = "sup" THEN "superseded" ELSE old
    BY <1>8, <2>1, LandEffect
  <2>3. CardStep
    BY <1>8, <2>2 DEF CardStep, Rejected
  <2>4. cap' \in CapType /\ hist' \in HistType /\ cap'.front = b.through
    BY <2>2 DEF Advance
  <2>5. JobFine /\ job'.owner = {}
    BY <2>2, NoJobFine
  <2>6. \E t \in 0..MaxSeq : Advance(cap.front, t) /\ t <= chat.top /\ t > chat.base
    BY <1>6, <1>8, <2>2
  <2> QED
    BY <1>1, <1>6, <1>8, <2>2, <2>3, <2>4, <2>5, <2>6, DoneKeeps DEF JournalsKept
<1> QED
  BY <1>2, <1>3, <1>4, <1>5, <1>7, <1>8 DEF Commit

\* A turn that ends on an error before its call keeps them.
LEMMA StumbleKeeps ==
    ASSUME TypeOK, Fenced, NEW w \in Workers, Stumble(w)
    PROVE  Keeps
<1> DEFINE u == [wk[w] EXCEPT !.pc = "fail", !.kind = "other"]
<1>1. wk' = [wk EXCEPT ![w] = u]
  BY DEF Stumble
<1>2. u \in WorkerType /\ u.pc = "fail" /\ u.after = wk[w].after /\ u.through = wk[w].through
  BY WorkerFacts DEF WorkerType, Pcs
<1>3. left' \in 0..left
  BY ChargeSpends DEF Stumble
<1> HIDE DEF u
<1> QED
  BY <1>1, <1>2, <1>3, SlideKeeps DEF Stumble, Windowing, Placed

\* The death of a slot process keeps them.
LEMMA DieKeeps ==
    ASSUME TypeOK, Fenced, NEW w \in Workers, Die(w)
    PROVE  Keeps
<1>1. left' \in 0..left
  BY ChargeSpends DEF Die
<1> QED
  BY <1>1, GotoKeeps DEF Die, Pcs, Windowing, Placed, JournalsKept

\* _recover_capture_claim keeps them.
LEMMA RecoverKilledKeeps ==
    ASSUME TypeOK, Fenced, NEW w \in Workers, RecoverKilled(w)
    PROVE  Keeps
<1>1. UNCHANGED <<rt, halted, enabled, chat, batches, due, v1, old, left>> /\ Done(w)
  BY DEF RecoverKilled
<1>2. CASE OwnedAny(w) /\ job.attempt < MaxAttempts
  <2> DEFINE n == job.attempt + 1
             j == [job EXCEPT !.st = "pending", !.owner = {}, !.lapsed = FALSE, !.attempt = n]
  <2>1. job' = j /\ UNCHANGED <<cap, hist>>
    BY <1>2 DEF RecoverKilled
  <2>a. n \in Nat
    BY SMT DEF TypeOK, JobType
  <2> HIDE DEF n
  <2>2. j \in JobType /\ j.owner = {} /\ j.st = "pending"
    BY <2>a DEF TypeOK, JobType
  <2> HIDE DEF j
  <2>3. Quiet
    BY <2>1, UnchangedIsQuiet
  <2>4. JobFine /\ job'.owner = {} /\ CardStep /\ JournalsKept
    BY <1>1, <2>1, <2>2 DEF JobFine, CardStep, JournalsKept
  <2>5. cap' \in CapType /\ hist' \in HistType /\ cap'.front <= chat.top
    BY <2>3, WorkerFacts DEF Quiet
  <2> QED
    BY <1>1, <2>3, <2>4, <2>5, DoneKeeps
<1>3. CASE OwnedAny(w) /\ ~(job.attempt < MaxAttempts)
  <2>1. Crashed
    BY <1>3 DEF RecoverKilled
  <2> QED
    BY <1>1, <2>1, CrashedIsQuiet, QuietDone DEF JournalsKept
<1>4. CASE ~OwnedAny(w)
  BY <1>1, <1>4, IdleDone DEF RecoverKilled
<1> QED
  BY <1>2, <1>3, <1>4

-----------------------------------------------------------------------------
(***************************************************************************)
(* The scheduler, the reaper, the user and the operator                    *)
(***************************************************************************)

\* Chat, frontier and generation lie within their bounds.
LEMMA PlainFacts ==
    ASSUME TypeOK, Fenced
    PROVE  /\ chat \in [base : 0..MaxSeq, top : Seqs] /\ chat.top \in Nat /\ chat.base \in Nat
           /\ chat.top >= chat.top /\ chat.base <= chat.top
           /\ left \in 0..left /\ left \in Nat
           /\ rt.gen \in Nat /\ rt.gen + left <= MaxFaults
           /\ due \in BOOLEAN /\ v1 \subseteq ResidentType
           /\ cap \in CapType /\ hist \in HistType /\ cap.front <= chat.top
  BY SMT, Numbers DEF TypeOK, Fenced, Seqs

(* A step that leaves the chat and the resident runtime alone.             *)
LEMMA QuietBeside ==
    ASSUME TypeOK, Fenced, UNCHANGED <<rt, halted, enabled, wk, chat, v1>>,
           left' \in 0..left, due' \in BOOLEAN, CardStep, JournalsKept,
           JobFine, job'.owner = job.owner \/ job'.owner = {}, Quiet
    PROVE  Keeps
<1>1. cap' \in CapType /\ hist' \in HistType /\ cap'.front <= chat.top
  BY PlainFacts DEF Quiet
<1> QED
  BY <1>1, PlainFacts, BesideKeeps

\* The scheduler's look keeps them.
LEMMA LookKeeps ==
    ASSUME TypeOK, Fenced, Look
    PROVE  Keeps
<1>1. Quiet /\ JobFine /\ job'.owner = job.owner
  BY UnchangedIsQuiet, SameJobFine DEF Look
<1>2. CardStep /\ JournalsKept
  BY DEF Look, CardStep, JournalsKept
<1> QED
  BY <1>1, <1>2, PlainFacts, QuietBeside DEF Look

\* _enqueue_capture_once keeps them.
LEMMA EnqueueKeeps ==
    ASSUME TypeOK, Fenced, Enqueue
    PROVE  Keeps
<1>1. UNCHANGED <<rt, halted, enabled, chat, batches, wk, v1, old, left>> /\ due' = FALSE
  BY DEF Enqueue
<1>2. JournalsKept /\ left' \in 0..left /\ due' \in BOOLEAN
  BY <1>1, PlainFacts DEF JournalsKept
<1>3. ASSUME Quiet, JobFine, job'.owner = job.owner \/ job'.owner = {}
      PROVE  Keeps
  <2>1. CardStep
    BY <1>1, <1>3 DEF CardStep, Quiet
  <2> QED
    BY <1>1, <1>2, <1>3, <2>1, QuietBeside
<1>4. CASE Crashed
  BY <1>3, <1>4, CrashedIsQuiet, NoJobFine
<1>5. CASE UNCHANGED <<cap, hist, job>>
  BY <1>3, <1>5, UnchangedIsQuiet, SameJobFine
<1>6. CASE job' = NewJob /\ UNCHANGED <<cap, hist>>
  <2> DEFINE g == IF rt.v2 THEN rt.gen ELSE -1
  <2>1. g \in -1..MaxFaults
    BY SMT, PlainFacts, Numbers DEF TypeOK
  <2>2. NewJob = [st |-> "pending", gen |-> g, owner |-> {}, attempt |-> 0, lapsed |-> FALSE]
    BY DEF NewJob
  <2> HIDE DEF g
  <2>3. JobFine /\ job'.owner = {}
    BY <1>6, <2>1, <2>2 DEF JobFine, JobType
  <2> QED
    BY <1>3, <1>6, <2>3, UnchangedIsQuiet
<1> QED
  BY <1>4, <1>5, <1>6 DEF Enqueue

\* The end of a backoff keeps them.
LEMMA BackoffOverKeeps ==
    ASSUME TypeOK, Fenced, BackoffOver
    PROVE  Keeps
<1>1. Quiet
  BY DEF BackoffOver, Quiet, TypeOK, CapType
<1>2. JobFine /\ job'.owner = job.owner
  BY SameJobFine DEF BackoffOver
<1>3. CardStep /\ JournalsKept
  BY DEF BackoffOver, CardStep, JournalsKept
<1> QED
  BY <1>1, <1>2, <1>3, PlainFacts, QuietBeside DEF BackoffOver

\* The end of a lease keeps them.
LEMMA LapseKeeps ==
    ASSUME TypeOK, Fenced, Lapse
    PROVE  Keeps
<1>1. Quiet
  BY UnchangedIsQuiet DEF Lapse
<1>2. JobFine /\ job'.owner = job.owner
  BY DEF Lapse, JobFine, TypeOK, JobType
<1>3. CardStep /\ JournalsKept
  BY DEF Lapse, CardStep, JournalsKept
<1>4. left' \in 0..left
  BY ChargeSpends, PlainFacts DEF Lapse
<1> QED
  BY <1>1, <1>2, <1>3, <1>4, PlainFacts, QuietBeside DEF Lapse

\* The capture reaper keeps them.
LEMMA ReapKeeps ==
    ASSUME TypeOK, Fenced, Reap
    PROVE  Keeps
<1>1. Quiet /\ job' = NoJob
  BY CrashedIsQuiet DEF Reap
<1>2. JobFine /\ job'.owner = {}
  BY <1>1, NoJobFine
<1>3. CardStep /\ JournalsKept
  BY <1>1 DEF Reap, CardStep, JournalsKept, Quiet
<1> QED
  BY <1>1, <1>2, <1>3, PlainFacts, QuietBeside DEF Reap

\* Collecting old journals keeps them.
LEMMA CollectKeeps ==
    ASSUME TypeOK, Fenced, Collect
    PROVE  Keeps
<1>1. Quiet /\ JobFine /\ job'.owner = job.owner
  BY UnchangedIsQuiet, SameJobFine DEF Collect
<1>2. CardStep /\ JournalsKept
  BY DEF Collect, CardStep, JournalsKept
<1>3. left' \in 0..left
  BY ChargeSpends, PlainFacts DEF Collect
<1> QED
  BY <1>1, <1>2, <1>3, PlainFacts, QuietBeside DEF Collect

\* A message, and the preemption it causes, keeps them.
LEMMA SendKeeps ==
    ASSUME TypeOK, Fenced, Send
    PROVE  Keeps
<1>1. UNCHANGED <<rt, halted, enabled, batches, due, wk, v1, old, left>>
  BY DEF Send
<1>2. /\ chat' \in [base : 0..MaxSeq, top : Seqs] /\ chat'.base = chat.base
      /\ chat'.top >= chat.top
  <2> DEFINE t == chat.top + 1
  <2>1. chat' = [chat EXCEPT !.top = t]
    BY DEF Send
  <2>2. t \in Seqs /\ t >= chat.top
    BY SMT, PlainFacts, Numbers DEF Send, Seqs
  <2> HIDE DEF t
  <2> QED
    BY <2>1, <2>2, PlainFacts
<1>3. JournalsKept
  BY <1>1 DEF JournalsKept
<1>4. ASSUME Quiet, JobFine, job'.owner = job.owner \/ job'.owner = {}
      PROVE  Keeps
  <2>1. CardStep
    BY <1>1, <1>4 DEF CardStep, Quiet
  <2>2. cap' \in CapType /\ hist' \in HistType /\ cap'.front <= chat.top
    BY <1>4, PlainFacts DEF Quiet
  <2> QED
    BY <1>1, <1>2, <1>3, <1>4, <2>1, <2>2, PlainFacts, BesideKeeps
<1>5. CASE UNCHANGED <<job, cap, hist>>
  BY <1>4, <1>5, UnchangedIsQuiet, SameJobFine
<1>6. CASE Crashed
  BY <1>4, <1>6, CrashedIsQuiet, NoJobFine
<1>7. CASE job' = [job EXCEPT !.st = "pending", !.owner = {}] /\ UNCHANGED <<cap, hist>>
  <2>1. JobFine /\ job'.owner = {}
    BY <1>7 DEF JobFine, TypeOK, JobType
  <2> QED
    BY <1>4, <1>7, <2>1, UnchangedIsQuiet
<1> QED
  BY <1>5, <1>6, <1>7 DEF Send

\* Archiving the older card keeps them.
LEMMA RetireKeeps ==
    ASSUME TypeOK, Fenced, Retire
    PROVE  Keeps
<1>1. Quiet /\ JobFine /\ job'.owner = job.owner
  BY UnchangedIsQuiet, SameJobFine DEF Retire
<1>2. CardStep /\ JournalsKept
  BY DEF Retire, CardStep, JournalsKept
<1>3. left' \in 0..left
  BY ChargeSpends DEF Retire
<1> QED
  BY <1>1, <1>2, <1>3, PlainFacts, QuietBeside DEF Retire

\* The resident runtime's capture job keeps them.
LEMMA ResidentKeeps ==
    ASSUME TypeOK, Fenced, ResidentStart \/ ResidentLoad \/ ResidentSave
    PROVE  Keeps
<1>1. /\ UNCHANGED <<rt, halted, enabled, chat, batches, job, due, wk, old, left>>
      /\ left' \in 0..left /\ JournalsKept /\ due' \in BOOLEAN
  BY PlainFacts DEF ResidentStart, ResidentLoad, ResidentSave, JournalsKept
<1>2. JobFine /\ job'.owner = job.owner
  BY <1>1, SameJobFine
<1>3. ~Accounted
  BY DEF Accounted, ResidentStart, ResidentLoad, ResidentSave
<1>4. ASSUME v1' \subseteq ResidentType,
             \A j \in v1' : j.through <= chat.top /\ \A c \in j.seen : c.front <= chat.top,
             cap' \in CapType, hist' \in HistType, cap'.front <= chat.top, hist'.heirs = hist.heirs
      PROVE  Keeps
  <2>1. CardStep
    BY <1>1, <1>4 DEF CardStep
  <2> QED
    BY <1>1, <1>2, <1>3, <1>4, <2>1, PlainFacts, BesideKeeps
<1>5. CASE ResidentStart
  <2> DEFINE j == [after |-> cap.front, through |-> chat.top, seen |-> {}]
  <2>1. v1' = {j} /\ UNCHANGED <<cap, hist>>
    BY <1>5 DEF ResidentStart
  <2>2. j \in ResidentType /\ j.through <= chat.top /\ j.seen = {}
    BY SMT, PlainFacts DEF ResidentType, CapType, Seqs
  <2> HIDE DEF j
  <2> QED
    BY <1>4, <2>1, <2>2, PlainFacts
<1>6. CASE ResidentLoad
  <2>1. PICK i \in v1 : v1' = {[i EXCEPT !.seen = {cap}]}
    BY <1>6 DEF ResidentLoad
  <2> DEFINE j == [i EXCEPT !.seen = {cap}]
  <2>2. j \in ResidentType /\ j.through = i.through /\ j.seen = {cap}
    BY PlainFacts DEF ResidentType
  <2>3. i.through <= chat.top /\ UNCHANGED <<cap, hist>> /\ v1' = {j}
    BY <1>6, <2>1 DEF ResidentLoad, Fenced, ResidentsBehind
  <2> HIDE DEF j
  <2> QED
    BY <1>4, <2>2, <2>3, PlainFacts
<1>7. CASE ResidentSave
  <2>1. PICK j \in v1, c \in UNION {i.seen : i \in v1} :
          /\ cap' = [Reset(c) EXCEPT !.front = IF j.through > Reset(c).front THEN j.through ELSE Reset(c).front]
          /\ hist' = [hist EXCEPT !.v1 = hist.v1 \cup Span(j.after, j.through), !.fails = <<>>]
    BY <1>7 DEF ResidentSave
  <2>2. v1' = {}
    BY <1>7 DEF ResidentSave
  <2>3. c \in CapType /\ c.front <= chat.top /\ j \in ResidentType /\ j.through <= chat.top
    BY SMT DEF TypeOK, Fenced, ResidentsBehind, ResidentType
  <2> DEFINE f == IF j.through > Reset(c).front THEN j.through ELSE Reset(c).front
             v == hist.v1 \cup Span(j.after, j.through)
  <2>4. f \in 0..MaxSeq /\ f <= chat.top
    BY <2>3, ResetKeeps DEF ResidentType, CapType
  <2>5. v \in SUBSET Seqs
    BY PlainFacts DEF HistType, Span
  <2>6. cap' = [Reset(c) EXCEPT !.front = f] /\ hist' = [hist EXCEPT !.v1 = v, !.fails = <<>>]
    BY <2>1
  <2> HIDE DEF f, v
  <2>7. cap' \in CapType /\ cap'.front = f
    BY <2>3, <2>4, <2>6, MovesTo
  <2>8. hist' \in HistType /\ hist'.heirs = hist.heirs
    BY <2>5, <2>6, PlainFacts, Bounds DEF HistType
  <2> QED
    BY <1>4, <2>2, <2>4, <2>7, <2>8
<1> QED
  BY <1>5, <1>6, <1>7

(* The revocations wait for the fences, so no provider call is out.        *)
LEMMA ToggleKeeps ==
    ASSUME TypeOK, Fenced, Toggle
    PROVE  Keeps
<1>1. /\ UNCHANGED <<rt, halted, chat, cap, job, due, wk, v1, old, hist>>
      /\ enabled' = ~enabled /\ batches' = IF enabled THEN {} ELSE batches
      /\ \A w \in Workers : wk[w].pc # "calling"
  BY DEF Toggle, FencesFree
<1>2. left' = left - 1 /\ left > 0
  BY ChargeSpends DEF Toggle
<1>3. TypeOK'
  <2>1. left' \in 0..MaxFaults
    BY SMT, <1>2, PlainFacts, Numbers
  <2> QED
    BY <1>1, <2>1 DEF TypeOK
<1>4. DisclosureFenced'
  BY <1>1 DEF DisclosureFenced, TypeOK
<1>5. ErasedStaysErased'
  BY <1>1 DEF ErasedStaysErased, Fenced
<1>6. rt'.gen + left' <= MaxFaults
  BY SMT, <1>1, <1>2, PlainFacts, Numbers
<1>7. Fenced'
  BY <1>1, <1>4, <1>5, <1>6 DEF Fenced, OneHeir, Owns, ResidentsBehind
<1>8. Accounted => Accounted'
  BY <1>1 DEF Accounted, Owns, Paid
<1> QED
  BY <1>3, <1>7, <1>8 DEF Keeps

\* The fleet-wide halt keeps them: it waits for the fences.
LEMMA HaltKeeps ==
    ASSUME TypeOK, Fenced, Halt
    PROVE  Keeps
<1>1. /\ UNCHANGED <<rt, enabled, chat, cap, batches, job, due, wk, v1, old, hist>>
      /\ halted' = ~halted
      /\ \A w \in Workers : wk[w].pc # "calling"
  BY DEF Halt, FencesFree
<1>2. left' = left - 1 /\ left > 0
  BY ChargeSpends DEF Halt
<1>3. TypeOK'
  <2>1. left' \in 0..MaxFaults
    BY SMT, <1>2, PlainFacts, Numbers
  <2> QED
    BY <1>1, <2>1 DEF TypeOK
<1>4. DisclosureFenced'
  BY <1>1 DEF DisclosureFenced, TypeOK
<1>5. ErasedStaysErased'
  BY <1>1 DEF ErasedStaysErased, Fenced
<1>6. rt'.gen + left' <= MaxFaults
  BY SMT, <1>1, <1>2, PlainFacts, Numbers
<1>7. Fenced'
  BY <1>1, <1>4, <1>5, <1>6 DEF Fenced, OneHeir, Owns, ResidentsBehind
<1>8. Accounted => Accounted'
  BY <1>1 DEF Accounted, Owns, Paid
<1> QED
  BY <1>3, <1>7, <1>8 DEF Keeps

\* The state of a user never captured is well formed.
LEMMA FreshCapType == FreshCap \in CapType /\ FreshCap.front = 0
  BY Bounds DEF FreshCap, CapType

(* Clear moves the base to the newest message: nothing beyond it has been  *)
(* captured or given up yet.                                               *)
LEMMA ClearKeeps ==
    ASSUME TypeOK, Fenced, Clear
    PROVE  Keeps
<1>1. /\ UNCHANGED <<halted, enabled, due, wk, v1, old>>
      /\ rt' = [rt EXCEPT !.gen = rt.gen + 1]
      /\ chat' = [chat EXCEPT !.base = chat.top]
      /\ hist' = [hist EXCEPT !.fails = <<>>]
      /\ cap' = FreshCap /\ batches' = {} /\ job' = NoJob
      /\ \A w \in Workers : wk[w].pc # "calling"
  BY DEF Clear, FencesFree, JobGone
<1>2. left' = left - 1 /\ left > 0 /\ left \in Nat
  BY ChargeSpends DEF Clear
<1>3. /\ rt' \in [v2 : BOOLEAN, gen : 0..MaxFaults]
      /\ rt'.gen + left' <= MaxFaults /\ rt'.v2 = rt.v2
  <2> DEFINE g == rt.gen + 1
  <2>1. g \in 0..MaxFaults /\ g + left' <= MaxFaults
    BY SMT, <1>2, PlainFacts, Numbers
  <2> HIDE DEF g
  <2>2. rt' = [rt EXCEPT !.gen = g]
    BY <1>1 DEF g
  <2>3. rt' \in [v2 : BOOLEAN, gen : 0..MaxFaults] /\ rt'.gen = g /\ rt'.v2 = rt.v2
    BY <2>1, <2>2 DEF TypeOK
  <2> QED
    BY <2>1, <2>3
<1>4. /\ chat' \in [base : 0..MaxSeq, top : Seqs] /\ chat'.base = chat.top /\ chat'.top = chat.top
      /\ chat'.base <= chat'.top
  BY SMT, <1>1, PlainFacts, Numbers DEF Seqs
<1>5. /\ hist' \in HistType /\ hist'.v2 = hist.v2 /\ hist'.skipped = hist.skipped
      /\ hist'.heirs = hist.heirs
  BY <1>1, PlainFacts, Bounds DEF HistType
<1>6. cap' \in CapType /\ cap'.front = 0 /\ JobFine /\ job'.owner = {}
  BY <1>1, FreshCapType, NoJobFine
<1>7. TypeOK'
  <2>1. left' \in 0..MaxFaults
    BY SMT, <1>2, PlainFacts, Numbers
  <2> QED
    BY <1>1, <1>3, <1>4, <1>5, <1>6, <2>1 DEF TypeOK, JobFine
<1>8. DisclosureFenced' /\ ErasedStaysErased'
  BY <1>1 DEF DisclosureFenced, ErasedStaysErased, TypeOK
<1>9. cap'.front <= chat'.top
  BY SMT, <1>4, <1>6, PlainFacts
<1>10. \A w \in Workers : job'.owner # {w}
  BY <1>6
<1>11. Fenced'
  BY <1>1, <1>3, <1>4, <1>5, <1>8, <1>9, <1>10
     DEF Fenced, OneHeir, Owns, ResidentsBehind
<1>12. ASSUME Accounted PROVE Accounted'
  <2>1. ASSUME NEW s \in Seqs, s > chat'.base PROVE Paid(s)'
    <3>1. s \in Nat /\ cap.front \in Nat /\ s > chat.base /\ ~(s <= cap.front) /\ ~(s <= 0)
      BY SMT, <1>4, <2>1, PlainFacts, Numbers DEF Seqs, CapType
    <3>2. hist.v2[s] = 0 /\ s \notin hist.skipped
      BY <1>12, <3>1 DEF Accounted, Paid
    <3> QED
      BY <1>5, <1>6, <3>1, <3>2 DEF Paid
  <2> QED
    BY <1>1, <1>3, <1>6, <1>10, <1>12, <2>1 DEF Accounted, Owns
<1> QED
  BY <1>7, <1>11, <1>12 DEF Keeps

(* A cutover ends the promise of the ledger, and nothing else.             *)
LEMMA CutoverKeeps ==
    ASSUME TypeOK, Fenced, Cutover
    PROVE  TypeOK' /\ Fenced' /\ hist'.moved
<1>1. /\ UNCHANGED <<halted, enabled, chat, cap, batches, job, due, wk, v1, old>>
      /\ rt' = [v2 |-> ~rt.v2, gen |-> rt.gen + 1]
      /\ hist' = [hist EXCEPT !.moved = TRUE]
      /\ \A w \in Workers : wk[w].pc # "calling"
  BY DEF Cutover, FencesFree
<1>2. left' = left - 1 /\ left > 0 /\ left \in Nat
  BY ChargeSpends DEF Cutover
<1>3. rt' \in [v2 : BOOLEAN, gen : 0..MaxFaults] /\ rt'.gen + left' <= MaxFaults
  <2> DEFINE g == rt.gen + 1
             m == ~rt.v2
  <2>1. g \in 0..MaxFaults /\ g + left' <= MaxFaults
    BY SMT, <1>2, PlainFacts, Numbers
  <2>2. m \in BOOLEAN /\ rt' = [v2 |-> m, gen |-> g]
    BY <1>1
  <2> HIDE DEF g, m
  <2> QED
    BY <2>1, <2>2
<1>4. hist' \in HistType /\ hist'.heirs = hist.heirs /\ hist'.moved
  BY <1>1, PlainFacts DEF HistType
<1>5. TypeOK'
  <2>1. left' \in 0..MaxFaults
    BY SMT, <1>2, PlainFacts, Numbers
  <2> QED
    BY <1>1, <1>3, <1>4, <2>1 DEF TypeOK
<1>6. DisclosureFenced' /\ ErasedStaysErased'
  BY <1>1 DEF DisclosureFenced, ErasedStaysErased, TypeOK, Fenced
<1>7. Fenced'
  BY <1>1, <1>3, <1>4, <1>6 DEF Fenced, OneHeir, Owns, ResidentsBehind
<1> QED
  BY <1>4, <1>5, <1>7

-----------------------------------------------------------------------------
(***************************************************************************)
(* What any step does to the frontier                                      *)
(***************************************************************************)

(* The owner of the job moves the frontier over the window it holds; cards *)
(* only with consent.                                                      *)
OwnerAdvances ==
    \E w \in Workers, after, through \in 0..MaxSeq :
        /\ Owned(w)
        /\ Advance(after, through)
        /\ Accounted => after = cap.front
        /\ hist'.v2 # hist.v2 => enabled /\ ~halted

\* A failure moves the frontier only by the owner giving its window up.
LEMMA FailureAdvances ==
    ASSUME TypeOK, Fenced, NEW w \in Workers, Owned(w), NEW kind \in Causes, NEW gone,
           NEW after \in 0..MaxSeq, NEW through \in 0..MaxSeq,
           FailedAt(after, through, kind, gone), Accounted => after = cap.front
    PROVE  Quiet \/ OwnerAdvances
<1>1. Quiet \/ (Advance(after, through) /\ hist'.heirs = hist.heirs)
  BY FailureEffect
<1>2. CASE Advance(after, through)
  <2>1. FailedAt(after, through, kind, gone) => hist'.v2 = hist.v2
    BY DEF FailedAt, TypeOK, HistType
  <2> QED
    BY <1>2, <2>1 DEF OwnerAdvances
<1> QED
  BY <1>1, <1>2

\* A commit moves the frontier only past the owner's window.
LEMMA CommitAdvances ==
    ASSUME TypeOK, Fenced, NEW w \in Workers, Commit(w)
    PROVE  Quiet \/ OwnerAdvances
<1>1. CASE UNCHANGED <<cap, hist>>
  BY <1>1, UnchangedIsQuiet
<1>2. CASE FailedWindowless("batch_unavailable") \/ FailedWindowless("frontier_changed")
  BY <1>2, WindowlessIsQuiet DEF Causes
<1>3. ASSUME NEW b \in Held(w), Owned(w), cap.front = b.after,
             FailedAt(b.after, b.through, "other", {b})
      PROVE  Quiet \/ OwnerAdvances
  <2>1. b.after \in 0..MaxSeq /\ b.through \in 0..MaxSeq /\ "other" \in Causes
    BY DEF Held, TypeOK, BatchType, Causes
  <2> QED
    BY <1>3, <2>1, FailureAdvances
<1>4. ASSUME NEW b \in Held(w), Owned(w), ~halted, enabled, cap.front = b.after, Land(w, b)
      PROVE  OwnerAdvances
  <2>1. b \in batches /\ b.after \in 0..MaxSeq /\ b.through \in 0..MaxSeq
    BY DEF Held, TypeOK, BatchType
  <2>2. Advance(b.after, b.through)
    BY <1>4, <2>1, LandEffect
  <2> QED
    BY <1>4, <2>1, <2>2 DEF OwnerAdvances
<1>5. CASE Cancelled
  BY <1>1, <1>5 DEF Cancelled
<1> QED
  BY <1>1, <1>2, <1>3, <1>4, <1>5 DEF Commit

\* Every step is quiet, advances the owner, or is a Clear, a cutover or a
\* resident report.
LEMMA Effects ==
    ASSUME TypeOK, Fenced, Next
    PROVE  Quiet \/ OwnerAdvances \/ Clear \/ Cutover \/ ResidentSave
<1>1. CASE UNCHANGED <<cap, hist>>
  BY <1>1, UnchangedIsQuiet
<1>2. CASE Crashed
  BY <1>2, CrashedIsQuiet
<1>3. ASSUME NEW w \in Workers, Turn(w) \/ Stumble(w) \/ Die(w)
      PROVE  Quiet \/ OwnerAdvances
  <2>1. CASE Claim(w) \/ Gate(w) \/ ReadFrontier(w) \/ Adopt(w) \/ ReadTail(w)
    BY <1>1, <2>1, UnchangedIsQuiet
       DEF Claim, Gate, ReadFrontier, Adopt, ReadTail, Cancelled
  <2>2. CASE Authorize(w) \/ Answered(w) \/ Prepare(w) \/ Stumble(w) \/ Die(w)
    BY <1>1, <2>2, UnchangedIsQuiet
       DEF Authorize, Answered, Prepare, Stumble, Die, Cancelled
  <2>3. CASE NoWork(w)
    BY <2>3, UnchangedIsQuiet, ResetIsQuiet DEF NoWork
  <2>4. CASE RecoverKilled(w)
    BY <2>4, UnchangedIsQuiet, CrashedIsQuiet DEF RecoverKilled
  <2>5. CASE Fail(w)
    <3>1. CASE ~Owned(w)
      BY <2>5, <3>1, UnchangedIsQuiet DEF Fail
    <3>2. CASE Owned(w)
      <4>1. FailedAt(wk[w].after, wk[w].through, wk[w].kind, {}) /\ wk[w].pc = "fail"
        BY <2>5, <3>2 DEF Fail
      <4>2. wk[w].kind \in Causes
        BY WorkerFacts DEF WorkerType, Causes
      <4>3. Accounted => wk[w].after = cap.front
        BY <3>2, <4>1 DEF Accounted, Owned, Owns, Placed
      <4> QED
        BY <3>2, <4>1, <4>2, <4>3, WorkerFacts, FailureAdvances
    <3> QED
      BY <3>1, <3>2
  <2>6. CASE Commit(w)
    BY <2>6, CommitAdvances
  <2> QED
    BY <1>3, <2>1, <2>2, <2>3, <2>4, <2>5, <2>6 DEF Turn
<1>4. CASE Look \/ Lapse \/ Collect \/ Toggle \/ Halt \/ Retire \/ ResidentStart \/ ResidentLoad
  BY <1>1, <1>4 DEF Look, Lapse, Collect, Toggle, Halt, Retire, ResidentStart, ResidentLoad
<1>5. CASE Enqueue \/ Reap \/ Send
  BY <1>1, <1>2, <1>5 DEF Enqueue, Reap, Send
<1>6. CASE BackoffOver
  BY <1>6 DEF BackoffOver, Quiet, TypeOK, CapType
<1> QED
  BY <1>3, <1>4, <1>5, <1>6 DEF Next

-----------------------------------------------------------------------------
(***************************************************************************)
(* The theorems                                                            *)
(***************************************************************************)

Inv ==
    /\ TypeOK
    /\ Fenced
    /\ ~hist.moved => Accounted

\* The invariants hold of a user never captured.
LEMMA Initially == Init => Inv
<1> SUFFICES ASSUME Init PROVE Inv
  OBVIOUS
<1>1. TypeOK
  <2>1. NoHist \in HistType
    BY Bounds DEF NoHist, HistType
  <2>2. NoJob \in JobType /\ NoJob.owner = {} /\ NoJob.st = "none"
    BY SMT, Numbers DEF NoJob, JobType
  <2>3. IdleWorker \in WorkerType
    BY SMT, Numbers DEF IdleWorker, WorkerType, Pcs
  <2>4. chat \in [base : 0..MaxSeq, top : Seqs] /\ chat.base <= chat.top
    BY SMT, Numbers DEF Init, Seqs
  <2>5. rt \in [v2 : BOOLEAN, gen : 0..MaxFaults] /\ left \in 0..MaxFaults
    BY SMT, Numbers DEF Init
  <2> QED
    BY <2>1, <2>2, <2>3, <2>4, <2>5, FreshCapType DEF Init, TypeOK
<1>2. Fenced
  BY SMT, Numbers
     DEF Init, Fenced, ResidentsBehind, FreshCap, IdleWorker, DisclosureFenced,
     ErasedStaysErased, OneHeir, NoHist, Windowing, Placed, Owns
<1>3. Accounted
  BY SMT, Numbers
     DEF Init, Accounted, Paid, FreshCap, NoHist, IdleWorker, Placed, Owns, Seqs
<1> QED
  BY <1>1, <1>2, <1>3 DEF Inv

\* Every step keeps them.
LEMMA StepKeeps == Inv /\ [Next]_vars => Inv'
<1> SUFFICES ASSUME Inv, [Next]_vars PROVE Inv'
  OBVIOUS
<1>0. TypeOK /\ Fenced
  BY DEF Inv
<1>1. ASSUME Keeps, hist.moved => hist'.moved
      PROVE  Inv'
  BY <1>1 DEF Inv, Keeps
<1>2. ASSUME Next PROVE hist.moved => hist'.moved
  <2>1. CASE Quiet \/ OwnerAdvances
    BY <2>1 DEF Quiet, OwnerAdvances, Advance
  <2>2. CASE Clear \/ Cutover \/ ResidentSave
    BY <1>0, <2>2 DEF Clear, Cutover, ResidentSave, TypeOK, HistType
  <2> QED
    BY <1>0, <1>2, <2>1, <2>2, Effects
<1>3. CASE \E w \in Workers : Turn(w) \/ Stumble(w) \/ Die(w)
  <2>1. PICK w \in Workers : Turn(w) \/ Stumble(w) \/ Die(w)
    BY <1>3
  <2>2. Keeps
    BY <1>0, <2>1, ClaimKeeps, GateKeeps, ReadFrontierKeeps, AdoptKeeps, ReadTailKeeps, NoWorkKeeps,
       AuthorizeKeeps, AnsweredKeeps, PrepareKeeps, CommitKeeps, FailKeeps, RecoverKilledKeeps,
       StumbleKeeps, DieKeeps DEF Turn
  <2> QED
    BY <1>1, <1>2, <1>3, <2>2 DEF Next
<1>4. CASE Look \/ Enqueue \/ BackoffOver \/ Lapse \/ Reap \/ Collect \/ Send
  BY <1>0, <1>1, <1>2, <1>4, LookKeeps, EnqueueKeeps, BackoffOverKeeps, LapseKeeps, ReapKeeps,
     CollectKeeps, SendKeeps DEF Next
<1>5. CASE Toggle \/ Halt \/ Clear \/ Retire \/ ResidentStart \/ ResidentLoad \/ ResidentSave
  BY <1>0, <1>1, <1>2, <1>5, ToggleKeeps, HaltKeeps, ClearKeeps, RetireKeeps, ResidentKeeps
     DEF Next
<1>6. CASE Cutover
  BY <1>0, <1>6, CutoverKeeps DEF Inv
<1>7. CASE UNCHANGED vars
  BY SMT, <1>7
     DEF vars, Inv, TypeOK, Fenced, Accounted, Paid, Owns, ResidentsBehind, DisclosureFenced,
     ErasedStaysErased, OneHeir
<1> QED
  BY <1>3, <1>4, <1>5, <1>6, <1>7 DEF Next

(* The inductive invariant.                                                *)
THEOREM Invariance == Spec => []Inv
<1>1. Init => Inv
  BY Initially
<1>2. Inv /\ [Next]_vars => Inv'
  BY StepKeeps
<1> QED
  BY <1>1, <1>2, PTL DEF Spec

(* Type correctness, with the single owner of a claimed job and the        *)
(* journals' non-empty windows.                                            *)
THEOREM TypeCorrect == Spec => []TypeOK
<1>1. Inv => TypeOK
  BY DEF Inv
<1> QED
  BY <1>1, Invariance, PTL

(* While messages are with the provider, capture is on, turns are not      *)
(* halted and the messages are not cleared: the turn read its window       *)
(* without a lock, but authorize_capture_provider_call lets only the owner *)
(* through, and whatever clears the chat takes the job with it.            *)
THEOREM CallsAreFenced == Spec => []DisclosureFenced
<1>1. Inv => DisclosureFenced
  BY DEF Inv, Fenced
<1> QED
  BY <1>1, Invariance, PTL

(* No journal survives opt-out or Clear, or is created behind them by a    *)
(* turn that had read its window before.                                   *)
THEOREM ErasureHolds == Spec => []ErasedStaysErased
<1>1. Inv => ErasedStaysErased
  BY DEF Inv, Fenced
<1> QED
  BY <1>1, Invariance, PTL

(* The older card gets at most one successor, and none once archived.      *)
THEOREM OneSuccessor == Spec => []OneHeir
<1>1. Inv => OneHeir
  BY DEF Inv, Fenced
<1> QED
  BY <1>1, Invariance, PTL

(* Every live message behind the frontier was captured by one commit or    *)
(* given up once, and none in front of it was: zombies, requeues and       *)
(* adopted journals of commit_capture_batch never capture it again.        *)
THEOREM WindowsCapturedOnce == Spec => []CapturedOnce
<1>1. Inv => CapturedOnce
  <2> SUFFICES ASSUME Inv, ~hist.moved PROVE \A s \in DOMAIN hist.v2 : s > chat.base =>
        IF s <= cap.front
        THEN hist.v2[s] + (IF s \in hist.skipped THEN 1 ELSE 0) = 1
        ELSE hist.v2[s] = 0
    BY DEF CapturedOnce
  <2>1. DOMAIN hist.v2 = Seqs
    BY DEF Inv, TypeOK, HistType
  <2> QED
    BY <2>1 DEF Inv, Accounted, Paid
<1> QED
  BY <1>1, Invariance, PTL

(* The frontier only moves forward until Clear: a failed, adopted or late  *)
(* commit never pulls it back.                                             *)
THEOREM FrontierOnlyAdvances == Spec => FrontierNeverBack
<1>1. Inv /\ [Next]_vars => [~hist'.moved /\ chat'.base = chat.base => cap'.front >= cap.front]_vars
  <2> SUFFICES ASSUME Inv, Next, ~hist'.moved, chat'.base = chat.base
               PROVE  cap'.front >= cap.front
    BY DEF vars
  <2>0. TypeOK /\ Fenced
    BY DEF Inv
  <2>1. cap.front \in Nat /\ chat.top \in Nat /\ chat.base \in Nat /\ cap.front <= chat.top
    BY SMT, <2>0, PlainFacts DEF CapType
  <2>2. CASE Quiet
    BY SMT, <2>1, <2>2 DEF Quiet
  <2>3. CASE OwnerAdvances
    <3>1. PICK after \in 0..MaxSeq, through \in 0..MaxSeq :
            Advance(after, through) /\ (Accounted => after = cap.front)
      BY <2>3 DEF OwnerAdvances
    <3>2. Accounted
      BY <3>1 DEF Inv, Advance
    <3> QED
      BY SMT, <2>1, <3>1, <3>2 DEF Advance
  <2>4. CASE Clear
    <3>1. Accounted
      BY <2>0, <2>4 DEF Inv, Clear, TypeOK, HistType
    <3>2. chat'.base = chat.top
      BY <2>0, <2>4 DEF Clear, TypeOK
    <3>3. cap.front = 0
      BY SMT, <2>1, <3>1, <3>2 DEF Accounted
    <3> QED
      BY SMT, <2>4, <3>3, FreshCapType DEF Clear
  <2>5. CASE Cutover
    BY <2>0, <2>5, CutoverKeeps
  <2>6. CASE ResidentSave
    BY <2>0, <2>6 DEF Inv, Accounted, ResidentSave, TypeOK, HistType
  <2> QED
    BY <2>0, <2>2, <2>3, <2>4, <2>5, <2>6, Effects
<1> QED
  BY <1>1, Invariance, PTL DEF Spec, FrontierNeverBack

(* A card lands only with capture on, turns not halted and V2 in charge:   *)
(* commit_capture_batch reads all three again in its own transaction.      *)
THEOREM CardsLandWithConsent == Spec => LandsWithConsent
<1>1. Inv /\ [Next]_vars => [hist'.v2 # hist.v2 => enabled /\ ~halted /\ rt.v2]_vars
  <2> SUFFICES ASSUME Inv, Next, hist'.v2 # hist.v2
               PROVE  enabled /\ ~halted /\ rt.v2
    BY DEF vars
  <2>0. TypeOK /\ Fenced
    BY DEF Inv
  <2>1. OwnerAdvances
    <3>1. ~Quiet
      BY DEF Quiet
    <3>2. ~Clear /\ ~Cutover /\ ~ResidentSave
      BY <2>0 DEF Clear, Cutover, ResidentSave, TypeOK, HistType
    <3> QED
      BY <2>0, <3>1, <3>2, Effects
  <2> QED
    BY <2>1 DEF OwnerAdvances, Owned
<1> QED
  BY <1>1, Invariance, PTL DEF Spec, LandsWithConsent

(* No job is created inside a failure backoff, although the scheduler      *)
(* looked at the backoff before _enqueue_capture_once took the locks.      *)
THEOREM BackoffIsKept == Spec => NoJobInBackoff
<1>1. [Next]_vars => [job.st = "none" /\ job'.st = "pending" => ~cap.cool]_vars
  <2> SUFFICES ASSUME Next, job.st = "none", job'.st = "pending"
               PROVE  ~cap.cool
    BY DEF vars
  <2>1. job' # job /\ job' # NoJob
    BY SMT DEF NoJob
  <2>2. ASSUME NEW w \in Workers, Turn(w) \/ Stumble(w) \/ Die(w)
        PROVE  FALSE
    <3>1. CASE Claim(w) \/ Gate(w) \/ ReadFrontier(w) \/ Adopt(w) \/ ReadTail(w) \/ NoWork(w)
      BY <2>1, <3>1
         DEF Claim, Gate, ReadFrontier, Adopt, ReadTail, NoWork, Cancelled, JobGone
    <3>2. CASE Authorize(w) \/ Answered(w) \/ Prepare(w) \/ Stumble(w) \/ Die(w) \/ Fail(w)
      BY <2>1, <3>2
         DEF Authorize, Answered, Prepare, Stumble, Die, Fail, FailedAt, Cancelled, JobGone
    <3>3. CASE Commit(w)
      BY <2>1, <3>3
         DEF Commit, Land, Cancelled, FailedWindowless, FailedAt, JobGone
    <3>4. CASE RecoverKilled(w)
      BY <2>1, <3>4
         DEF RecoverKilled, OwnedAny, Crashed, FailedWindowless, FailedAt, JobGone
    <3> QED
      BY <2>2, <3>1, <3>2, <3>3, <3>4 DEF Turn
  <2>3. Enqueue
    BY <2>1, <2>2
       DEF Next, Look, BackoffOver, Lapse, Reap, Collect, Send, Toggle, Halt, Clear, Cutover,
       Retire, ResidentStart, ResidentLoad, ResidentSave, Crashed, JobGone
  <2> QED
    BY <2>1, <2>3 DEF Enqueue, Crashed, JobGone
<1> QED
  BY <1>1, PTL DEF Spec, NoJobInBackoff
=============================================================================
