------------------------ MODULE RuntimeLeaseProofs --------------------------
(***************************************************************************)
(* The safety properties of RuntimeLease for every finite set of users,    *)
(* any supervisors, faults and edits.  Two invariants:                     *)
(*   Safe     the types; a tick inside the admission guard holds the       *)
(*            user's configuration lock and the binding it checked is the  *)
(*            current one; every process is its supervisor's tracked child *)
(*   Steady   as long as no lease lapses under a live supervisor and no    *)
(*            route changes: whoever has a child, a backoff or a pending   *)
(*            spawn for a user owns that user's live row, so two           *)
(*            supervisors never do.                                        *)
(* Safe is needed for Steady: a stray process would own no row.            *)
(***************************************************************************)
EXTENDS RuntimeLease, TLAPS

(* Leaves are proved by Zenon unless they cite SMT.                        *)
USE Zenon

(* The steps of a tick that hold the user's configuration lock.            *)
Guarded == {"child", "free", "lost", "swap"}

(* While a tick is inside the admission guard, nobody else is, and the     *)
(* binding it has checked is still the current one.                        *)
AdmittedAt(s) ==
    tick[s].pc \in Guarded =>
        /\ tick[s].user \in Users
        /\ lock[tick[s].user] = s
        /\ tick[s].roster[tick[s].user].epoch = conf[tick[s].user].epoch

Safe ==
    /\ TypeOK
    /\ \A s \in Sups : AdmittedAt(s)
    /\ NoStrayConsumer

-----------------------------------------------------------------------------
(* A supervisor that has a child, a backoff or a pending spawn for u.      *)
Hosting(s, u) ==
    \/ children[s][u] # NoChild
    \/ ledger[s][u] # "none"
    \/ u \in tick[s].batch

(* One route, which nobody changes: every configuration in use has it.     *)
ChildOne(s) ==
    \A u \in Users : children[s][u] # NoChild => children[s][u].epoch = 1

TickOne(s) ==
    /\ tick[s].pc = "idle" => tick[s] = TickIdle
    /\ tick[s].pc = "drop" => tick[s].todo = {}
    /\ tick[s].pc # "idle" => \A u \in Users : \/ tick[s].roster[u] = Unresolved
                                               \/ tick[s].roster[u].epoch = 1
    /\ \A u \in tick[s].batch : tick[s].roster[u].epoch = 1

PassOne(s) ==
    pass[s].pc = "check" =>
        \A u \in pass[s].todo : pass[s].snap[u].epoch = 1 /\ u \notin pass[s].checked

(* The lease: who hosts a user owns the live row.                          *)
Rowed(s) ==
    \A u \in Users : Hosting(s, u) => row[u] = [owner |-> s, live |-> TRUE]

DownIdle(s) ==
    state[s] = "down" => /\ tick[s].pc = "idle" /\ pass[s].pc = "idle"
                         /\ \A u \in Users : ~Hosting(s, u)

SteadyAt(s) == ChildOne(s) /\ TickOne(s) /\ PassOne(s) /\ Rowed(s) /\ DownIdle(s)

Steady ==
    /\ \A u \in Users : conf[u].epoch = 1
    /\ \A s \in Sups : SteadyAt(s)

-----------------------------------------------------------------------------
(***************************************************************************)
(* The constants                                                           *)
(***************************************************************************)

\* What RuntimeLeaseAssumption says of each constant.
LEMMA Constants ==
    /\ None \notin Sups /\ None \notin Users
    /\ MaxFaults \in Nat /\ MaxEdits \in Nat
  BY RuntimeLeaseAssumption

\* Epochs and process ids are numbers, and no process has id 0.
LEMMA Ranges ==
    /\ 0 \in Epochs /\ 1 \in Epochs /\ Epochs \subseteq Nat
    /\ Pids \subseteq Nat /\ 0 \notin Pids
  BY SMT, Constants DEF Epochs, Pids

\* The absence of a child is well formed.
LEMMA NoChildType == NoChild \in Children /\ NoChild.pid = 0 /\ NoChildren \in [Users -> Children]
  BY Ranges DEF NoChild, Children, NoChildren

(* A running consumer is its supervisor's child.                           *)
LEMMA ProcOfChild ==
    ASSUME Safe, NEW p \in alive
    PROVE  /\ p.sup \in Sups /\ p.user \in Users /\ p.pid \in Pids
           /\ p = Proc(p.sup, p.user, children[p.sup][p.user])
           /\ children[p.sup][p.user] # NoChild
<1>1. p \in ProcType /\ children[p.sup][p.user].pid = p.pid
  BY DEF Safe, TypeOK, NoStrayConsumer
<1>2. p = [sup |-> p.sup, user |-> p.user, pid |-> p.pid] /\ p.sup \in Sups /\
      p.user \in Users /\ p.pid \in Pids
  BY <1>1 DEF ProcType
<1>3. children[p.sup][p.user] # NoChild
  BY <1>1, <1>2, Ranges, NoChildType
<1> QED
  BY <1>1, <1>2, <1>3 DEF Proc

(* Processes and children change at most at one user of one supervisor.    *)
ProcStep(s, u) ==
    /\ children' \in [Sups -> [Users -> Children]]
    /\ \A x \in Sups, v \in Users : x # s \/ v # u => children'[x][v] = children[x][v]
    /\ alive' \subseteq ProcType
    /\ NoStrayConsumer'

\* A spawn tracks the one process it starts.
LEMMA StartStep ==
    ASSUME Safe, NEW s \in Sups, NEW u \in Users, NEW e \in Entries, Start(s, u, e)
    PROVE  /\ ProcStep(s, u)
           /\ children'[s][u].epoch = e.epoch
           /\ \A p \in alive' \ alive : p.sup = s /\ p.user = u
<1>0. PICK n \in Pids :
        /\ alive' = (alive \ {Proc(s, u, children[s][u])})
                      \cup {Proc(s, u, [pid |-> n, epoch |-> e.epoch, id |-> e.id])}
        /\ children' = [children EXCEPT ![s][u] = [pid |-> n, epoch |-> e.epoch, id |-> e.id]]
  BY DEF Start, FreePids
<1> DEFINE c == [pid |-> n, epoch |-> e.epoch, id |-> e.id]
<1>1. /\ alive' = (alive \ {Proc(s, u, children[s][u])}) \cup {Proc(s, u, c)}
      /\ children' = [children EXCEPT ![s][u] = c]
  BY <1>0
<1>2. n \in Pids
  OBVIOUS
<1>3. c \in Children /\ c.epoch = e.epoch /\ c.pid \in Pids
  BY <1>2 DEF Children, Entries
<1> HIDE DEF c
<1>4. /\ children' \in [Sups -> [Users -> Children]] /\ children'[s][u] = c
      /\ \A x \in Sups, v \in Users : x # s \/ v # u => children'[x][v] = children[x][v]
  BY <1>1, <1>3 DEF Safe, TypeOK
<1>5. /\ Proc(s, u, c) \in ProcType
      /\ Proc(s, u, c).sup = s /\ Proc(s, u, c).user = u /\ Proc(s, u, c).pid = c.pid
  BY <1>3 DEF Proc, ProcType
<1>6. \A p \in alive' : p = Proc(s, u, c) \/ (p \in alive /\ (p.sup # s \/ p.user # u))
  BY <1>1, ProcOfChild
<1>7. NoStrayConsumer'
  <2> SUFFICES ASSUME NEW p \in alive' PROVE children'[p.sup][p.user].pid = p.pid
    BY DEF NoStrayConsumer
  <2>1. CASE p = Proc(s, u, c)
    BY <1>4, <1>5, <2>1
  <2>2. CASE p \in alive /\ (p.sup # s \/ p.user # u)
    <3>1. p.sup \in Sups /\ p.user \in Users
      BY <2>2, ProcOfChild
    <3> QED
      BY <1>4, <2>2, <3>1 DEF Safe, NoStrayConsumer
  <2> QED
    BY <1>6, <2>1, <2>2
<1>8. alive' \subseteq ProcType
  BY <1>1, <1>5 DEF Safe, TypeOK
<1>9. \A p \in alive' \ alive : p = Proc(s, u, c)
  BY <1>1
<1> QED
  BY <1>3, <1>4, <1>5, <1>7, <1>8, <1>9 DEF ProcStep

(* Renewal touches only our own rows, and never gives one away.            *)
LEMMA RenewedRows ==
    ASSUME TypeOK, NEW s \in Sups, NEW U
    PROVE  /\ Renewed(s, U) \in [Users -> RowType]
           /\ \A v \in Users : /\ Renewed(s, U)[v].owner = row[v].owner
                               /\ row[v].owner # s => Renewed(s, U)[v] = row[v]
                               /\ row[v].live => Renewed(s, U)[v] = row[v]
<1>1. row \in [Users -> RowType]
  BY DEF TypeOK
<1>2. \A v \in Users : /\ [row[v] EXCEPT !.live = TRUE] \in RowType
                       /\ [row[v] EXCEPT !.live = TRUE].owner = row[v].owner
                       /\ row[v].live => [row[v] EXCEPT !.live = TRUE] = row[v]
  BY <1>1 DEF RowType
<1> QED
  BY <1>1, <1>2 DEF Renewed

\* release touches only rows of its owner.
LEMMA ReleasedRows ==
    ASSUME TypeOK, NEW s \in Sups, NEW U
    PROVE  /\ Released(s, U) \in [Users -> RowType]
           /\ \A v \in Users : /\ row[v].owner # s => Released(s, U)[v] = row[v]
                               /\ v \notin U => Released(s, U)[v] = row[v]
<1>1. Unheld \in RowType
  BY DEF Unheld, RowType
<1> QED
  BY <1>1 DEF Released, TypeOK

(* What the frame needs of the variables a step leaves alone.              *)
LEMMA Typed ==
    ASSUME Safe
    PROVE  /\ row \in [Users -> RowType]
           /\ conf \in [Users -> [epoch : Epochs, id : Epochs]]
           /\ lock \in [Users -> Sups \cup {None}]
           /\ state \in [Sups -> {"up", "stopping", "down"}]
           /\ children \in [Sups -> [Users -> Children]]
           /\ ledger \in [Sups -> [Users -> {"none", "wait", "due"}]]
           /\ tick \in [Sups -> TickType]
           /\ pass \in [Sups -> PassType]
           /\ left \in Nat /\ left \in 0..left
  BY SMT, Constants DEF Safe, TypeOK

\* What a tick carries is well formed, and inside the guard admitted.
LEMMA TickFieldsOf ==
    ASSUME Safe, NEW s \in Sups
    PROVE  /\ tick[s] \in TickType
           /\ tick[s].seen \in [Users -> Children] /\ tick[s].roster \in [Users -> Entries]
           /\ tick[s].user \in Users \cup {None} /\ tick[s].late \subseteq Users
           /\ tick[s].todo \subseteq Users /\ tick[s].batch \subseteq Users
           /\ AdmittedAt(s)
  BY Typed DEF TickType, Safe

\* A confirmed kill leaves no process of the user with this supervisor.
LEMMA KillStep ==
    ASSUME Safe, NEW s \in Sups, NEW u \in Users, Killed(s, u),
           children' = [children EXCEPT ![s][u] = NoChild]
    PROVE  /\ ProcStep(s, u)
           /\ children'[s][u] = NoChild
           /\ alive' \subseteq alive
           /\ \A p \in alive' : p.user = u => p.sup # s
<1>1. /\ children' \in [Sups -> [Users -> Children]] /\ children'[s][u] = NoChild
      /\ \A x \in Sups, v \in Users : x # s \/ v # u => children'[x][v] = children[x][v]
  BY NoChildType DEF Safe, TypeOK
<1>2. alive' = alive \ {Proc(s, u, children[s][u])}
  BY DEF Killed
<1>3. \A p \in alive' : p \in alive /\ (p.sup # s \/ p.user # u)
  BY <1>2, ProcOfChild
<1>4. NoStrayConsumer'
  <2> SUFFICES ASSUME NEW p \in alive' PROVE children'[p.sup][p.user].pid = p.pid
    BY DEF NoStrayConsumer
  <2>1. p \in alive /\ (p.sup # s \/ p.user # u) /\ p.sup \in Sups /\ p.user \in Users
    BY <1>3, ProcOfChild
  <2> QED
    BY <1>1, <2>1 DEF Safe, NoStrayConsumer
<1> QED
  BY <1>1, <1>2, <1>3, <1>4 DEF ProcStep, Safe, TypeOK

Procs(s) ==
    /\ children' \in [Sups -> [Users -> Children]]
    /\ \A x \in Sups, v \in Users : x # s => children'[x][v] = children[x][v]
    /\ alive' \subseteq ProcType
    /\ NoStrayConsumer'

\* A step of one child is a step of the supervisor's processes.
LEMMA ProcsOf ==
    ASSUME NEW s, NEW u, ProcStep(s, u)
    PROVE  Procs(s)
  BY DEF ProcStep, Procs

ChildrenFewer(s) == \A v \in Users : children'[s][v] \in {NoChild, children[s][v]}

\* A child that is forgotten leaves fewer.
LEMMA ProcFewer ==
    ASSUME NEW s \in Sups, NEW u \in Users, ProcStep(s, u), children'[s][u] = NoChild
    PROVE  Procs(s) /\ ChildrenFewer(s)
<1>1. Procs(s)
  BY ProcsOf
<1>2. ChildrenFewer(s)
  BY DEF ProcStep, ChildrenFewer
<1> QED
  BY <1>1, <1>2

LedgerTo(s) ==
    /\ ledger' \in [Sups -> [Users -> {"none", "wait", "due"}]]
    /\ \A x \in Sups : x # s => ledger'[x] = ledger[x]

\* Writing one entry of the restart ledger leaves the others.
LEMMA LedgerSet ==
    ASSUME Safe, NEW s \in Sups, NEW u \in Users, NEW x \in {"none", "wait", "due"},
           ledger' = [ledger EXCEPT ![s][u] = x]
    PROVE  /\ LedgerTo(s) /\ ledger'[s][u] = x
           /\ \A v \in Users : v # u => ledger'[s][v] = ledger[s][v]
  BY Typed DEF LedgerTo

LedgerWithin(s) == \A v \in Users : ledger'[s][v] # "none" => Hosting(s, v)

\* Clearing one adds no backoff.
LEMMA LedgerNone ==
    ASSUME Safe, NEW s \in Sups, NEW u \in Users,
           ledger' = [ledger EXCEPT ![s][u] = "none"]
    PROVE  LedgerTo(s) /\ LedgerWithin(s)
<1>1. LedgerTo(s) /\ ledger'[s][u] = "none" /\ \A v \in Users : v # u => ledger'[s][v] = ledger[s][v]
  BY LedgerSet
<1> QED
  BY <1>1 DEF LedgerWithin, Hosting

\* A confirmed kill with its bookkeeping leaves fewer children and
\* backoffs.
LEMMA KillForgets ==
    ASSUME Safe, NEW s \in Sups, NEW u \in Users, Killed(s, u), Forget(s, u)
    PROVE  /\ Procs(s) /\ ChildrenFewer(s) /\ LedgerTo(s) /\ LedgerWithin(s)
           /\ alive' \subseteq alive
           /\ \A p \in alive' : p.user = u => p.sup # s
  BY KillStep, ProcFewer, LedgerNone DEF Forget

TickTo(s) ==
    tick' \in [Sups -> TickType] /\ \A x \in Sups : x # s => tick'[x] = tick[x]

PassTo(s) ==
    pass' \in [Sups -> PassType] /\ \A x \in Sups : x # s => pass'[x] = pass[x]

StateTo(s) ==
    /\ state' \in [Sups -> {"up", "stopping", "down"}]
    /\ \A x \in Sups : x # s => state'[x] = state[x]

LockTo(s) ==
    /\ lock' \in [Users -> Sups \cup {None}]
    /\ \A v \in Users : lock[v] # None /\ lock[v] # s => lock'[v] = lock[v]

RowTo(s) ==
    /\ row' \in [Users -> RowType]
    /\ \A v \in Users : row[v].owner # s /\ row[v].live => row'[v] = row[v]

(* The row of a user we host stays.                                        *)
RowKept(s) ==
    \A v \in Users : row[v] = [owner |-> s, live |-> TRUE] => row'[v] = row[v]

\* What a step leaves alone it leaves well formed.
LEMMA SameTo ==
    ASSUME Safe, NEW s
    PROVE  /\ tick' = tick => TickTo(s)
           /\ pass' = pass => PassTo(s)
           /\ ledger' = ledger => LedgerTo(s)
           /\ state' = state => StateTo(s)
           /\ lock' = lock => LockTo(s)
           /\ row' = row => RowTo(s) /\ RowKept(s)
           /\ left' = left => left' \in 0..left
  BY Typed DEF TickTo, PassTo, LedgerTo, StateTo, LockTo, RowTo, RowKept

\* So with the processes.
LEMMA SameProcs == \A s : Safe /\ UNCHANGED <<children, alive>> => Procs(s)
<1>SameStep.
    ASSUME Safe, NEW s, NEW u, UNCHANGED <<children, alive>>
    PROVE  ProcStep(s, u)
  BY <1>SameStep DEF ProcStep, Safe, TypeOK, NoStrayConsumer
<1> SUFFICES ASSUME Safe, NEW s, UNCHANGED <<children, alive>>
             PROVE  Procs(s)
  OBVIOUS
<1> QED   BY <1>SameStep, ProcsOf

\* And it adds no child or backoff.
LEMMA SameWithin ==
    ASSUME Safe, NEW s \in Sups
    PROVE  /\ children' = children => ChildrenFewer(s)
           /\ ledger' = ledger => LedgerWithin(s)
  BY DEF ChildrenFewer, LedgerWithin, Hosting

\* A fault takes one from those left.
LEMMA ChargeSpends ==
    ASSUME Safe, NEW f, Charge(f)
    PROVE  left' \in 0..left
  BY SMT, Typed DEF Charge

\* A stop that is not confirmed leaves the child tracked.
LEMMA UnconfirmedStep ==
    ASSUME Safe, NEW s \in Sups, NEW u \in Users, StopUnconfirmed(s, u)
    PROVE  /\ Procs(s) /\ ChildrenFewer(s) /\ LedgerTo(s) /\ LedgerWithin(s)
           /\ left' \in 0..left /\ UNCHANGED alive
  BY SameProcs, SameTo, SameWithin, ChargeSpends DEF StopUnconfirmed

\* Dropping an orphan leaves fewer children.
LEMMA DropStep ==
    ASSUME Safe, NEW s \in Sups, NEW u \in Users, NEW c, DropOrphan(s, u, c)
    PROVE  /\ Procs(s) /\ ChildrenFewer(s) /\ LedgerTo(s) /\ LedgerWithin(s)
           /\ left' \in 0..left /\ alive' \subseteq alive
<1>1. CASE Tracked(s, u, c) /\ Killed(s, u) /\ Forget(s, u) /\ UNCHANGED left
  BY <1>1, KillForgets, SameTo
<1>2. CASE Tracked(s, u, c) /\ StopUnconfirmed(s, u)
  BY <1>2, UnconfirmedStep
<1>3. CASE UNCHANGED <<alive, children, ledger, left>>
  BY <1>3, SameProcs, SameTo, SameWithin
<1> QED
  BY <1>1, <1>2, <1>3 DEF DropOrphan

ReleasedRight ==
    \A u \in DOMAIN row : (row[u].owner # None /\ row'[u].owner = None) =>
        \A p \in alive' : p.user = u => p.sup # row[u].owner

StartedRight ==
    \A p \in alive' \ alive : children'[p.sup][p.user].epoch = conf[p.user].epoch

Right == ReleasedRight /\ StartedRight

\* Every step gives rows up only after a stop, and starts what is current.
LEMMA NextRight == Safe /\ Next => Right
<1>OwnersRight.
    ASSUME Safe, \A v \in Users : row'[v].owner = row[v].owner \/ row'[v].owner \in Sups
    PROVE  ReleasedRight
  BY SMT, <1>OwnersRight, Constants, Typed DEF ReleasedRight
<1>SameOwners.
    ASSUME Safe, NEW s \in Sups, NEW U, row' = row \/ row' = Renewed(s, U)
    PROVE  ReleasedRight
  <2> USE <1>SameOwners
  <2>1. \A v \in Users : row'[v].owner = row[v].owner
    BY SMT, RenewedRows DEF Safe
  <2> QED
    BY <2>1, <1>OwnersRight
<1>ReleaseRight.
    ASSUME Safe, NEW s \in Sups, NEW U, row' = Released(s, U),
           \A p \in alive' : p.sup = s => p.user \notin U
    PROVE  ReleasedRight
  <2> USE <1>ReleaseRight
  <2>1. \A v \in Users : row[v].owner # s \/ v \notin U => row'[v] = row[v]
    BY ReleasedRows DEF Safe
  <2>2. DOMAIN row = Users
    BY Typed
  <2> QED
    BY <2>1, <2>2 DEF ReleasedRight
<1>NoStart.
    ASSUME alive' \subseteq alive
    PROVE  StartedRight
  BY <1>NoStart DEF StartedRight
<1>RevokeRight.
    ASSUME Safe, NEW s \in Sups, NEW u \in Users, Revoke(s, u)
    PROVE  Right
  <2> USE <1>RevokeRight
  <2>1. CASE Killed(s, u) /\ Forget(s, u) /\ row' = Released(s, {u})
    <3>1. alive' \subseteq alive /\ \A p \in alive' : p.user = u => p.sup # s
      BY <2>1, KillForgets
    <3>2. \A p \in alive' : p.sup = s => p.user \notin {u}
      BY <3>1
    <3> QED
      BY <2>1, <3>1, <3>2, <1>ReleaseRight, <1>NoStart DEF Right
  <2>2. CASE StopUnconfirmed(s, u) /\ UNCHANGED row
    BY <2>2, <1>SameOwners, <1>NoStart DEF StopUnconfirmed, Right
  <2> QED
    BY <2>1, <2>2 DEF Revoke
(* Steps that release nothing and start nobody.                            *)
<1>QuietRight.
    ASSUME Safe, NEW s \in Sups, NEW U, row' = row \/ row' = Renewed(s, U),
           alive' \subseteq alive
    PROVE  Right
  BY <1>QuietRight, <1>SameOwners, <1>NoStart DEF Right
<1>TickRight. \A s \in Sups : Safe /\ Tick(s) => Right
  <2>StartRight.
      ASSUME Safe, NEW s \in Sups, NEW u \in Users, NEW e \in Entries, Start(s, u, e),
             e.epoch = conf[u].epoch
      PROVE  StartedRight
    <3> USE <2>StartRight
    <3>1. /\ children'[s][u].epoch = e.epoch
          /\ \A p \in alive' \ alive : p.sup = s /\ p.user = u
      BY SMT, StartStep
    <3> QED
      BY <3>1 DEF StartedRight
  <2>TickDropRight.
      ASSUME Safe, NEW s \in Sups, NEW u \in Users, TickDrop(s, u)
      PROVE  Right
    <3> USE <2>TickDropRight
    <3> DEFINE c == tick[s].seen[u]
    <3>1. CASE Killed(s, u) /\ Forget(s, u) /\ row' = Released(s, {u}) /\ UNCHANGED left
      BY <3>1, <1>RevokeRight DEF Revoke
    <3>2. CASE StopUnconfirmed(s, u) /\ UNCHANGED row
      BY <3>2, <1>RevokeRight DEF Revoke
    <3>3. CASE UNCHANGED alive /\ children[s][u] = NoChild /\ row' = Released(s, {u})
      <4>1. \A p \in alive' : p.sup = s => p.user \notin {u}
        BY <3>3, ProcOfChild
      <4> QED
        BY <3>3, <4>1, <1>ReleaseRight, <1>NoStart DEF Right
    <3>4. CASE UNCHANGED <<alive, row>>
      BY <3>4, <1>QuietRight
    <3> QED
      BY <3>1, <3>2, <3>3, <3>4 DEF TickDrop
  <2>TickSwapRight.
      ASSUME Safe, NEW s \in Sups, TickSwap(s)
      PROVE  Right
    <3> USE <2>TickSwapRight
    <3> DEFINE u == tick[s].user
               e == tick[s].roster[u]
    <3>1. u \in Users /\ e \in Entries /\ e.epoch = conf[u].epoch
      BY SMT, TickFieldsOf DEF TickSwap, Guarded, AdmittedAt
    <3>2. CASE Start(s, u, e) /\ row' = Renewed(s, {u})
      BY <3>1, <3>2, <2>StartRight, <1>SameOwners DEF Right
    <3>3. CASE UNCHANGED <<row, alive>>
      BY <3>3, <1>QuietRight
    <3>4. CASE Killed(s, u) /\ row' = Renewed(s, {u})
      BY <3>4, <1>QuietRight DEF Killed
    <3> QED
      BY <3>2, <3>3, <3>4 DEF TickSwap, StopUnconfirmed
  <2>TickSpawnRight.
      ASSUME Safe, NEW s \in Sups, NEW u \in Users, TickSpawn(s, u)
      PROVE  Right
    <3> USE <2>TickSpawnRight
    <3> DEFINE e == tick[s].roster[u]
    <3>1. e \in Entries
      BY TickFieldsOf
    <3>2. CASE UNCHANGED <<row, alive>>
      BY <3>2, <1>QuietRight
    <3>3. CASE Revoke(s, u)
      BY <3>3, <1>RevokeRight
    <3>4. CASE row' = Renewed(s, {u}) /\ UNCHANGED alive
      BY <3>4, <1>QuietRight
    <3>5. CASE e.epoch = conf[u].epoch /\ Start(s, u, e) /\ row' = Renewed(s, {u})
      BY <3>1, <3>5, <2>StartRight, <1>SameOwners DEF Right
    <3> QED
      BY <3>2, <3>3, <3>4, <3>5 DEF TickSpawn
  <2>TickFreeRight.
      ASSUME Safe, NEW s \in Sups, TickFree(s)
      PROVE  Right
    <3> USE <2>TickFreeRight
    <3> DEFINE u == tick[s].user
    <3>1. UNCHANGED alive
      BY DEF TickFree
    <3>2. CASE row' = row \/ row' = Renewed(s, {u})
      BY <3>1, <3>2, <1>QuietRight
    <3>3. CASE Acquired(s, u)
      <4>1. \A v \in Users : row'[v].owner = row[v].owner \/ row'[v].owner \in Sups
        BY <3>3, Typed DEF Acquired
      <4> QED
        BY <3>1, <4>1, <1>OwnersRight, <1>NoStart DEF Right
    <3> QED
      BY <3>2, <3>3 DEF TickFree
  <2> SUFFICES ASSUME Safe, NEW s \in Sups, Tick(s)
               PROVE  Right
    OBVIOUS
  <2>1. ASSUME TickStart(s) \/ TickWalk(s) \/ TickRenew(s) \/ TickEnd(s) PROVE Right
    <3>1. (row' = row \/ \E U : row' = Renewed(s, U)) /\ alive' = alive
      BY <2>1 DEF TickStart, TickWalk, TickRenew, TickEnd
    <3> QED
      BY <3>1, <1>QuietRight
  <2>2. ASSUME TickLost(s) PROVE Right
    <3>1. tick[s].user \in Users
      BY <2>2, TickFieldsOf DEF TickLost, Guarded, AdmittedAt
    <3>2. row' = row /\ alive' \subseteq alive
      BY <2>2, <3>1, DropStep DEF TickLost
    <3> QED
      BY <3>2, <1>QuietRight
  <2>3. ASSUME TickReap(s) PROVE Right
    <3>1. (row' = row \/ \E U : row' = Renewed(s, U)) /\ alive' = alive
      BY <2>3 DEF TickReap, Reap
    <3> QED
      BY <3>1, <1>QuietRight
  <2>4. ASSUME NEW u \in Users, TickSkip(s, u) PROVE Right
    <3>1. row' = row /\ alive' = alive
      BY <2>4 DEF TickSkip
    <3> QED
      BY <3>1, <1>QuietRight
  <2>5. ASSUME NEW u \in Users, TickEnter(s, u) PROVE Right
    <3>1. Revoke(s, u) \/ (row' = row /\ alive' = alive)
      BY <2>5 DEF TickEnter
    <3> QED
      BY <3>1, <1>RevokeRight, <1>QuietRight
  <2> QED
    BY <2>1, <2>2, <2>3, <2>4, <2>5, <2>TickDropRight, <2>TickSwapRight, <2>TickSpawnRight,
       <2>TickFreeRight DEF Tick
<1>RenewLiveRight.
    ASSUME Safe, NEW s \in Sups, RenewLive(s)
    PROVE  Right
  <2> USE <1>RenewLiveRight
  <2>1. ASSUME RenewStart(s) \/ RenewMany(s) PROVE Right
    <3>1. (row' = row \/ \E U : row' = Renewed(s, U)) /\ alive' = alive
      BY <2>1 DEF RenewStart, RenewMany
    <3> QED
      BY <3>1, <1>QuietRight
  <2>2. ASSUME NEW u \in Users, RenewCheck(s, u) PROVE Right
    <3>1. Revoke(s, u) \/ (row' = row /\ alive' = alive)
      BY <2>2 DEF RenewCheck
    <3> QED
      BY <3>1, <1>RevokeRight, <1>QuietRight
  <2>3. ASSUME NEW u \in Users, RenewAlive(s, u) PROVE Right
    <3>1. (row' = row \/ \E U : row' = Renewed(s, U)) /\ alive' = alive
      BY <2>3 DEF RenewAlive, Reap
    <3> QED
      BY <3>1, <1>QuietRight
  <2>4. ASSUME NEW u \in Users, RenewLost(s, u) PROVE Right
    <3>1. row' = row /\ alive' \subseteq alive
      BY <2>4, DropStep DEF RenewLost
    <3> QED
      BY <3>1, <1>QuietRight
  <2> QED
    BY <2>1, <2>2, <2>3, <2>4 DEF RenewLive
<1>ShutdownRight.
    ASSUME Safe, NEW s \in Sups, Shutdown(s)
    PROVE  Right
  <2> USE <1>ShutdownRight
  <2>1. PICK stuck, done : /\ done \cap stuck = {}
                           /\ alive' = {p \in alive : p.sup # s \/ p.user \in stuck}
                           /\ row' = Released(s, done)
    <3>1. PICK stuck \in SUBSET {u \in Users : IsAlive(s, u, children[s][u])} :
            LET done == {u \in Users \ stuck : \/ children[s][u] # NoChild
                                               \/ ledger[s][u] # "none"}
            IN /\ alive' = {p \in alive : p.sup # s \/ p.user \in stuck}
               /\ row' = Released(s, done)
      BY DEF Shutdown
    <3> DEFINE done == {u \in Users \ stuck : \/ children[s][u] # NoChild
                                              \/ ledger[s][u] # "none"}
    <3>2. done \cap stuck = {}
      OBVIOUS
    <3> QED
      BY <3>1, <3>2
  <2>2. alive' \subseteq alive /\ \A p \in alive' : p.sup = s => p.user \notin done
    BY <2>1
  <2> QED
    BY <2>1, <2>2, <1>ReleaseRight, <1>NoStart DEF Right
<1> SUFFICES ASSUME Safe, Next
             PROVE  Right
  OBVIOUS
<1>1. ASSUME NEW s \in Sups, Tick(s) \/ RenewLive(s) \/ Shutdown(s) PROVE Right
  BY <1>1, <1>TickRight, <1>RenewLiveRight, <1>ShutdownRight
<1>2. ASSUME NEW s \in Sups,
             \/ TickFails(s) \/ Crash(s) \/ Exited(s) \/ Restart(s)
             \/ \E u \in Users : BackoffEnds(s, u)
      PROVE  Right
  <2>1. row' = row /\ alive' \subseteq alive
    BY <1>2 DEF TickFails, Crash, Exited, Restart, BackoffEnds, Gone
  <2> QED
    BY <2>1, <1>QuietRight
<1>3. ASSUME NEW u \in Users, Expire(u) PROVE Right
  <2>1. \A v \in Users : row'[v].owner = row[v].owner
    BY <1>3, Typed DEF Expire, RowType
  <2>2. alive' = alive
    BY <1>3 DEF Expire
  <2> QED
    BY <2>1, <2>2, <1>OwnersRight, <1>NoStart DEF Right
<1>4. ASSUME NEW u \in Users, Edit(u) PROVE Right
  <2>1. (\A v \in Users : row'[v].owner = row[v].owner) /\ alive' = alive
    BY <1>4 DEF Edit
  <2> QED
    BY <2>1, <1>OwnersRight, <1>NoStart DEF Right
<1>5. ASSUME NEW p \in alive, ConsumerExits(p) PROVE Right
  <2>1. (\A v \in Users : row'[v].owner = row[v].owner) /\ alive' \subseteq alive
    BY <1>5 DEF ConsumerExits
  <2> QED
    BY <2>1, <1>OwnersRight, <1>NoStart DEF Right
<1> QED
  BY <1>1, <1>2, <1>3, <1>4, <1>5 DEF Next

Types ==
    /\ row' \in [Users -> RowType]
    /\ lock' \in [Users -> Sups \cup {None}]
    /\ state' \in [Sups -> {"up", "stopping", "down"}]
    /\ ledger' \in [Sups -> [Users -> {"none", "wait", "due"}]]
    /\ tick' \in [Sups -> TickType]
    /\ pass' \in [Sups -> PassType]
    /\ left' \in 0..left

Others(s) ==
    /\ \A x \in Sups : x # s => /\ tick'[x] = tick[x] /\ pass'[x] = pass[x]
                                /\ ledger'[x] = ledger[x] /\ state'[x] = state[x]
    /\ \A v \in Users : lock[v] # None /\ lock[v] # s => lock'[v] = lock[v]
    /\ \A v \in Users : row[v].owner # s /\ row[v].live => row'[v] = row[v]

Frame(s) ==
    /\ UNCHANGED <<conf, edits>>
    /\ Types
    /\ Others(s)
    /\ Procs(s)

Keeps == Safe' /\ (Steady => Steady')

\* A step of one supervisor keeps the invariants if it keeps its own
\* share.
LEMMA StepKeeps ==
  \A s \in Sups : 
    Safe /\ Frame(s) /\ AdmittedAt(s)' /\ (Steady => SteadyAt(s)') => Keeps
<1>SafeStep.
    ASSUME Safe, NEW s \in Sups, Frame(s), AdmittedAt(s)'
    PROVE  Safe'
  <2> USE <1>SafeStep
  <2>1. TypeOK'
    <3>1. left' \in 0..MaxFaults
      BY SMT, Constants DEF Frame, Types, Safe, TypeOK
    <3> QED
      BY <3>1 DEF Frame, Types, Procs, Safe, TypeOK
  <2>2. \A x \in Sups : AdmittedAt(x)'
    <3> SUFFICES ASSUME NEW x \in Sups, x # s PROVE AdmittedAt(x)'
      OBVIOUS
    <3>1. AdmittedAt(x) /\ x # None
      BY Constants DEF Safe
    <3>2. tick'[x] = tick[x] /\ conf' = conf
      BY DEF Frame, Others
    <3>3. ASSUME tick[x].pc \in Guarded
          PROVE  lock'[tick[x].user] = x
      BY <3>1, <3>3 DEF AdmittedAt, Frame, Others
    <3> QED
      BY <3>1, <3>2, <3>3 DEF AdmittedAt
  <2> QED
    BY <2>1, <2>2 DEF Safe, Frame, Procs
<1>SteadyStep.
    ASSUME Safe, Steady, NEW s \in Sups, Frame(s), SteadyAt(s)'
    PROVE  Steady'
  <2> USE <1>SteadyStep
  <2>1. \A x \in Sups : SteadyAt(x)'
    <3> SUFFICES ASSUME NEW x \in Sups, x # s PROVE SteadyAt(x)'
      OBVIOUS
    <3>1. SteadyAt(x)
      BY DEF Steady
    <3>2. /\ tick'[x] = tick[x] /\ pass'[x] = pass[x] /\ ledger'[x] = ledger[x]
          /\ state'[x] = state[x] /\ \A v \in Users : children'[x][v] = children[x][v]
      BY DEF Frame, Others, Procs
    <3>3. \A v \in Users : Hosting(x, v)' <=> Hosting(x, v)
      BY <3>2 DEF Hosting
    <3>4. \A v \in Users : row[v] = [owner |-> x, live |-> TRUE] => row'[v] = row[v]
      BY SMT DEF Frame, Others
    <3>5. Rowed(x)' /\ DownIdle(x)'
      BY <3>1, <3>2, <3>3, <3>4 DEF SteadyAt, Rowed, DownIdle
    <3>6. ChildOne(x)' /\ TickOne(x)' /\ PassOne(x)'
      BY SMT, <3>1, <3>2 DEF SteadyAt, ChildOne, TickOne, PassOne
    <3> QED
      BY <3>5, <3>6 DEF SteadyAt
  <2> QED
    BY <2>1 DEF Steady, Frame
<1> SUFFICES ASSUME Safe, NEW s \in Sups, Frame(s), AdmittedAt(s)', Steady => SteadyAt(s)'
             PROVE  Keeps
  OBVIOUS
<1> QED   BY <1>SafeStep, <1>SteadyStep DEF Keeps

\* A step within one supervisor's state leaves the others.
LEMMA FrameOf ==
    ASSUME NEW s, UNCHANGED <<conf, edits>>, TickTo(s), PassTo(s), LedgerTo(s),
           StateTo(s), LockTo(s), RowTo(s), Procs(s), left' \in 0..left
    PROVE  Frame(s)
  BY DEF TickTo, PassTo, LedgerTo, StateTo, LockTo, RowTo, Frame, Types, Others

\* A tick's step leaves the ticks of other supervisors.
LEMMA TickSet ==
    ASSUME Safe, NEW s \in Sups, NEW t \in TickType, tick' = [tick EXCEPT ![s] = t]
    PROVE  TickTo(s) /\ tick'[s] = t
  BY Typed DEF TickTo

\* renew touches only live rows of its owner, and keeps them.
LEMMA RenewTo ==
  \A s \in Sups : \A U : 
    Safe /\ row' = Renewed(s, U) => RowTo(s) /\ RowKept(s)
(* The one supervisor that hosts a user keeps the row it renews.           *)
<1>RenewKeepsHost.
    ASSUME Safe, NEW s \in Sups, NEW U, row' = Renewed(s, U)
    PROVE  /\ row' \in [Users -> RowType]
           /\ \A v \in Users : row[v].owner # s /\ row[v].live => row'[v] = row[v]
           /\ \A v \in Users : row[v] = [owner |-> s, live |-> TRUE] => row'[v] = row[v]
  BY SMT, <1>RenewKeepsHost, RenewedRows DEF Safe
<1> SUFFICES ASSUME Safe, NEW s \in Sups, NEW U, row' = Renewed(s, U)
             PROVE  RowTo(s) /\ RowKept(s)
  OBVIOUS
<1> QED   BY <1>RenewKeepsHost DEF RowTo, RowKept

\* release is a step of its owner's rows.
LEMMA ReleaseTo ==
    ASSUME Safe, NEW s \in Sups, NEW U, row' = Released(s, U)
    PROVE  RowTo(s)
  BY ReleasedRows DEF RowTo, Safe

\* A supervisor with fewer children, backoffs and spawns hosts no new
\* user.
LEMMA FewerHosted ==
    ASSUME NEW s \in Sups, ChildrenFewer(s), LedgerWithin(s),
           tick'[s].batch \subseteq tick[s].batch
    PROVE  /\ \A v \in Users : Hosting(s, v)' => Hosting(s, v)
           /\ Steady => ChildOne(s)'
<1>1. \A v \in Users : Hosting(s, v)' => Hosting(s, v)
  BY DEF ChildrenFewer, LedgerWithin, Hosting
<1>2. ASSUME Steady PROVE ChildOne(s)'
  <2>1. ChildOne(s)
    BY <1>2 DEF Steady, SteadyAt
  <2> QED
    BY <2>1 DEF ChildOne, ChildrenFewer
<1> QED
  BY <1>1, <1>2

\* A backoff for a user it hosts adds nobody.
LEMMA LedgerWait ==
    ASSUME Safe, NEW s \in Sups, NEW u \in Users, Hosting(s, u),
           ledger' = [ledger EXCEPT ![s][u] = "wait"]
    PROVE  LedgerTo(s) /\ LedgerWithin(s)
<1>1. LedgerTo(s) /\ \A v \in Users : v # u => ledger'[s][v] = ledger[s][v]
  BY LedgerSet
<1> QED
  BY <1>1 DEF LedgerWithin, Hosting

\* _revoke_admission starts nothing.
LEMMA RevokeStep ==
    ASSUME Safe, NEW s \in Sups, NEW u \in Users, Revoke(s, u)
    PROVE  /\ Procs(s) /\ LedgerTo(s) /\ RowTo(s)
           /\ left' \in 0..left /\ alive' \subseteq alive
<1>1. CASE Killed(s, u) /\ Forget(s, u) /\ row' = Released(s, {u}) /\ UNCHANGED left
  BY <1>1, KillForgets, ReleaseTo, SameTo
<1>2. CASE StopUnconfirmed(s, u) /\ UNCHANGED row
  BY <1>2, UnconfirmedStep, SameTo
<1> QED
  BY <1>1, <1>2 DEF Revoke

\* Reaping a child that has exited leaves fewer children, and keeps the
\* rows it must.
LEMMA ReapKeeps ==
  \A s \in Sups : \A u \in Users : \A c : 
    /\ Safe
    /\ ~IsAlive(s, u, c)
    /\ alive' = alive
    /\ Reap(s, u, c)
    => /\ Procs(s) /\ ChildrenFewer(s) /\ LedgerTo(s) /\ LedgerWithin(s)
           /\ RowTo(s) /\ RowKept(s)
<1>ReapStep.
    ASSUME Safe, NEW s \in Sups, NEW u \in Users, NEW c, Tracked(s, u, c), ~IsAlive(s, u, c),
           alive' = alive, children' = [children EXCEPT ![s][u] = NoChild]
    PROVE  /\ ProcStep(s, u)
           /\ children'[s][u] = NoChild
  <2> USE <1>ReapStep
  <2>1. Proc(s, u, children[s][u]) \notin alive
    BY DEF Tracked, IsAlive
  <2>2. Killed(s, u)
    BY <2>1 DEF Killed
  <2> QED
    BY <2>2, KillStep
<1> SUFFICES ASSUME Safe, NEW s \in Sups, NEW u \in Users, NEW c, ~IsAlive(s, u, c), alive' = alive,
             Reap(s, u, c)
             PROVE  /\ Procs(s) /\ ChildrenFewer(s) /\ LedgerTo(s) /\ LedgerWithin(s)
             /\ RowTo(s) /\ RowKept(s)
  OBVIOUS
<1>1. CASE /\ Tracked(s, u, c)
           /\ children' = [children EXCEPT ![s][u] = NoChild]
           /\ ledger' = [ledger EXCEPT ![s][u] = "wait"]
           /\ row' = Renewed(s, {u})
  <2>0. ProcStep(s, u) /\ children'[s][u] = NoChild
    BY <1>1, <1>ReapStep
  <2>1. Procs(s) /\ ChildrenFewer(s)
    BY <2>0, ProcFewer
  <2>2. Hosting(s, u)
    BY <1>1 DEF Tracked, Hosting
  <2> QED
    BY <1>1, <2>1, <2>2, LedgerWait, RenewTo
<1>2. CASE UNCHANGED <<children, ledger, row>>
  BY <1>2, SameProcs, SameTo, SameWithin
<1> QED
  BY <1>1, <1>2 DEF Reap

\* An idle tick and an idle pass are well formed.
LEMMA IdleTypes == TickIdle \in TickType /\ PassIdle \in PassType
<1>1. NoRoster \in [Users -> Entries]
  BY Ranges DEF NoRoster, Entries
<1> QED
  BY <1>1, NoChildType DEF TickIdle, PassIdle, TickType, PassType

(* The tick ends, by itself or by an error: its batch is forgotten.        *)
LEMMA TickIdles ==
    ASSUME Safe, NEW s \in Sups, tick[s].pc # "idle",
           tick' = [tick EXCEPT ![s] = TickIdle], LockTo(s), left' \in 0..left,
           UNCHANGED <<row, conf, state, children, ledger, alive, pass, edits>>
    PROVE  Keeps
<1>1. TickTo(s) /\ tick'[s] = TickIdle
  BY IdleTypes, TickSet
<1>2. TickIdle.pc = "idle" /\ TickIdle.batch = {}
  BY DEF TickIdle
<1>3. Frame(s)
  BY <1>1, SameTo, SameProcs, FrameOf
<1>4. AdmittedAt(s)'
  BY <1>1, <1>2 DEF AdmittedAt, Guarded
<1>5. ASSUME Steady PROVE SteadyAt(s)'
  <2>1. SteadyAt(s)
    BY <1>5 DEF Steady
  <2>2. ChildOne(s)' /\ PassOne(s)'
    BY <2>1 DEF SteadyAt, ChildOne, PassOne
  <2>3. TickOne(s)'
    BY <1>1, <1>2 DEF TickOne
  <2>4. \A v \in Users : Hosting(s, v)' => Hosting(s, v)
    BY <1>1, <1>2 DEF Hosting
  <2>5. Rowed(s)' /\ DownIdle(s)'
    BY <2>1, <2>4 DEF SteadyAt, Rowed, DownIdle
  <2> QED
    BY <2>2, <2>3, <2>5 DEF SteadyAt
<1> QED
  BY <1>3, <1>4, <1>5, StepKeeps

(* A step inside a tick.                                                   *)
WalkTo(s) ==
    /\ TickTo(s)
    /\ tick'[s].pc \notin {"idle", "drop"}
    /\ tick'[s].roster = tick[s].roster

TickFrame(s) ==
    /\ UNCHANGED <<conf, edits, state, pass>>
    /\ WalkTo(s) /\ LockTo(s) /\ LedgerTo(s) /\ RowTo(s) /\ Procs(s)
    /\ left' \in 0..left

\* A step of tick keeps the invariants.
LEMMA TickStepKeeps == \A s \in Sups : Safe /\ Tick(s) => Keeps
<1>LockSet.
    ASSUME Safe, NEW s \in Sups, NEW u \in Users, NEW x \in {None, s},
           lock[u] \in {None, s}, lock' = [lock EXCEPT ![u] = x]
    PROVE  LockTo(s) /\ lock'[u] = x
  BY <1>LockSet, Typed DEF LockTo
<1>TickFrameOf.
    ASSUME Safe, NEW s, TickFrame(s)
    PROVE  Frame(s)
  BY <1>TickFrameOf, SameTo, FrameOf DEF TickFrame, WalkTo
(* The tick does its work without letting go of a row of ours.             *)
<1>TickKeeps.
    ASSUME Safe, NEW s \in Sups, TickFrame(s), AdmittedAt(s)', tick[s].pc # "idle",
           RowKept(s),
           Steady => /\ \A v \in Users : Hosting(s, v)' => Hosting(s, v)
                     /\ ChildOne(s)'
                     /\ tick'[s].batch \subseteq tick[s].batch
    PROVE  Keeps
  <2> USE <1>TickKeeps
  <2>1. ASSUME Steady PROVE SteadyAt(s)'
    <3>1. SteadyAt(s)
      BY <2>1 DEF Steady
    <3>2. TickOne(s)'
      BY <2>1, <3>1 DEF SteadyAt, TickOne, TickFrame, WalkTo
    <3>3. PassOne(s)'
      BY <3>1 DEF SteadyAt, PassOne, TickFrame
    <3>4. Rowed(s)'
      BY <2>1, <3>1 DEF SteadyAt, Rowed, RowKept
    <3>5. DownIdle(s)'
      BY <3>1 DEF SteadyAt, DownIdle, TickFrame
    <3> QED
      BY <2>1, <3>2, <3>3, <3>4, <3>5 DEF SteadyAt
  <2> QED
    BY <2>1, <1>TickFrameOf, StepKeeps
(* Leaving the guard.                                                      *)
<1>LeaveStep.
    ASSUME Safe, NEW s \in Sups, tick[s].pc \in Guarded, Leave(s)
    PROVE  /\ WalkTo(s) /\ LockTo(s) /\ AdmittedAt(s)'
           /\ tick'[s].batch = tick[s].batch
  <2> USE <1>LeaveStep
  <2> DEFINE t == [tick[s] EXCEPT !.pc = "walk", !.user = None, !.seen = NoChildren,
                                  !.todo = @ \ {tick[s].user}]
  <2>1. tick' = [tick EXCEPT ![s] = t]
    BY Typed DEF Leave, TickType
  <2>2. /\ t \in TickType /\ t.pc = "walk" /\ t.roster = tick[s].roster
        /\ t.batch = tick[s].batch
    BY TickFieldsOf, NoChildType DEF TickType
  <2> HIDE DEF t
  <2>3. TickTo(s) /\ tick'[s] = t
    BY <2>1, <2>2, TickSet
  <2>4. lock[tick[s].user] = s /\ tick[s].user \in Users
    BY DEF Safe, AdmittedAt
  <2>5. LockTo(s)
    BY <2>4, <1>LockSet DEF Leave
  <2> QED
    BY <2>2, <2>3, <2>5 DEF WalkTo, AdmittedAt, Guarded
(* A child started under the route that everybody has.                     *)
<1>StartKeeps.
    ASSUME Safe, NEW s \in Sups, NEW u \in Users, NEW e \in Entries, Start(s, u, e),
           Hosting(s, u), LedgerWithin(s), tick'[s].batch \subseteq tick[s].batch
    PROVE  /\ Procs(s)
           /\ \A v \in Users : Hosting(s, v)' => Hosting(s, v)
           /\ Steady /\ e.epoch = 1 => ChildOne(s)'
  <2> USE <1>StartKeeps
  <2>1. ProcStep(s, u) /\ children'[s][u].epoch = e.epoch
    BY StartStep
  <2>2. \A v \in Users : Hosting(s, v)' => Hosting(s, v)
    BY <2>1 DEF ProcStep, Hosting, LedgerWithin
  <2>3. ASSUME Steady, e.epoch = 1 PROVE ChildOne(s)'
    <3>1. ChildOne(s)
      BY <2>3 DEF Steady, SteadyAt
    <3> QED
      BY <2>1, <2>3, <3>1 DEF ChildOne, ProcStep
  <2> QED
    BY <2>1, <2>2, <2>3, ProcsOf
<1>TickStartKeeps. \A s \in Sups : Safe /\ TickStart(s) => Keeps
  <2>UnresolvedType. Unresolved \in Entries
      BY Ranges DEF Unresolved, Entries
  <2> SUFFICES ASSUME Safe, NEW s \in Sups, TickStart(s)
               PROVE  Keeps
    OBVIOUS
  <2> PICK bad \in {{}} \cup {{u} : u \in {v \in Users : conf[v].epoch # 0}} :
         /\ IF bad = {} THEN UNCHANGED left ELSE Charge("unresolved")
         /\ tick' = [tick EXCEPT ![s] =
              [pc |-> "drop", user |-> None, seen |-> children[s],
               late |-> {u \in Users : ledger[s][u] # "none"},
               roster |-> [u \in Users |-> IF u \in bad THEN Unresolved ELSE conf[u]],
               todo |-> {u \in Users : conf[u].epoch = 0}, batch |-> {}]]
    BY DEF TickStart
  <2> DEFINE ros == [u \in Users |-> IF u \in bad THEN Unresolved ELSE conf[u]]
             t == [pc |-> "drop", user |-> None, seen |-> children[s],
                   late |-> {u \in Users : ledger[s][u] # "none"}, roster |-> ros,
                   todo |-> {u \in Users : conf[u].epoch = 0}, batch |-> {}]
  <2>1. ros \in [Users -> Entries]
    <3>1. \A u \in Users : conf[u] \in Entries
      BY Typed DEF Entries
    <3> QED
      BY <3>1, <2>UnresolvedType
  <2>2. \A u \in Users : ros[u] \in {Unresolved, conf[u]}
    OBVIOUS
  <2> HIDE DEF ros
  <2>3. children[s] \in [Users -> Children]
    BY Typed
  <2>4. t \in TickType
    BY <2>1, <2>3 DEF TickType
  <2>5. /\ t.pc = "drop" /\ t.batch = {} /\ t.roster = ros
        /\ t.todo = {u \in Users : conf[u].epoch = 0}
    OBVIOUS
  <2>6. tick' = [tick EXCEPT ![s] = t]
    BY DEF ros
  <2> HIDE DEF t
  <2>7. TickTo(s) /\ tick'[s] = t
    BY <2>4, <2>6, TickSet
  <2>8. left' \in 0..left
    BY ChargeSpends, SameTo
  <2>9. Frame(s)
    BY <2>7, <2>8, SameTo, SameProcs, FrameOf DEF TickStart
  <2>10. AdmittedAt(s)'
    BY <2>5, <2>7 DEF AdmittedAt, Guarded
  <2>11. ASSUME Steady PROVE SteadyAt(s)'
    <3>1. SteadyAt(s) /\ \A u \in Users : conf[u].epoch = 1
      BY <2>11 DEF Steady
    <3>2. TickOne(s)'
      BY SMT, <2>2, <2>5, <2>7, <3>1 DEF TickOne
    <3>3. ChildOne(s)' /\ PassOne(s)'
      BY <3>1 DEF SteadyAt, ChildOne, PassOne, TickStart
    <3>4. Rowed(s)'
      BY <2>5, <2>7, <3>1 DEF SteadyAt, Rowed, Hosting, TickStart
    <3>5. DownIdle(s)'
      BY DEF DownIdle, TickStart
    <3> QED
      BY <3>2, <3>3, <3>4, <3>5 DEF SteadyAt
  <2> QED
    BY <2>9, <2>10, <2>11, StepKeeps
(* Nobody leaves the roster while every user has the one route.            *)
<1>TickDropKeeps.
    ASSUME Safe, NEW s \in Sups, NEW u \in Users, TickDrop(s, u)
    PROVE  Keeps
  <2> USE <1>TickDropKeeps
  <2> DEFINE c == tick[s].seen[u]
             t == [tick[s] EXCEPT !.todo = @ \ {u}, !.seen[u] = NoChild]
  <2>1. t \in TickType /\ t.pc = tick[s].pc
    BY TickFieldsOf, NoChildType DEF TickType
  <2>2. tick' = [tick EXCEPT ![s] = t]
    BY Typed DEF TickDrop, TickType
  <2> HIDE DEF t
  <2>3. TickTo(s) /\ tick'[s] = t
    BY <2>1, <2>2, TickSet
  <2>4. Procs(s) /\ LedgerTo(s) /\ RowTo(s) /\ left' \in 0..left
    <3>1. CASE /\ Tracked(s, u, c) /\ Killed(s, u)
               /\ Forget(s, u) /\ row' = Released(s, {u}) /\ UNCHANGED left
      BY <3>1, KillForgets, ReleaseTo, SameTo
    <3>2. CASE Tracked(s, u, c) /\ StopUnconfirmed(s, u) /\ UNCHANGED row
      BY <3>2, UnconfirmedStep, SameTo
    <3>3. CASE /\ UNCHANGED <<alive, left>> /\ children[s][u] = NoChild
               /\ Forget(s, u) /\ row' = Released(s, {u})
      <4>1. children' = children
        BY <3>3, Typed DEF Forget
      <4> QED
        BY <3>3, <4>1, SameProcs, LedgerNone, ReleaseTo, SameTo DEF Forget
    <3>4. CASE UNCHANGED <<alive, left, children, ledger, row>>
      BY <3>4, SameProcs, SameTo
    <3> QED
      BY <3>1, <3>2, <3>3, <3>4 DEF TickDrop
  <2>5. Frame(s)
    BY <2>3, <2>4, SameTo, FrameOf DEF TickDrop
  <2>6. AdmittedAt(s)'
    BY <2>1, <2>3 DEF AdmittedAt, Guarded, TickDrop
  <2>7. ~Steady
    BY DEF Steady, SteadyAt, TickOne, TickDrop
  <2> QED
    BY <2>5, <2>6, <2>7, StepKeeps
<1>TickWalkKeeps.
    ASSUME Safe, NEW s \in Sups, TickWalk(s)
    PROVE  Keeps
  <2> USE <1>TickWalkKeeps
  <2> DEFINE all == {u \in Users : tick[s].roster[u].epoch # 0}
             t == [tick[s] EXCEPT !.pc = "walk", !.seen = NoChildren, !.late = {},
                                  !.todo = all]
  <2>0. all \subseteq Users
    OBVIOUS
  <2>1. tick' = [tick EXCEPT ![s] = t]
    BY Typed DEF TickWalk, TickType
  <2> HIDE DEF all
  <2>2. /\ t \in TickType /\ t.pc = "walk" /\ t.roster = tick[s].roster
        /\ t.batch = tick[s].batch
    BY <2>0, TickFieldsOf, NoChildType DEF TickType
  <2> HIDE DEF t
  <2>3. TickTo(s) /\ tick'[s] = t
    BY <2>1, <2>2, TickSet
  <2>4. TickFrame(s)
    BY <2>2, <2>3, SameTo, SameProcs DEF TickWalk, TickFrame, WalkTo
  <2>5. AdmittedAt(s)'
    BY <2>2, <2>3 DEF AdmittedAt, Guarded
  <2>6. RowKept(s) /\ ChildrenFewer(s) /\ LedgerWithin(s)
    BY SameTo, SameWithin DEF TickWalk
  <2>7. tick[s].pc # "idle"
    BY DEF TickWalk
  <2> QED
    BY <2>2, <2>3, <2>4, <2>5, <2>6, <2>7, FewerHosted, <1>TickKeeps
<1>TickSkipKeeps.
    ASSUME Safe, NEW s \in Sups, NEW u \in Users, TickSkip(s, u)
    PROVE  Keeps
  <2> USE <1>TickSkipKeeps
  <2> DEFINE t == [tick[s] EXCEPT !.todo = @ \ {u}]
  <2>1. tick' = [tick EXCEPT ![s] = t]
    BY Typed DEF TickSkip, TickType
  <2>2. /\ t \in TickType /\ t.pc = tick[s].pc /\ t.roster = tick[s].roster
        /\ t.batch = tick[s].batch
    BY SMT, TickFieldsOf DEF TickType
  <2> HIDE DEF t
  <2>3. TickTo(s) /\ tick'[s] = t
    BY <2>1, <2>2, TickSet
  <2>4. left' \in 0..left
    BY ChargeSpends, SameTo DEF TickSkip
  <2>5. TickFrame(s)
    BY <2>2, <2>3, <2>4, SameTo, SameProcs DEF TickSkip, TickFrame, WalkTo
  <2>6. AdmittedAt(s)' /\ tick[s].pc # "idle"
    BY <2>2, <2>3 DEF AdmittedAt, Guarded, TickSkip
  <2>7. RowKept(s) /\ ChildrenFewer(s) /\ LedgerWithin(s)
    BY SameTo, SameWithin DEF TickSkip
  <2> QED
    BY <2>2, <2>3, <2>5, <2>6, <2>7, FewerHosted, <1>TickKeeps
(* Entering the guard, or revoking a binding that has changed.             *)
<1>TickEnterKeeps.
    ASSUME Safe, NEW s \in Sups, NEW u \in Users, TickEnter(s, u)
    PROVE  Keeps
  <2> USE <1>TickEnterKeeps
  <2> DEFINE e == tick[s].roster[u]
             c == children[s][u]
  <2>1. CASE (e.epoch # conf[u].epoch \/ Rebound(e, c)) /\ Revoke(s, u)
             /\ tick' = [tick EXCEPT ![s].todo = @ \ {u}] /\ UNCHANGED lock
    <3> DEFINE t == [tick[s] EXCEPT !.todo = @ \ {u}]
    <3>1. tick' = [tick EXCEPT ![s] = t]
      BY <2>1, Typed DEF TickType
    <3>2. /\ t \in TickType /\ t.pc = tick[s].pc /\ t.roster = tick[s].roster
      BY TickFieldsOf DEF TickType
    <3> HIDE DEF t
    <3>3. TickTo(s) /\ tick'[s] = t
      BY <3>1, <3>2, TickSet
    <3>4. Procs(s) /\ LedgerTo(s) /\ RowTo(s) /\ left' \in 0..left
      BY <2>1, RevokeStep
    <3>5. Frame(s)
      BY <2>1, <3>3, <3>4, SameTo, FrameOf DEF TickEnter
    <3>6. AdmittedAt(s)'
      BY <3>2, <3>3 DEF AdmittedAt, Guarded, TickEnter
    <3>7. ~Steady
      <4> SUFFICES ASSUME Steady PROVE FALSE
        OBVIOUS
      <4>1. ChildOne(s) /\ TickOne(s) /\ conf[u].epoch = 1
        BY DEF Steady, SteadyAt
      <4>2. e.epoch = 1
        BY <4>1 DEF TickOne, TickEnter
      <4>3. c # NoChild => c.epoch = 1
        BY <4>1 DEF ChildOne
      <4> QED
        BY <2>1, <4>1, <4>2, <4>3 DEF Rebound
    <3> QED
      BY <3>5, <3>6, <3>7, StepKeeps
  <2>2. CASE /\ ~(e.epoch # conf[u].epoch \/ Rebound(e, c))
             /\ tick' = [tick EXCEPT ![s].user = u, ![s].seen[u] = c,
                   ![s].pc = IF c = NoChild THEN "free" ELSE "child"]
             /\ lock' = [lock EXCEPT ![u] = s]
             /\ UNCHANGED <<row, children, ledger, alive, left>>
    <3> DEFINE k == IF c = NoChild THEN "free" ELSE "child"
               t == [tick[s] EXCEPT !.user = u, !.seen[u] = c, !.pc = k]
    <3>0. k \in {"free", "child"} /\ c \in Children
      BY Typed
    <3>a. tick' = [tick EXCEPT ![s].user = u, ![s].seen[u] = c, ![s].pc = k]
      BY <2>2
    <3> HIDE DEF k
    <3>1. tick' = [tick EXCEPT ![s] = t]
      <4> HIDE DEF c
      <4>1. [tick EXCEPT ![s].user = u, ![s].seen[u] = c, ![s].pc = k] = [tick EXCEPT ![s] = t]
        OBVIOUS
      <4> QED
        BY <3>a, <4>1
    <3>2. /\ t \in TickType /\ t.pc = k /\ t.roster = tick[s].roster /\ t.user = u
          /\ t.batch = tick[s].batch
      BY <3>0, TickFieldsOf DEF TickType
    <3> HIDE DEF t
    <3>3. TickTo(s) /\ tick'[s] = t
      BY <3>1, <3>2, TickSet
    <3>4. LockTo(s) /\ lock'[u] = s
      BY <2>2, <1>LockSet DEF TickEnter
    <3>5. TickFrame(s)
      BY <2>2, <3>0, <3>2, <3>3, <3>4, SameTo, SameProcs
         DEF TickEnter, TickFrame, WalkTo
    <3>6. AdmittedAt(s)'
      <4>1. e.epoch = conf[u].epoch /\ conf' = conf
        BY <2>2 DEF TickEnter
      <4> QED
        BY <3>2, <3>3, <3>4, <4>1 DEF AdmittedAt
    <3>7. RowKept(s) /\ ChildrenFewer(s) /\ LedgerWithin(s) /\ tick[s].pc # "idle"
      BY <2>2, SameTo, SameWithin DEF TickEnter
    <3> QED
      BY <3>2, <3>3, <3>5, <3>6, <3>7, FewerHosted, <1>TickKeeps
  <2> QED
    BY <2>1, <2>2 DEF TickEnter
(* Any step that only moves the tick's pc under the guard.                 *)
<1>PcStep.
    ASSUME Safe, NEW s \in Sups, NEW k \in Guarded, tick[s].pc \in Guarded,
           tick' = [tick EXCEPT ![s].pc = k], UNCHANGED <<lock, conf>>
    PROVE  /\ WalkTo(s) /\ AdmittedAt(s)' /\ LockTo(s)
           /\ tick'[s].batch = tick[s].batch
  <2> USE <1>PcStep
  <2> DEFINE t == [tick[s] EXCEPT !.pc = k]
  <2>1. tick' = [tick EXCEPT ![s] = t]
    BY Typed DEF TickType
  <2>2. /\ t \in TickType /\ t.pc = k /\ t.roster = tick[s].roster /\ t.user = tick[s].user
        /\ t.batch = tick[s].batch
    BY SMT, TickFieldsOf DEF TickType, Guarded
  <2> HIDE DEF t
  <2>3. TickTo(s) /\ tick'[s] = t
    BY <2>1, <2>2, TickSet
  <2>4. AdmittedAt(s)'
    BY SMT, <2>2, <2>3, TickFieldsOf DEF AdmittedAt
  <2> QED
    BY <2>2, <2>3, <2>4, SameTo DEF WalkTo, Guarded
<1>TickRenewKeeps. \A s \in Sups : Safe /\ TickRenew(s) => Keeps
  <2>HealthyStep.
      ASSUME Safe, NEW s \in Sups, NEW u \in Users, NEW c, MaybeHealthy(s, u, c)
      PROVE  LedgerTo(s) /\ LedgerWithin(s)
    BY <2>HealthyStep, SameTo, SameWithin, LedgerNone DEF MaybeHealthy
  <2> SUFFICES ASSUME Safe, NEW s \in Sups, TickRenew(s)
               PROVE  Keeps
    OBVIOUS
  <2> DEFINE u == tick[s].user
             c == tick[s].seen[u]
  <2>1. tick[s].pc \in Guarded /\ tick[s].pc # "idle" /\ u \in Users
    BY TickFieldsOf DEF TickRenew, Guarded, AdmittedAt
  <2>2. RowTo(s) /\ RowKept(s)
    BY RenewTo DEF TickRenew
  <2>3. /\ WalkTo(s) /\ AdmittedAt(s)' /\ LockTo(s) /\ tick'[s].batch = tick[s].batch
        /\ LedgerTo(s) /\ LedgerWithin(s)
    <3>1. CASE tick' = [tick EXCEPT ![s].pc = "lost"] /\ UNCHANGED <<lock, ledger>>
      BY <2>1, <3>1, <1>PcStep, SameTo, SameWithin DEF TickRenew, Guarded
    <3>2. CASE MaybeHealthy(s, u, c) /\ tick' = [tick EXCEPT ![s].pc = "swap"] /\ UNCHANGED lock
      BY <2>1, <3>2, <1>PcStep, <2>HealthyStep DEF TickRenew, Guarded
    <3>3. CASE MaybeHealthy(s, u, c) /\ Leave(s)
      BY <2>1, <3>3, <1>LeaveStep, <2>HealthyStep
    <3> QED
      BY <3>1, <3>2, <3>3 DEF TickRenew
  <2>4. TickFrame(s)
    BY <2>2, <2>3, SameTo, SameProcs DEF TickRenew, TickFrame
  <2>5. ChildrenFewer(s)
    BY SameWithin DEF TickRenew
  <2> QED
    BY <2>1, <2>2, <2>3, <2>4, <2>5, FewerHosted, <1>TickKeeps
<1>TickLostKeeps.
    ASSUME Safe, NEW s \in Sups, TickLost(s)
    PROVE  Keeps
  <2> USE <1>TickLostKeeps
  <2> DEFINE u == tick[s].user
  <2>1. tick[s].pc \in Guarded /\ tick[s].pc # "idle" /\ u \in Users
    BY TickFieldsOf DEF TickLost, Guarded, AdmittedAt
  <2>2. RowTo(s) /\ RowKept(s)
    BY SameTo DEF TickLost
  <2>3. WalkTo(s) /\ AdmittedAt(s)' /\ LockTo(s) /\ tick'[s].batch = tick[s].batch
    BY <2>1, <1>LeaveStep DEF TickLost
  <2>4. /\ Procs(s) /\ ChildrenFewer(s) /\ LedgerTo(s) /\ LedgerWithin(s)
        /\ left' \in 0..left
    BY <2>1, DropStep DEF TickLost
  <2>5. TickFrame(s)
    BY <2>2, <2>3, <2>4 DEF TickLost, TickFrame
  <2> QED
    BY <2>1, <2>2, <2>3, <2>4, <2>5, FewerHosted, <1>TickKeeps
(* Respawn in place: the child it replaces is confirmed dead.              *)
<1>TickSwapKeeps.
    ASSUME Safe, NEW s \in Sups, TickSwap(s)
    PROVE  Keeps
  <2> USE <1>TickSwapKeeps
  <2> DEFINE u == tick[s].user
             c == tick[s].seen[u]
             e == tick[s].roster[u]
  <2>1. /\ tick[s].pc \in Guarded /\ tick[s].pc # "idle" /\ u \in Users
        /\ e \in Entries /\ e.epoch = conf[u].epoch
    BY SMT, TickFieldsOf DEF TickSwap, Guarded, AdmittedAt
  <2>2. WalkTo(s) /\ AdmittedAt(s)' /\ LockTo(s) /\ tick'[s].batch = tick[s].batch
    BY <2>1, <1>LeaveStep DEF TickSwap
  <2>3. UNCHANGED <<conf, state, pass, edits>>
    BY DEF TickSwap
  <2>4. CASE UNCHANGED <<row, children, ledger, alive, left>>
    <3>1. /\ RowTo(s) /\ RowKept(s) /\ Procs(s) /\ ChildrenFewer(s)
          /\ LedgerTo(s) /\ LedgerWithin(s) /\ left' \in 0..left
      BY <2>4, SameTo, SameProcs, SameWithin
    <3>2. TickFrame(s)
      BY <2>2, <2>3, <3>1 DEF TickFrame
    <3> QED
      BY <2>1, <2>2, <3>1, <3>2, FewerHosted, <1>TickKeeps
  <2>5. CASE Tracked(s, u, c) /\ StopUnconfirmed(s, u) /\ UNCHANGED row
    <3>1. /\ RowTo(s) /\ RowKept(s) /\ Procs(s) /\ ChildrenFewer(s)
          /\ LedgerTo(s) /\ LedgerWithin(s) /\ left' \in 0..left
      BY <2>1, <2>5, SameTo, UnconfirmedStep
    <3>2. TickFrame(s)
      BY <2>2, <2>3, <3>1 DEF TickFrame
    <3> QED
      BY <2>1, <2>2, <3>1, <3>2, FewerHosted, <1>TickKeeps
  <2>6. CASE /\ Tracked(s, u, c) /\ Start(s, u, e)
             /\ row' = Renewed(s, {u}) /\ UNCHANGED <<ledger, left>>
    <3>1. RowTo(s) /\ RowKept(s) /\ LedgerTo(s) /\ LedgerWithin(s) /\ left' \in 0..left
      BY <2>6, SameTo, SameWithin, RenewTo
    <3>2. Hosting(s, u)
      BY <2>6 DEF Tracked, Hosting
    <3>3. /\ Procs(s)
          /\ \A v \in Users : Hosting(s, v)' => Hosting(s, v)
          /\ Steady /\ e.epoch = 1 => ChildOne(s)'
      BY <2>1, <2>2, <2>6, <3>1, <3>2, <1>StartKeeps
    <3>4. Steady => ChildOne(s)'
      BY <2>1, <3>3 DEF Steady
    <3>5. TickFrame(s)
      BY <2>2, <2>3, <3>1, <3>3 DEF TickFrame
    <3> QED
      BY <2>1, <2>2, <3>1, <3>3, <3>4, <3>5, <1>TickKeeps
  <2>7. CASE /\ Tracked(s, u, c) /\ Charge("nospawn") /\ Killed(s, u)
             /\ children' = [children EXCEPT ![s][u] = NoChild]
             /\ ledger' = [ledger EXCEPT ![s][u] = "wait"]
             /\ row' = Renewed(s, {u})
    <3>1. RowTo(s) /\ RowKept(s) /\ left' \in 0..left
      BY <2>7, ChargeSpends, RenewTo
    <3>2. Hosting(s, u)
      BY <2>7 DEF Tracked, Hosting
    <3>3. LedgerTo(s) /\ LedgerWithin(s)
      BY <2>1, <2>7, <3>2, LedgerWait
    <3>4. Procs(s) /\ ChildrenFewer(s)
      BY <2>1, <2>7, KillStep, ProcFewer
    <3>5. TickFrame(s)
      BY <2>2, <2>3, <3>1, <3>3, <3>4 DEF TickFrame
    <3> QED
      BY <2>1, <2>2, <3>1, <3>3, <3>4, <3>5, FewerHosted, <1>TickKeeps
  <2> QED
    BY <2>4, <2>5, <2>6, <2>7 DEF TickSwap
<1>TickReapKeeps.
    ASSUME Safe, NEW s \in Sups, TickReap(s)
    PROVE  Keeps
  <2> USE <1>TickReapKeeps
  <2> DEFINE u == tick[s].user
             c == tick[s].seen[u]
  <2>1. tick[s].pc \in Guarded /\ tick[s].pc # "idle" /\ u \in Users
    BY TickFieldsOf DEF TickReap, Guarded, AdmittedAt
  <2>2. WalkTo(s) /\ AdmittedAt(s)' /\ LockTo(s) /\ tick'[s].batch = tick[s].batch
    BY <2>1, <1>PcStep DEF TickReap, Guarded
  <2>3. /\ Procs(s) /\ ChildrenFewer(s) /\ LedgerTo(s) /\ LedgerWithin(s)
        /\ RowTo(s) /\ RowKept(s)
    BY <2>1, ReapKeeps DEF TickReap
  <2>4. TickFrame(s)
    BY <2>2, <2>3, SameTo DEF TickReap, TickFrame
  <2> QED
    BY <2>1, <2>2, <2>3, <2>4, FewerHosted, <1>TickKeeps
<1>TickFreeKeeps. \A s \in Sups : Safe /\ TickFree(s) => Keeps
  (* Taking the row: nobody else hosts the user, for they would own it.      *)
  <2>TickTakeKeeps.
      ASSUME Safe, NEW s \in Sups, tick[s].pc = "free", MayAcquire(s, tick[s].user),
             Acquired(s, tick[s].user),
             tick' = [tick EXCEPT ![s].pc = "walk", ![s].user = None,
                         ![s].seen = NoChildren, ![s].todo = @ \ {tick[s].user},
                         ![s].batch = @ \cup {tick[s].user}],
             lock' = [lock EXCEPT ![tick[s].user] = None],
             UNCHANGED <<conf, state, children, ledger, alive, pass, edits, left>>
      PROVE  Keeps
    <3> USE <2>TickTakeKeeps
    <3> DEFINE u == tick[s].user
               t == [tick[s] EXCEPT !.pc = "walk", !.user = None, !.seen = NoChildren,
                                    !.todo = @ \ {u}, !.batch = @ \cup {u}]
    <3>1. /\ tick[s].pc \in Guarded /\ u \in Users /\ lock[u] = s
          /\ tick[s].roster[u].epoch = conf[u].epoch
      BY TickFieldsOf DEF Guarded, AdmittedAt
    <3>2. tick' = [tick EXCEPT ![s] = t]
      BY Typed DEF TickType
    <3> HIDE DEF u
    <3>3. /\ t \in TickType /\ t.pc = "walk" /\ t.roster = tick[s].roster
          /\ t.batch = tick[s].batch \cup {u}
      <4> DEFINE less == tick[s].todo \ {u}
                 more == tick[s].batch \cup {u}
      <4>1. less \subseteq Users /\ more \subseteq Users
        BY <3>1, TickFieldsOf
      <4>2. t = [tick[s] EXCEPT !.pc = "walk", !.user = None, !.seen = NoChildren,
                                !.todo = less, !.batch = more]
        BY TickFieldsOf DEF TickType
      <4> HIDE DEF less, more, t
      <4>3. /\ t \in TickType /\ t.pc = "walk" /\ t.roster = tick[s].roster
            /\ t.batch = more
        BY ZenonT(30), <4>1, <4>2, TickFieldsOf, NoChildType DEF TickType
      <4> QED
        BY <4>3 DEF more
    <3> HIDE DEF t
    <3>4. TickTo(s) /\ tick'[s] = t
      BY <3>2, <3>3, TickSet
    <3>5. LockTo(s)
      BY <3>1, <1>LockSet DEF u
    <3>6. row' = [row EXCEPT ![u] = [owner |-> s, live |-> TRUE]] /\ (~row[u].live \/ row[u].owner = s)
      BY DEF Acquired, MayAcquire, u
    <3>7. RowTo(s) /\ row'[u] = [owner |-> s, live |-> TRUE] /\ \A v \in Users : v # u => row'[v] = row[v]
      <4>1. [owner |-> s, live |-> TRUE] \in RowType
        BY DEF RowType
      <4> QED
        BY <3>1, <3>6, <4>1, Typed DEF RowTo
    <3>8. Frame(s)
      BY <3>4, <3>5, <3>7, SameTo, SameProcs, FrameOf
    <3>9. AdmittedAt(s)'
      BY <3>3, <3>4 DEF AdmittedAt, Guarded
    <3>10. ASSUME Steady PROVE SteadyAt(s)'
      <4>1. SteadyAt(s) /\ conf[u].epoch = 1
        BY <3>1, <3>10 DEF Steady
      <4>2. TickOne(s)'
        <5>1. /\ \A v \in Users : tick[s].roster[v] = Unresolved \/ tick[s].roster[v].epoch = 1
              /\ \A v \in tick[s].batch : tick[s].roster[v].epoch = 1
          BY <4>1 DEF SteadyAt, TickOne
        <5>2. \A v \in tick[s].batch \cup {u} : tick[s].roster[v].epoch = 1
          BY <3>1, <4>1, <5>1
        <5> QED
          BY <3>3, <3>4, <5>1, <5>2 DEF TickOne
      <4>3. ChildOne(s)' /\ PassOne(s)'
        BY <4>1 DEF SteadyAt, ChildOne, PassOne
      <4>4. \A v \in Users : Hosting(s, v)' => v = u \/ Hosting(s, v)
        BY <3>3, <3>4 DEF Hosting
      <4>5. Rowed(s)'
        BY <3>7, <4>1, <4>4 DEF SteadyAt, Rowed
      <4>6. DownIdle(s)'
        BY <4>1 DEF SteadyAt, DownIdle
      <4> QED
        BY <4>2, <4>3, <4>5, <4>6 DEF SteadyAt
    <3> QED
      BY <3>8, <3>9, <3>10, StepKeeps
  <2> SUFFICES ASSUME Safe, NEW s \in Sups, TickFree(s)
               PROVE  Keeps
    OBVIOUS
  <2> DEFINE u == tick[s].user
  <2>1. tick[s].pc \in Guarded /\ tick[s].pc # "idle"
    BY DEF TickFree, Guarded
  <2>2. UNCHANGED <<conf, state, children, ledger, alive, pass, edits>>
    BY DEF TickFree
  <2>3. CASE Leave(s) /\ left' \in 0..left /\ (row' = row \/ row' = Renewed(s, {u}))
    <3>1. WalkTo(s) /\ AdmittedAt(s)' /\ LockTo(s) /\ tick'[s].batch = tick[s].batch
      BY <2>1, <2>3, <1>LeaveStep
    <3>2. RowTo(s) /\ RowKept(s)
      BY <2>3, SameTo, RenewTo
    <3>3. Procs(s) /\ ChildrenFewer(s) /\ LedgerTo(s) /\ LedgerWithin(s)
      BY <2>2, SameTo, SameProcs, SameWithin
    <3>4. TickFrame(s)
      BY <2>2, <2>3, <3>1, <3>2, <3>3 DEF TickFrame
    <3> QED
      BY <2>1, <3>1, <3>2, <3>3, <3>4, FewerHosted, <1>TickKeeps
  <2>4. CASE /\ MayAcquire(s, u) /\ Acquired(s, u)
             /\ tick' = [tick EXCEPT ![s].pc = "walk", ![s].user = None,
                           ![s].seen = NoChildren, ![s].todo = @ \ {u},
                           ![s].batch = @ \cup {u}]
             /\ lock' = [lock EXCEPT ![u] = None]
             /\ UNCHANGED left
    BY <2>2, <2>4, <2>TickTakeKeeps DEF TickFree
  <2>5. ASSUME Charge("notready") PROVE left' \in 0..left
    BY <2>5, ChargeSpends
  <2>6. left' = left => left' \in 0..left
    BY SameTo
  <2> QED
    BY <2>3, <2>4, <2>5, <2>6 DEF TickFree
(* One user of the batch.                                                  *)
<1>TickSpawnKeeps.
    ASSUME Safe, NEW s \in Sups, NEW u \in Users, TickSpawn(s, u)
    PROVE  Keeps
  <2> USE <1>TickSpawnKeeps
  <2> DEFINE e == tick[s].roster[u]
             t == [tick[s] EXCEPT !.batch = @ \ {u}]
  <2>1. tick' = [tick EXCEPT ![s] = t]
    BY Typed DEF TickSpawn, TickType
  <2>2. /\ t \in TickType /\ t.pc = tick[s].pc /\ t.roster = tick[s].roster
        /\ t.batch \subseteq tick[s].batch
    BY TickFieldsOf DEF TickType
  <2> HIDE DEF t
  <2>3. TickTo(s) /\ tick'[s] = t
    BY <2>1, <2>2, TickSet
  <2>4. tick[s].pc = "walk" /\ u \in tick[s].batch /\ UNCHANGED <<conf, lock, state, pass, edits>>
    BY DEF TickSpawn
  <2>5. WalkTo(s) /\ LockTo(s) /\ AdmittedAt(s)'
    BY <2>2, <2>3, <2>4, SameTo DEF WalkTo, AdmittedAt, Guarded
  <2>6. Hosting(s, u) /\ e \in Entries
    BY <2>4, TickFieldsOf DEF Hosting
  <2>7. CASE Charge("unknown") /\ UNCHANGED <<row, children, ledger, alive>>
    <3>1. /\ RowTo(s) /\ RowKept(s) /\ Procs(s) /\ ChildrenFewer(s)
          /\ LedgerTo(s) /\ LedgerWithin(s) /\ left' \in 0..left
      BY <2>7, SameTo, SameProcs, SameWithin, ChargeSpends
    <3>2. TickFrame(s)
      BY <2>4, <2>5, <3>1 DEF TickFrame
    <3> QED
      BY <2>2, <2>3, <2>4, <2>5, <3>1, <3>2, FewerHosted, <1>TickKeeps
  <2>8. CASE e.epoch # conf[u].epoch /\ Revoke(s, u)
    <3>1. Procs(s) /\ LedgerTo(s) /\ RowTo(s) /\ left' \in 0..left
      BY <2>8, RevokeStep
    <3>2. TickFrame(s)
      BY <2>4, <2>5, <3>1 DEF TickFrame
    <3>3. ~Steady
      BY <2>4, <2>8 DEF Steady, SteadyAt, TickOne
    <3> QED
      BY <2>5, <3>2, <3>3, <1>TickFrameOf, StepKeeps
  <2>9. CASE /\ Charge("nospawn") /\ ledger' = [ledger EXCEPT ![s][u] = "wait"]
             /\ row' = Renewed(s, {u}) /\ UNCHANGED <<children, alive>>
    <3>1. /\ RowTo(s) /\ RowKept(s) /\ Procs(s) /\ ChildrenFewer(s) /\ left' \in 0..left
      BY <2>9, RenewTo, SameProcs, SameWithin, ChargeSpends
    <3>2. LedgerTo(s) /\ LedgerWithin(s)
      BY <2>6, <2>9, LedgerWait
    <3>3. TickFrame(s)
      BY <2>4, <2>5, <3>1, <3>2 DEF TickFrame
    <3> QED
      BY <2>2, <2>3, <2>4, <2>5, <3>1, <3>2, <3>3, FewerHosted, <1>TickKeeps
  <2>10. CASE /\ e.epoch = conf[u].epoch
              /\ Start(s, u, e) /\ row' = Renewed(s, {u}) /\ UNCHANGED <<ledger, left>>
    <3>1. RowTo(s) /\ RowKept(s) /\ LedgerTo(s) /\ LedgerWithin(s) /\ left' \in 0..left
      BY <2>10, RenewTo, SameTo, SameWithin
    <3>2. /\ Procs(s)
          /\ \A v \in Users : Hosting(s, v)' => Hosting(s, v)
          /\ Steady /\ e.epoch = 1 => ChildOne(s)'
      BY <2>2, <2>3, <2>6, <2>10, <3>1, <1>StartKeeps
    <3>3. Steady => ChildOne(s)'
      BY <2>10, <3>2 DEF Steady
    <3>4. TickFrame(s)
      BY <2>4, <2>5, <3>1, <3>2 DEF TickFrame
    <3> QED
      BY <2>2, <2>3, <2>4, <2>5, <3>1, <3>2, <3>3, <3>4, <1>TickKeeps
  <2> QED
    BY <2>7, <2>8, <2>9, <2>10 DEF TickSpawn
<1>TickEndKeeps.
    ASSUME Safe, NEW s \in Sups, TickEnd(s)
    PROVE  Keeps
  BY <1>TickEndKeeps, TickIdles, SameTo DEF TickEnd
<1> SUFFICES ASSUME Safe, NEW s \in Sups, Tick(s)
             PROVE  Keeps
  OBVIOUS
<1> QED   BY <1>TickStartKeeps, <1>TickWalkKeeps, <1>TickRenewKeeps, <1>TickLostKeeps, <1>TickSwapKeeps,
       <1>TickReapKeeps, <1>TickFreeKeeps, <1>TickEndKeeps, <1>TickDropKeeps, <1>TickSkipKeeps,
       <1>TickEnterKeeps, <1>TickSpawnKeeps DEF Tick

\* A renewal pass leaves the passes of other supervisors.
LEMMA PassSet ==
    ASSUME Safe, NEW s \in Sups, NEW r \in PassType, pass' = [pass EXCEPT ![s] = r]
    PROVE  PassTo(s) /\ pass'[s] = r
  BY Typed DEF PassTo

PassFrame(s) ==
    /\ UNCHANGED <<conf, edits, state, tick, lock>>
    /\ PassTo(s) /\ LedgerTo(s) /\ RowTo(s) /\ Procs(s)
    /\ left' \in 0..left

(* What a user's check leaves of the pass.                                 *)
PassLess(s) ==
    /\ pass'[s].todo \subseteq pass[s].todo
    /\ \A u \in pass'[s].todo : pass'[s].snap[u] = pass[s].snap[u]
    /\ \A u \in pass'[s].todo : u \in pass'[s].checked => u \in pass[s].checked

\* A step of renew_live keeps the invariants.
LEMMA RenewLiveKeeps == \A s \in Sups : Safe /\ RenewLive(s) => Keeps
<1>PassFrameOf.
    ASSUME Safe, NEW s \in Sups, PassFrame(s)
    PROVE  Frame(s) /\ AdmittedAt(s)'
  <2> USE <1>PassFrameOf
  <2>1. Frame(s)
    BY SameTo, FrameOf DEF PassFrame
  <2>2. AdmittedAt(s)
    BY DEF Safe
  <2>3. AdmittedAt(s)'
    BY <2>2 DEF AdmittedAt, PassFrame
  <2> QED
    BY <2>1, <2>3
<1>PassKeeps.
    ASSUME Safe, NEW s \in Sups, PassFrame(s), RowKept(s), ChildrenFewer(s), LedgerWithin(s),
           state[s] = "down" => pass[s].pc # "idle", Steady => PassOne(s)'
    PROVE  Keeps
  <2> USE <1>PassKeeps
  <2>1. \A v \in Users : Hosting(s, v)' => Hosting(s, v)
    BY FewerHosted DEF PassFrame
  <2>2. Steady => ChildOne(s)'
    BY FewerHosted DEF PassFrame
  <2>3. ASSUME Steady PROVE SteadyAt(s)'
    <3>1. SteadyAt(s)
      BY <2>3 DEF Steady
    <3>2. TickOne(s)'
      BY <3>1 DEF SteadyAt, TickOne, PassFrame
    <3>3. Rowed(s)'
      BY <2>1, <3>1 DEF SteadyAt, Rowed, RowKept
    <3>4. DownIdle(s)'
      BY <3>1 DEF SteadyAt, DownIdle, PassFrame
    <3> QED
      BY <2>2, <2>3, <3>2, <3>3, <3>4 DEF SteadyAt
  <2> QED
    BY <2>3, <1>PassFrameOf, StepKeeps
<1>PassFieldsOf.
    ASSUME Safe, NEW s \in Sups
    PROVE  /\ pass[s] \in PassType /\ pass[s].snap \in [Users -> Children]
           /\ pass[s].todo \subseteq Users /\ pass[s].checked \subseteq Users
           /\ pass[s].live \subseteq Users
  BY <1>PassFieldsOf, Typed DEF PassType
<1>RenewStartKeeps.
    ASSUME Safe, NEW s \in Sups, RenewStart(s)
    PROVE  Keeps
  <2> USE <1>RenewStartKeeps
  <2> DEFINE all == {u \in Users : children[s][u] # NoChild}
             r == [pc |-> "check", snap |-> children[s], checked |-> {}, live |-> {},
                   todo |-> all]
  <2>1. pass' = [pass EXCEPT ![s] = r]
    BY DEF RenewStart
  <2>2. r \in PassType /\ r.snap = children[s] /\ r.todo = all /\ r.checked = {}
    BY Typed DEF PassType
  <2> HIDE DEF r
  <2>3. PassTo(s) /\ pass'[s] = r
    BY <2>1, <2>2, PassSet
  <2>4. PassFrame(s) /\ RowKept(s) /\ ChildrenFewer(s) /\ LedgerWithin(s)
    BY <2>3, SameTo, SameProcs, SameWithin DEF RenewStart, PassFrame
  <2>5. state[s] # "down"
    BY DEF RenewStart
  <2>6. ASSUME Steady PROVE PassOne(s)'
    <3>1. ChildOne(s)
      BY <2>6 DEF Steady, SteadyAt
    <3> QED
      BY <2>2, <2>3, <3>1 DEF ChildOne, PassOne
  <2> QED
    BY <2>4, <2>5, <2>6, <1>PassKeeps
<1>PassLessOne.
    ASSUME NEW s \in Sups, PassLess(s), pass[s].pc = "check"
    PROVE  Steady => PassOne(s)'
  <2> USE <1>PassLessOne
  <2> SUFFICES ASSUME Steady PROVE PassOne(s)'
    OBVIOUS
  <2>1. PassOne(s)
    BY DEF Steady, SteadyAt
  <2> QED
    BY SMT, <2>1 DEF PassOne, PassLess
<1>RenewCheckKeeps.
    ASSUME Safe, NEW s \in Sups, NEW u \in Users, RenewCheck(s, u)
    PROVE  Keeps
  <2> USE <1>RenewCheckKeeps
  <2> DEFINE c == pass[s].snap[u]
  <2>1. pass[s].pc = "check" /\ u \in pass[s].todo /\ UNCHANGED <<conf, lock, state, tick, edits>>
    BY DEF RenewCheck
  <2>2. CASE /\ Charge("unknown")
             /\ pass' = [pass EXCEPT ![s].todo = @ \ {u},
                  ![s].live = IF IsAlive(s, u, c) THEN @ \cup {u} ELSE @]
             /\ UNCHANGED <<row, children, ledger, alive>>
    <3> DEFINE less == pass[s].todo \ {u}
               more == IF IsAlive(s, u, c) THEN pass[s].live \cup {u} ELSE pass[s].live
               r == [pass[s] EXCEPT !.todo = less, !.live = more]
    <3>1. less \subseteq pass[s].todo /\ less \subseteq Users /\ more \subseteq Users
      BY <1>PassFieldsOf
    <3>2. pass' = [pass EXCEPT ![s].todo = less, ![s].live = more]
      BY <2>2, <1>PassFieldsOf, Typed DEF PassType
    <3> HIDE DEF less, more
    <3>3. pass' = [pass EXCEPT ![s] = r]
      BY <3>2, Typed DEF PassType
    <3>4. /\ r \in PassType /\ r.todo = less /\ r.snap = pass[s].snap
          /\ r.checked = pass[s].checked
      BY <3>1, <1>PassFieldsOf DEF PassType
    <3> HIDE DEF r
    <3>5. PassTo(s) /\ pass'[s] = r
      BY <3>3, <3>4, PassSet
    <3>6. PassFrame(s) /\ RowKept(s) /\ ChildrenFewer(s) /\ LedgerWithin(s)
      BY <2>1, <2>2, <3>5, SameTo, SameProcs, SameWithin, ChargeSpends DEF PassFrame
    <3>7. PassLess(s)
      BY <3>1, <3>4, <3>5 DEF PassLess
    <3> QED
      BY <2>1, <3>6, <3>7, <1>PassLessOne, <1>PassKeeps
  <2>3. CASE /\ c.epoch # conf[u].epoch /\ Revoke(s, u)
             /\ pass' = [pass EXCEPT ![s].todo = @ \ {u}]
    <3> DEFINE r == [pass[s] EXCEPT !.todo = @ \ {u}]
    <3>1. pass' = [pass EXCEPT ![s] = r]
      BY <2>3, Typed DEF PassType
    <3>2. r \in PassType
      BY <1>PassFieldsOf DEF PassType
    <3> HIDE DEF r
    <3>3. PassTo(s)
      BY <3>1, <3>2, PassSet
    <3>4. PassFrame(s)
      BY <2>1, <2>3, <3>3, RevokeStep DEF PassFrame
    <3>5. ~Steady
      BY <2>1, <2>3 DEF Steady, SteadyAt, PassOne
    <3> QED
      BY <3>4, <3>5, <1>PassFrameOf, StepKeeps
  <2>4. CASE /\ pass' = [pass EXCEPT ![s].todo = @ \ {u}, ![s].checked = @ \cup {u}]
             /\ UNCHANGED <<row, children, ledger, alive, left>>
    <3> DEFINE less == pass[s].todo \ {u}
               more == pass[s].checked \cup {u}
               r == [pass[s] EXCEPT !.todo = less, !.checked = more]
    <3>1. less \subseteq pass[s].todo /\ less \subseteq Users /\ more \subseteq Users
      BY <1>PassFieldsOf
    <3>2. pass' = [pass EXCEPT ![s].todo = less, ![s].checked = more]
      BY <2>4, <1>PassFieldsOf, Typed DEF PassType
    <3> HIDE DEF less, more
    <3>3. pass' = [pass EXCEPT ![s] = r]
      BY <3>2, Typed DEF PassType
    <3>4. r \in PassType /\ r.todo = less /\ r.snap = pass[s].snap /\ r.checked = more
      BY <3>1, <1>PassFieldsOf DEF PassType
    <3> HIDE DEF r
    <3>5. PassTo(s) /\ pass'[s] = r
      BY <3>3, <3>4, PassSet
    <3>6. PassFrame(s) /\ RowKept(s) /\ ChildrenFewer(s) /\ LedgerWithin(s)
      BY <2>1, <2>4, <3>5, SameTo, SameProcs, SameWithin DEF PassFrame
    <3>7. PassLess(s)
      BY <3>1, <3>4, <3>5 DEF PassLess, less, more
    <3> QED
      BY <2>1, <3>6, <3>7, <1>PassLessOne, <1>PassKeeps
  <2> QED
    BY <2>2, <2>3, <2>4 DEF RenewCheck
<1>RenewAliveKeeps.
    ASSUME Safe, NEW s \in Sups, NEW u \in Users, RenewAlive(s, u)
    PROVE  Keeps
  <2> USE <1>RenewAliveKeeps
  <2> DEFINE c == pass[s].snap[u]
  <2>1. pass[s].pc = "check" /\ UNCHANGED <<conf, lock, state, alive, tick, left, edits>>
    BY DEF RenewAlive
  <2>2. CASE /\ pass' = [pass EXCEPT ![s].checked = @ \ {u}, ![s].live = @ \cup {u}]
             /\ UNCHANGED <<row, children, ledger>>
    <3> DEFINE less == pass[s].checked \ {u}
               more == pass[s].live \cup {u}
               r == [pass[s] EXCEPT !.checked = less, !.live = more]
    <3>1. less \subseteq Users /\ more \subseteq Users
      BY <1>PassFieldsOf
    <3>2. pass' = [pass EXCEPT ![s].checked = less, ![s].live = more]
      BY <2>2, <1>PassFieldsOf, Typed DEF PassType
    <3> HIDE DEF less, more
    <3>3. pass' = [pass EXCEPT ![s] = r]
      BY <3>2, Typed DEF PassType
    <3>4. /\ r \in PassType /\ r.todo = pass[s].todo /\ r.snap = pass[s].snap
          /\ r.checked = less
      BY <3>1, <1>PassFieldsOf DEF PassType
    <3> HIDE DEF r
    <3>5. PassTo(s) /\ pass'[s] = r
      BY <3>3, <3>4, PassSet
    <3>6. PassFrame(s) /\ RowKept(s) /\ ChildrenFewer(s) /\ LedgerWithin(s)
      BY <2>1, <2>2, <3>5, SameTo, SameProcs, SameWithin DEF PassFrame
    <3>7. PassLess(s)
      BY <3>4, <3>5 DEF PassLess, less
    <3> QED
      BY <2>1, <3>6, <3>7, <1>PassLessOne, <1>PassKeeps
  <2>3. CASE /\ ~IsAlive(s, u, c) /\ Reap(s, u, c)
             /\ pass' = [pass EXCEPT ![s].checked = @ \ {u}, ![s].snap[u] = NoChild]
    <3> DEFINE less == pass[s].checked \ {u}
               snp == [pass[s].snap EXCEPT ![u] = NoChild]
               r == [pass[s] EXCEPT !.checked = less, !.snap = snp]
    <3>1. less \subseteq Users /\ snp \in [Users -> Children]
      BY <1>PassFieldsOf, NoChildType
    <3>2. pass' = [pass EXCEPT ![s].checked = less, ![s].snap = snp]
      BY <2>3, <1>PassFieldsOf, Typed DEF PassType
    <3> HIDE DEF less, snp
    <3>3. pass' = [pass EXCEPT ![s] = r]
      BY <3>2, Typed DEF PassType
    <3>4. r \in PassType /\ r.todo = pass[s].todo /\ r.snap = snp /\ r.checked = less
      BY <3>1, <1>PassFieldsOf DEF PassType
    <3> HIDE DEF r
    <3>5. PassTo(s) /\ pass'[s] = r
      BY <3>3, <3>4, PassSet
    <3>6. /\ Procs(s) /\ ChildrenFewer(s) /\ LedgerTo(s) /\ LedgerWithin(s)
          /\ RowTo(s) /\ RowKept(s)
      BY <2>1, <2>3, ReapKeeps
    <3>7. PassFrame(s)
      BY <2>1, <3>5, <3>6, SameTo DEF PassFrame
    <3>8. ASSUME Steady PROVE PassOne(s)'
      <4>1. PassOne(s) /\ u \in pass[s].checked
        BY <3>8 DEF Steady, SteadyAt, RenewAlive
      <4>2. \A v \in Users : v # u => snp[v] = pass[s].snap[v]
        BY <1>PassFieldsOf DEF snp
      <4> QED
        BY SMT, <2>1, <3>1, <3>4, <3>5, <4>1, <4>2, <1>PassFieldsOf DEF PassOne, less
    <3> QED
      BY <2>1, <3>6, <3>7, <3>8, <1>PassKeeps
  <2> QED
    BY <2>2, <2>3 DEF RenewAlive
<1>RenewManyKeeps.
    ASSUME Safe, NEW s \in Sups, RenewMany(s)
    PROVE  Keeps
  <2> USE <1>RenewManyKeeps
  <2> DEFINE lost == {u \in pass[s].live : row[u].owner # s}
             snp == [u \in Users |-> IF u \in lost THEN pass[s].snap[u] ELSE NoChild]
             r == IF lost = {} THEN PassIdle
                  ELSE [PassIdle EXCEPT !.pc = "reap", !.todo = lost, !.snap = snp]
  <2>1. lost \subseteq Users /\ snp \in [Users -> Children]
    BY <1>PassFieldsOf, NoChildType
  <2>2. pass' = [pass EXCEPT ![s] = r]
    BY DEF RenewMany
  <2> HIDE DEF lost, snp
  <2>3. r \in PassType /\ r.pc # "check"
    <3>1. PassIdle \in PassType /\ PassIdle.pc = "idle"
      BY IdleTypes DEF PassIdle
    <3>2. /\ [PassIdle EXCEPT !.pc = "reap", !.todo = lost, !.snap = snp] \in PassType
          /\ [PassIdle EXCEPT !.pc = "reap", !.todo = lost, !.snap = snp].pc = "reap"
      BY <2>1, <3>1 DEF PassType
    <3> QED
      BY <3>1, <3>2
  <2> HIDE DEF r
  <2>4. PassTo(s) /\ pass'[s] = r
    BY <2>2, <2>3, PassSet
  <2>5. PICK H \in SUBSET Users :
          ledger' = [ledger EXCEPT ![s] = [u \in Users |-> IF u \in H THEN "none" ELSE @[u]]]
    BY <1>PassFieldsOf DEF RenewMany
  <2>6. LedgerTo(s) /\ LedgerWithin(s)
    <3>1. \A v \in Users : ledger[s][v] \in {"none", "wait", "due"}
      BY SMT, Typed
    <3>2. [u \in Users |-> IF u \in H THEN "none" ELSE ledger[s][u]]
            \in [Users -> {"none", "wait", "due"}]
      BY <3>1
    <3>3. ledger' = [ledger EXCEPT ![s] = [u \in Users |-> IF u \in H THEN "none" ELSE ledger[s][u]]]
      BY <2>5, Typed
    <3>4. LedgerTo(s)
      BY <3>2, <3>3, Typed DEF LedgerTo
    <3>5. \A v \in Users : ledger'[s][v] \in {"none", ledger[s][v]}
      BY <3>3, Typed
    <3> QED
      BY <3>4, <3>5 DEF LedgerWithin, Hosting
  <2>7. RowTo(s) /\ RowKept(s)
    BY RenewTo DEF RenewMany
  <2>8. PassFrame(s) /\ ChildrenFewer(s)
    BY <2>4, <2>6, <2>7, SameTo, SameProcs, SameWithin DEF RenewMany, PassFrame
  <2>9. pass[s].pc # "idle" /\ PassOne(s)'
    BY <2>3, <2>4 DEF RenewMany, PassOne
  <2> QED
    BY <2>6, <2>7, <2>8, <2>9, <1>PassKeeps
<1>RenewLostKeeps.
    ASSUME Safe, NEW s \in Sups, NEW u \in Users, RenewLost(s, u)
    PROVE  Keeps
  <2> USE <1>RenewLostKeeps
  <2> DEFINE less == pass[s].todo \ {u}
             snp == [pass[s].snap EXCEPT ![u] = NoChild]
             q == [pass[s] EXCEPT !.todo = less, !.snap = snp]
             r == IF less = {} THEN PassIdle ELSE q
  <2>0. pass[s].pc = "reap"
    BY DEF RenewLost
  <2>1. less \subseteq Users /\ snp \in [Users -> Children]
    BY <1>PassFieldsOf, NoChildType
  <2>2. pass' = [pass EXCEPT ![s] = r]
    <3>1. [pass[s] EXCEPT !.todo = less, !.snap[u] = NoChild] = q
      BY <1>PassFieldsOf DEF PassType
    <3>2. pass' = [pass EXCEPT ![s] = IF less = {} THEN PassIdle
                     ELSE [pass[s] EXCEPT !.todo = less, !.snap[u] = NoChild]]
      BY DEF RenewLost
    <3> QED
      BY <3>1, <3>2
  <2> HIDE DEF less, snp
  <2>3. q \in PassType /\ q.pc = "reap"
    BY <2>0, <2>1, <1>PassFieldsOf DEF PassType
  <2> HIDE DEF q
  <2>4. r \in PassType /\ r.pc # "check"
    BY <2>3, IdleTypes DEF PassIdle
  <2> HIDE DEF r
  <2>5. PassTo(s) /\ pass'[s] = r
    BY <2>2, <2>4, PassSet
  <2>6. /\ Procs(s) /\ ChildrenFewer(s) /\ LedgerTo(s) /\ LedgerWithin(s)
        /\ left' \in 0..left
    BY DropStep DEF RenewLost
  <2>7. PassFrame(s) /\ RowKept(s)
    BY <2>5, <2>6, SameTo DEF RenewLost, PassFrame
  <2>8. PassOne(s)'
    BY <2>4, <2>5 DEF PassOne
  <2> QED
    BY <2>0, <2>6, <2>7, <2>8, <1>PassKeeps
<1> SUFFICES ASSUME Safe, NEW s \in Sups, RenewLive(s)
             PROVE  Keeps
  OBVIOUS
<1> QED   BY <1>RenewStartKeeps, <1>RenewManyKeeps, <1>RenewCheckKeeps, <1>RenewAliveKeeps, <1>RenewLostKeeps
    DEF RenewLive

\* Leaving the guard frees only one's own locks.
LEMMA UnlockTo ==
    ASSUME Safe, NEW s \in Sups, lock' = Unlocked(s)
    PROVE  LockTo(s)
  BY Typed DEF LockTo, Unlocked

\* A statement that raises and ends the tick keeps them.
LEMMA TickFailsKeeps ==
    ASSUME Safe, NEW s \in Sups, TickFails(s)
    PROVE  Keeps
  BY TickIdles, UnlockTo, ChargeSpends DEF TickFails

(* The supervisor ends, and its consumers with it.                         *)
LEMMA GoneKeeps ==
    ASSUME Safe, NEW s \in Sups, Gone(s), left' \in 0..left, UNCHANGED <<row, conf, edits>>
    PROVE  Keeps
<1>1. TickTo(s) /\ tick'[s] = TickIdle
  BY IdleTypes, TickSet DEF Gone
<1>2. PassTo(s) /\ pass'[s] = PassIdle
  BY IdleTypes, PassSet DEF Gone
<1>3. /\ TickIdle.pc = "idle" /\ TickIdle.batch = {} /\ PassIdle.pc = "idle"
  BY DEF TickIdle, PassIdle
<1>4. LockTo(s)
  BY UnlockTo DEF Gone
<1>5. /\ LedgerTo(s) /\ StateTo(s) /\ state'[s] = "down"
      /\ \A v \in Users : ledger'[s][v] = "none"
  BY Typed DEF Gone, LedgerTo, StateTo
<1>6. /\ children' \in [Sups -> [Users -> Children]] /\ children'[s] = NoChildren
      /\ \A x \in Sups : x # s => children'[x] = children[x]
  BY NoChildType, Typed DEF Gone
<1>7. \A v \in Users : children'[s][v] = NoChild
  BY <1>6 DEF NoChildren
<1>8. Procs(s)
  <2>1. alive' \subseteq alive /\ \A p \in alive' : p.sup # s
    BY DEF Gone
  <2>2. NoStrayConsumer'
    <3> SUFFICES ASSUME NEW p \in alive' PROVE children'[p.sup][p.user].pid = p.pid
      BY DEF NoStrayConsumer
    <3>1. p \in alive /\ p.sup \in Sups /\ p.sup # s
      BY <2>1, ProcOfChild
    <3> QED
      BY <1>6, <3>1 DEF Safe, NoStrayConsumer
  <2> QED
    BY <1>6, <2>1, <2>2 DEF Procs, Safe, TypeOK
<1>9. Frame(s)
  BY <1>1, <1>2, <1>4, <1>5, <1>8, SameTo, FrameOf
<1>10. AdmittedAt(s)'
  BY <1>1, <1>3 DEF AdmittedAt, Guarded
<1>11. \A v \in Users : ~Hosting(s, v)'
  BY <1>1, <1>3, <1>5, <1>7 DEF Hosting
<1>12. SteadyAt(s)'
  BY <1>1, <1>2, <1>3, <1>7, <1>11
  DEF SteadyAt, ChildOne, TickOne, PassOne, Rowed, DownIdle
<1> QED
  BY <1>9, <1>10, <1>12, StepKeeps

\* The death of a supervisor keeps them: its consumers end with it.
LEMMA CrashKeeps ==
    ASSUME Safe, NEW s \in Sups, Crash(s)
    PROVE  Keeps
  BY GoneKeeps, ChargeSpends DEF Crash

\* A shutdown that has finished keeps them.
LEMMA ExitedKeeps ==
    ASSUME Safe, NEW s \in Sups, Exited(s)
    PROVE  Keeps
  BY GoneKeeps, SameTo DEF Exited

(* Shutdown keeps the row of every child it could not stop.                *)
LEMMA ShutdownKeeps ==
    ASSUME Safe, NEW s \in Sups, Shutdown(s)
    PROVE  Keeps
<1> PICK stuck \in SUBSET {u \in Users : IsAlive(s, u, children[s][u])} :
       LET done == {u \in Users \ stuck : \/ children[s][u] # NoChild
                                          \/ ledger[s][u] # "none"}
       IN /\ alive' = {p \in alive : p.sup # s \/ p.user \in stuck}
          /\ children' = [children EXCEPT ![s] =
               [u \in Users |-> IF u \in stuck THEN @[u] ELSE NoChild]]
          /\ ledger' = [ledger EXCEPT ![s] =
               [u \in Users |-> IF u \in done THEN "none" ELSE @[u]]]
          /\ row' = Released(s, done)
  BY DEF Shutdown
<1> DEFINE done == {u \in Users \ stuck : \/ children[s][u] # NoChild
                                          \/ ledger[s][u] # "none"}
           kids == [u \in Users |-> IF u \in stuck THEN children[s][u] ELSE NoChild]
           led == [u \in Users |-> IF u \in done THEN "none" ELSE ledger[s][u]]
<1>0. \A v \in Users : v \in done <=> v \notin stuck /\ (children[s][v] # NoChild \/ ledger[s][v] # "none")
  OBVIOUS
<1>1. kids \in [Users -> Children] /\ \A v \in Users : v \in stuck => kids[v] = children[s][v]
  BY SMT, Typed, NoChildType
<1>2. led \in [Users -> {"none", "wait", "due"}]
  <2>1. \A v \in Users : ledger[s][v] \in {"none", "wait", "due"}
    BY SMT, Typed
  <2> QED
    BY <2>1
<1>3. children' = [children EXCEPT ![s] = kids]
  BY Typed
<1>4. ledger' = [ledger EXCEPT ![s] = led] /\ row' = Released(s, done)
  BY Typed
<1>5. /\ \A v \in Users : v \notin stuck => kids[v] = NoChild
      /\ \A v \in Users : led[v] # "none" => v \notin done /\ ledger[s][v] # "none"
  OBVIOUS
<1> HIDE DEF done, kids, led
<1>6. /\ children' \in [Sups -> [Users -> Children]] /\ children'[s] = kids
      /\ \A x \in Sups : x # s => children'[x] = children[x]
  BY SMT, <1>1, <1>3, Typed
<1>7. LedgerTo(s) /\ ledger'[s] = led
  BY SMT, <1>2, <1>4, Typed DEF LedgerTo
<1>8. TickTo(s) /\ tick'[s] = TickIdle
  BY IdleTypes, TickSet DEF Shutdown
<1>9. TickIdle.pc = "idle" /\ TickIdle.batch = {}
  BY DEF TickIdle
<1>10. LockTo(s) /\ StateTo(s) /\ state'[s] = "stopping" /\ left' \in 0..left
  BY UnlockTo, ChargeSpends, Typed DEF Shutdown, StateTo
<1>11. RowTo(s)
  BY <1>4, ReleaseTo
<1>12. Procs(s)
  <2>1. alive' \subseteq alive /\ \A p \in alive' : p.sup # s \/ p.user \in stuck
    OBVIOUS
  <2>2. NoStrayConsumer'
    <3> SUFFICES ASSUME NEW p \in alive' PROVE children'[p.sup][p.user].pid = p.pid
      BY DEF NoStrayConsumer
    <3>1. /\ p \in alive /\ p.sup \in Sups /\ p.user \in Users
          /\ p.sup # s \/ p.user \in stuck
      BY <2>1, ProcOfChild
    <3>2. children'[p.sup][p.user] = children[p.sup][p.user]
      BY <1>1, <1>6, <3>1
    <3> QED
      BY <3>1, <3>2 DEF Safe, NoStrayConsumer
  <2> QED
    BY <1>6, <2>1, <2>2 DEF Procs, Safe, TypeOK
<1>13. Frame(s)
  BY <1>7, <1>8, <1>10, <1>11, <1>12, SameTo, FrameOf DEF Shutdown
<1>14. AdmittedAt(s)'
  BY <1>8, <1>9 DEF AdmittedAt, Guarded
<1>15. ASSUME Steady PROVE SteadyAt(s)'
  <2>1. SteadyAt(s)
    BY <1>15 DEF Steady
  <2>2. \A v \in Users : Hosting(s, v)' => Hosting(s, v) /\ v \notin done
    <3> SUFFICES ASSUME NEW v \in Users, kids[v] # NoChild \/ led[v] # "none"
                 PROVE  Hosting(s, v) /\ v \notin done
      BY <1>6, <1>7, <1>8, <1>9 DEF Hosting
    <3>1. CASE led[v] # "none"
      BY <1>5, <3>1 DEF Hosting
    <3>2. CASE kids[v] # NoChild
      <4>1. v \in stuck /\ children[s][v] # NoChild
        BY <1>1, <1>5, <3>2
      <4> QED
        BY <1>0, <4>1 DEF Hosting
    <3> QED
      BY <3>1, <3>2
  <2>3. \A v \in Users : v \notin done => row'[v] = row[v]
    BY SMT, <1>4, ReleasedRows DEF Safe
  <2>4. Rowed(s)'
    BY <2>1, <2>2, <2>3 DEF SteadyAt, Rowed
  <2>5. ChildOne(s)'
    BY <1>1, <1>5, <1>6, <2>1 DEF SteadyAt, ChildOne
  <2>6. TickOne(s)' /\ DownIdle(s)'
    BY <1>8, <1>9, <1>10 DEF TickOne, DownIdle
  <2>7. PassOne(s)'
    BY <2>1 DEF SteadyAt, PassOne, Shutdown
  <2> QED
    BY <2>4, <2>5, <2>6, <2>7 DEF SteadyAt
<1> QED
  BY <1>13, <1>14, <1>15, StepKeeps

\* A restart keeps them.
LEMMA RestartKeeps ==
    ASSUME Safe, NEW s \in Sups, Restart(s)
    PROVE  Keeps
<1>1. StateTo(s) /\ state'[s] = "up"
  BY Typed DEF Restart, StateTo
<1>2. Frame(s)
  BY <1>1, SameTo, SameProcs, FrameOf DEF Restart
<1>3. AdmittedAt(s)'
  BY TickFieldsOf DEF AdmittedAt, Restart
<1>4. ASSUME Steady PROVE SteadyAt(s)'
  <2>1. SteadyAt(s)
    BY <1>4 DEF Steady
  <2>2. ChildOne(s)' /\ TickOne(s)' /\ PassOne(s)'
    BY <2>1 DEF SteadyAt, ChildOne, TickOne, PassOne, Restart
  <2>3. Rowed(s)'
    BY <2>1 DEF SteadyAt, Rowed, Hosting, Restart
  <2>4. DownIdle(s)'
    BY <1>1 DEF DownIdle
  <2> QED
    BY <2>2, <2>3, <2>4 DEF SteadyAt
<1> QED
  BY <1>2, <1>3, <1>4, StepKeeps

\* The end of a backoff keeps them.
LEMMA BackoffEndsKeeps ==
    ASSUME Safe, NEW s \in Sups, NEW u \in Users, BackoffEnds(s, u)
    PROVE  Keeps
<1>1. LedgerTo(s) /\ \A v \in Users : v # u => ledger'[s][v] = ledger[s][v]
  BY Typed DEF BackoffEnds, LedgerTo
<1>2. Frame(s)
  BY <1>1, SameTo, SameProcs, FrameOf DEF BackoffEnds
<1>3. AdmittedAt(s)'
  BY TickFieldsOf DEF AdmittedAt, BackoffEnds
<1>4. ASSUME Steady PROVE SteadyAt(s)'
  <2>1. SteadyAt(s)
    BY <1>4 DEF Steady
  <2>2. ChildOne(s)' /\ TickOne(s)' /\ PassOne(s)'
    BY <2>1 DEF SteadyAt, ChildOne, TickOne, PassOne, BackoffEnds
  <2>3. Hosting(s, u) /\ \A v \in Users : Hosting(s, v)' => Hosting(s, v)
    BY <1>1 DEF Hosting, BackoffEnds
  <2>4. Rowed(s)' /\ DownIdle(s)'
    BY <2>1, <2>3 DEF SteadyAt, Rowed, DownIdle, BackoffEnds
  <2> QED
    BY <2>2, <2>4 DEF SteadyAt
<1> QED
  BY <1>2, <1>3, <1>4, StepKeeps

\* A consumer that exits keeps them.
LEMMA ConsumerExitsKeeps ==
    ASSUME Safe, NEW p \in alive, ConsumerExits(p)
    PROVE  Keeps
<1>1. p.sup \in Sups
  BY ProcOfChild
<1> DEFINE s == p.sup
<1>2. Procs(s)
  BY DEF ConsumerExits, Procs, Safe, TypeOK, NoStrayConsumer
<1>3. Frame(s)
  BY <1>2, SameTo, ChargeSpends, FrameOf DEF ConsumerExits
<1>4. AdmittedAt(s)'
  BY <1>1, TickFieldsOf DEF AdmittedAt, ConsumerExits
<1>5. ASSUME Steady PROVE SteadyAt(s)'
  <2>1. SteadyAt(s)
    BY <1>1, <1>5 DEF Steady
  <2> QED
    BY <2>1
       DEF SteadyAt, ChildOne, TickOne, PassOne, Rowed, DownIdle, Hosting, ConsumerExits
<1> QED
  BY <1>1, <1>3, <1>4, <1>5, StepKeeps

(* A lease runs out under nobody, unless a pass outlasts it.               *)
LEMMA ExpireKeeps ==
    ASSUME Safe, NEW u \in Users, Expire(u)
    PROVE  Safe' /\ ("lapse" \notin Faults /\ Steady => Steady')
<1>1. [row[u] EXCEPT !.live = FALSE] \in RowType
  <2>1. row[u] \in RowType
    BY Typed
  <2> QED
    BY <2>1 DEF RowType
<1>2. row' \in [Users -> RowType] /\ \A v \in Users : v # u => row'[v] = row[v]
  BY <1>1, Typed DEF Expire
<1>3. left' \in 0..MaxFaults
  <2>1. left' \in 0..left
    BY SameTo, ChargeSpends DEF Expire
  <2> QED
    BY SMT, <2>1, Constants DEF Safe, TypeOK
<1>4. Safe'
  <2>1. TypeOK'
    BY <1>2, <1>3 DEF Safe, TypeOK, Expire
  <2>2. \A s \in Sups : AdmittedAt(s)'
    BY DEF Safe, AdmittedAt, Expire
  <2>3. NoStrayConsumer'
    BY DEF Safe, NoStrayConsumer, Expire
  <2> QED
    BY <2>1, <2>2, <2>3 DEF Safe
<1>5. ASSUME "lapse" \notin Faults, Steady, NEW s \in Sups PROVE SteadyAt(s)'
  <2>1. SteadyAt(s)
    BY <1>5 DEF Steady
  <2>2. Abandoned(row[u].owner, u)
    BY <1>5 DEF Expire, Charge
  <2>3. ~Hosting(s, u)
    <3> SUFFICES ASSUME Hosting(s, u) PROVE FALSE
      OBVIOUS
    <3>1. row[u].owner = s /\ state[s] # "down"
      BY SMT, <2>1 DEF SteadyAt, Rowed, DownIdle
    <3> QED
      BY <2>2, <3>1 DEF Abandoned, Hosting
  <2>4. \A v \in Users : Hosting(s, v)' <=> Hosting(s, v)
    BY DEF Hosting, Expire
  <2>5. Rowed(s)' /\ DownIdle(s)'
    BY <1>2, <2>1, <2>3, <2>4 DEF SteadyAt, Rowed, DownIdle, Expire
  <2>6. ChildOne(s)' /\ TickOne(s)' /\ PassOne(s)'
    BY <2>1 DEF SteadyAt, ChildOne, TickOne, PassOne, Expire
  <2> QED
    BY <2>5, <2>6 DEF SteadyAt
<1>6. ASSUME "lapse" \notin Faults, Steady PROVE Steady'
  BY <1>5, <1>6 DEF Steady, Expire
<1> QED
  BY <1>4, <1>6

(* The user's settings wait for the guard; a persona keeps the binding.    *)
LEMMA EditKeeps ==
    ASSUME Safe, NEW u \in Users, Edit(u)
    PROVE  Safe' /\ ("setting" \notin Edits /\ Steady => Steady')
<1> DEFINE n == MaxEdits + 2 - edits
<1>1. n \in Epochs /\ edits' \in 0..MaxEdits /\ 0 \in Epochs
  BY SMT, Constants DEF Safe, TypeOK, Epochs, Edit
<1> DEFINE a == [epoch |-> n, id |-> conf[u].id]
           b == [epoch |-> n, id |-> n]
           d == [epoch |-> 0, id |-> 0]
           k == [epoch |-> conf[u].epoch, id |-> n]
<1>2. PICK c \in {a, b, d, k} :
          /\ conf' = [conf EXCEPT ![u] = c]
          /\ c = k \/ ("setting" \in Edits /\ lock[u] = None)
  BY DEF Edit
<1> HIDE DEF n
<1>3. {a, b, d, k} \subseteq [epoch : Epochs, id : Epochs] /\ k.epoch = conf[u].epoch
  BY SMT, <1>1, Typed
<1> HIDE DEF a, b, d, k
<1>4. /\ conf' \in [Users -> [epoch : Epochs, id : Epochs]] /\ conf'[u] = c
      /\ \A v \in Users : v # u => conf'[v] = conf[v]
  BY <1>2, <1>3, Typed
<1>5. \A v \in Users : lock[v] # None \/ "setting" \notin Edits => conf'[v].epoch = conf[v].epoch
  BY <1>2, <1>3, <1>4
<1>6. UNCHANGED <<row, lock, state, children, ledger, alive, tick, pass, left>>
  BY DEF Edit
<1>7. Safe'
  <2>1. TypeOK'
    BY <1>1, <1>4, <1>6 DEF Safe, TypeOK
  <2>2. ASSUME NEW s \in Sups PROVE AdmittedAt(s)'
    BY SMT, <1>5, <1>6, <2>2, Constants DEF Safe, AdmittedAt
  <2>3. NoStrayConsumer'
    BY <1>6 DEF Safe, NoStrayConsumer
  <2> QED
    BY <2>1, <2>2, <2>3 DEF Safe
<1>8. ASSUME "setting" \notin Edits, Steady PROVE Steady'
  <2>1. \A v \in Users : conf'[v].epoch = 1
    BY SMT, <1>5, <1>8 DEF Steady
  <2>2. ASSUME NEW s \in Sups PROVE SteadyAt(s)'
    <3>1. SteadyAt(s)
      BY <1>8 DEF Steady
    <3> QED
      BY <1>6, <3>1 DEF SteadyAt, ChildOne, TickOne, PassOne, Rowed, DownIdle, Hosting
  <2> QED
    BY <2>1, <2>2 DEF Steady
<1> QED
  BY <1>7, <1>8

\* They hold before the first tick.
LEMMA InitSafe ==
    ASSUME Init
    PROVE  Safe /\ Steady
<1>1. TypeOK
  <2>1. Unheld \in RowType /\ [epoch |-> 1, id |-> 1] \in [epoch : Epochs, id : Epochs]
    BY Ranges DEF Unheld, RowType
  <2>2. MaxFaults \in 0..MaxFaults /\ MaxEdits \in 0..MaxEdits
    BY SMT, Constants
  <2> QED
    BY <2>1, <2>2, NoChildType, IdleTypes DEF Init, TypeOK
<1>2. /\ TickIdle.pc = "idle" /\ TickIdle.batch = {} /\ PassIdle.pc = "idle"
  BY DEF TickIdle, PassIdle
<1>3. ASSUME NEW s \in Sups
      PROVE  /\ tick[s] = TickIdle /\ pass[s] = PassIdle /\ state[s] = "up"
             /\ \A u \in Users : children[s][u] = NoChild /\ ledger[s][u] = "none"
  BY DEF Init, NoChildren
<1>4. ASSUME NEW s \in Sups PROVE AdmittedAt(s)
  BY <1>2, <1>3 DEF AdmittedAt, Guarded
<1>5. NoStrayConsumer
  BY DEF Init, NoStrayConsumer
<1>6. ASSUME NEW s \in Sups PROVE SteadyAt(s)
  <2>1. \A u \in Users : ~Hosting(s, u)
    BY SMT, <1>2, <1>3 DEF Hosting
  <2> QED
    BY SMT, <1>2, <1>3, <2>1 DEF SteadyAt, ChildOne, TickOne, PassOne, Rowed, DownIdle
<1>7. \A u \in Users : conf[u].epoch = 1
  BY DEF Init
<1> QED
  BY <1>1, <1>4, <1>5, <1>6, <1>7 DEF Safe, Steady

(* No pass outlasts the TTL and nobody changes a route.                    *)
Undisturbed == "lapse" \notin Faults /\ "setting" \notin Edits

\* Every step keeps Safe, and Steady as long as nothing disturbs it.
LEMMA NextKeeps ==
    ASSUME Safe, [Next]_vars
    PROVE  Safe' /\ (Undisturbed /\ Steady => Steady')
<1>1. ASSUME NEW s \in Sups,
             \/ Tick(s) \/ TickFails(s) \/ RenewLive(s)
             \/ Crash(s) \/ Shutdown(s) \/ Exited(s) \/ Restart(s)
             \/ \E u \in Users : BackoffEnds(s, u)
      PROVE  Keeps
  BY <1>1, TickStepKeeps, TickFailsKeeps, RenewLiveKeeps, CrashKeeps, ShutdownKeeps,
     ExitedKeeps, RestartKeeps, BackoffEndsKeeps
<1>2. ASSUME NEW u \in Users, Expire(u) \/ Edit(u)
      PROVE  Safe' /\ (Undisturbed /\ Steady => Steady')
  BY <1>2, ExpireKeeps, EditKeeps DEF Undisturbed
<1>3. ASSUME NEW p \in alive, ConsumerExits(p)
      PROVE  Keeps
  BY <1>3, ConsumerExitsKeeps
<1>4. ASSUME UNCHANGED vars
      PROVE  Keeps
  <2>1. Safe'
    BY <1>4 DEF vars, Safe, TypeOK, AdmittedAt, NoStrayConsumer
  <2>2. ASSUME Steady, NEW s \in Sups PROVE SteadyAt(s)'
    <3>1. SteadyAt(s)
      BY <2>2 DEF Steady
    <3> QED
      BY <1>4, <3>1
      DEF vars, SteadyAt, ChildOne, TickOne, PassOne, Rowed, DownIdle, Hosting
  <2>3. ASSUME Steady PROVE \A u \in Users : conf'[u].epoch = 1
    BY <1>4, <2>3 DEF vars, Steady
  <2> QED
    BY <2>1, <2>2, <2>3 DEF Keeps, Steady
<1> QED
  BY <1>1, <1>2, <1>3, <1>4 DEF Next, Keeps

(***************************************************************************)
(* The inductive invariant: types, a tick inside the guard holds the       *)
(* user's lock and an entry of the current binding, and every process is   *)
(* the child its supervisor tracks.                                        *)
(***************************************************************************)
THEOREM Invariance == Spec => []Safe
<1>1. Init => Safe
  BY InitSafe
<1>2. Safe /\ [Next]_vars => Safe'
  BY NextKeeps
<1> QED
  BY <1>1, <1>2, PTL DEF Spec

(* The types of the state, for every number of supervisors and users.      *)
THEOREM TypeCorrect == Spec => []TypeOK
<1>1. Safe => TypeOK
  BY DEF Safe
<1> QED
  BY <1>1, Invariance, PTL

(* Every consumer that runs is the child its supervisor tracks, through    *)
(* respawns, unconfirmed stops and the race of tick and renew_live over    *)
(* `children' (supervisor.py:459, :722).                                   *)
THEOREM NobodyStrays == Spec => []NoStrayConsumer
<1>1. Safe => NoStrayConsumer
  BY DEF Safe
<1> QED
  BY <1>1, Invariance, PTL

(* Two supervisors never run the same user while no pass outlasts the TTL  *)
(* and no route changes, whatever crashes, stops, restarts or stays stuck: *)
(* who has a child, a backoff or a pending spawn of the user owns the live *)
(* row (leases.py:3).                                                      *)
THEOREM ExactlyOneConsumer == Undisturbed => (Spec => []OneConsumer)
<1> SUFFICES ASSUME Undisturbed PROVE Spec => []OneConsumer
  OBVIOUS
<1>1. Init => Safe /\ Steady
  BY InitSafe
<1>2. Safe /\ Steady /\ [Next]_vars => (Safe /\ Steady)'
  BY NextKeeps
<1>3. Safe /\ Steady => OneConsumer
  <2> SUFFICES ASSUME Safe, Steady, NEW p \in alive, NEW q \in alive, p.user = q.user
               PROVE  p = q
    BY DEF OneConsumer
  <2>1. /\ p.sup \in Sups /\ p.user \in Users
        /\ p = Proc(p.sup, p.user, children[p.sup][p.user])
        /\ children[p.sup][p.user] # NoChild
    BY ProcOfChild
  <2>2. /\ q.sup \in Sups
        /\ q = Proc(q.sup, q.user, children[q.sup][q.user])
        /\ children[q.sup][q.user] # NoChild
    BY ProcOfChild
  <2>3. row[p.user] = [owner |-> p.sup, live |-> TRUE]
    BY <2>1 DEF Steady, SteadyAt, Rowed, Hosting
  <2>4. row[p.user] = [owner |-> q.sup, live |-> TRUE]
    BY <2>1, <2>2 DEF Steady, SteadyAt, Rowed, Hosting
  <2>5. p.sup = q.sup
    BY SMT, <2>3, <2>4
  <2> QED
    BY <2>1, <2>2, <2>5
<1> QED
  BY <1>1, <1>2, <1>3, PTL DEF Spec

(* A row is given up only after the consumer behind it has ended: a stop   *)
(* that was not confirmed keeps the row, in _revoke_admission, in the drop *)
(* of a user who left the roster and in shutdown (supervisor.py:475).      *)
THEOREM GivenUpAfterStop == Spec => ReleasedAfterStop
<1>1. Safe /\ [Next]_vars => [ReleasedRight]_vars
  BY NextRight DEF Right
<1>2. Spec => [][ReleasedRight]_vars
  BY <1>1, Invariance, PTL DEF Spec
<1> QED
  BY <1>2 DEF ReleasedAfterStop, ReleasedRight

(* A consumer starts under the configuration that is current at that       *)
(* moment: no deletion or change of route is overtaken by a spawn admitted *)
(* before it, in the swap under the lock or in the batch (supervisor.py:697). *)
THEOREM StartedCurrent == Spec => StartsCurrent
<1>1. Safe /\ [Next]_vars => [StartedRight]_vars
  BY NextRight DEF Right
<1>2. Spec => [][StartedRight]_vars
  BY <1>1, Invariance, PTL DEF Spec
<1> QED
  BY <1>2 DEF StartsCurrent, StartedRight

=============================================================================
