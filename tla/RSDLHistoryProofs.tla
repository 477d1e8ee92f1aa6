------------------------- MODULE RSDLHistoryProofs --------------------------
(*****************************************************************************)
(* Whom an epoch serves, and in which order: the steps of one CPU give a     *)
(* process at most its share, and let nobody overtake.                       *)
(*****************************************************************************)
EXTENDS RSDLHistory, RSDLEpochProofs

\* The history variables restrict nothing.
LEMMA HistorySteps == (HInit => Init) /\ ([HNext]_hvars => [Next]_vars)
BY Zenon DEF HInit, HNext, hvars

LEMMA HistoryEpochs ==
  ASSUME \A c, d \in CPUS : c = d
  PROVE  HSpec => [](UniInv /\ EpochInv)
<1>1. HSpec => Spec
  BY HistorySteps, PTL DEF HSpec, Spec
<1> QED BY <1>1, EpochInductive, PTL

-----------------------------------------------------------------------------
(* The share of a process *)

Bud(d, k) == PROC_QUANTUM * (k - d + 1)

LEMMA BudFacts ==
  ASSUME NEW d \in Nat, NEW k \in Nat, d <= k
  PROVE  /\ Bud(d, k) \in Nat /\ PROC_QUANTUM <= Bud(d, k)
         /\ Bud(d, k + 1) = Bud(d, k) + PROC_QUANTUM
         /\ Bud(d, d) = PROC_QUANTUM
         /\ \A m \in Nat : k <= m => Bud(d, k) <= Bud(d, m)
<1>1. PROC_QUANTUM \in Nat
  BY Quanta, Zenon
<1>2. \A a, b, n \in Nat : a <= b => n * a <= n * b
  OBVIOUS
<1>3. k - d + 1 \in Nat /\ 1 <= k - d + 1
  OBVIOUS
<1>4. Bud(d, k) \in Nat
  BY <1>1, <1>3 DEF Bud
<1>5. PROC_QUANTUM * 1 <= PROC_QUANTUM * (k - d + 1)
  BY <1>1, <1>2, <1>3, Zenon
<1>6. Bud(d, k + 1) = Bud(d, k) + PROC_QUANTUM
  BY <1>1 DEF Bud
<1>7. Bud(d, d) = PROC_QUANTUM
  BY <1>1 DEF Bud
<1>8. ASSUME NEW m \in Nat, k <= m PROVE Bud(d, k) <= Bud(d, m)
  <2>1. m - d + 1 \in Nat /\ k - d + 1 <= m - d + 1
    BY <1>8
  <2> QED BY <1>1, <1>2, <1>3, <2>1, Zenon DEF Bud
<1>9. PROC_QUANTUM <= Bud(d, k)
  BY <1>1, <1>5 DEF Bud
<1> QED BY <1>4, <1>6, <1>7, <1>8, <1>9, Zenon

\* What the entry of p in q says of its share.
ShareIn(q, p) ==
  IF q[1] = active THEN used[p] + ticksLeft[p] <= Budget(p, q[2])
                   ELSE used[p] <= Budget(p, LEVELS - 1)

\* ShareInv with the only CPU c.
OneShare(c) ==
  /\ used \in [Procs -> Nat]
  /\ \A p \in Procs : state[p] = "EMBRYO" => used[p] = 0
  /\ \A q \in Queues : \A p \in Procs : Contains(queue[q], p) => ShareIn(q, p)
  /\ pc[c] = "migrate" /\ state[cproc[c]] # "ZOMBIE" => used[cproc[c]] <= Budget(cproc[c], cqueue[c][2])
  /\ pc[c] = "swap" => \A p \in Procs : used[p] = 0

LEMMA ShareOnly ==
  ASSUME NEW c \in CPUS, Only(c)
  PROVE  (ShareInv <=> OneShare(c)) /\ (ShareInv' <=> OneShare(c)')
BY Zenon DEF Only, OneShare, ShareInv, ShareIn

\* Further down, the budget covers at least one more quantum.
LEMMA Below ==
  ASSUME NEW p \in Procs, NEW k \in Nat, NEW m \in Nat,
         defaultLevel[p] \in Nat, defaultLevel[p] <= k, k <= m
  PROVE  /\ Budget(p, k) \in Nat /\ Budget(p, m) \in Nat
         /\ Budget(p, k) <= Budget(p, m)
         /\ k < m => Budget(p, k) + PROC_QUANTUM <= Budget(p, m)
<1>1. PICK d \in Nat : d = defaultLevel[p]
  BY Zenon
<1>2. d <= k /\ d <= m /\ k + 1 \in Nat /\ d <= k + 1
  BY <1>1
<1>3. Budget(p, k) = Bud(d, k) /\ Budget(p, m) = Bud(d, m)
  BY <1>1, Zenon DEF Budget, Bud
<1>4. Bud(d, k) \in Nat /\ Bud(d, m) \in Nat
  BY <1>2, BudFacts, Zenon
<1>5. Bud(d, k) <= Bud(d, m)
  BY <1>2, BudFacts, Zenon
<1>6. ASSUME k < m PROVE Bud(d, k) + PROC_QUANTUM <= Bud(d, m)
  <2>1. Bud(d, k + 1) = Bud(d, k) + PROC_QUANTUM
    BY <1>2, BudFacts, Zenon
  <2>2. k + 1 <= m
    BY <1>6
  <2>3. Bud(d, k + 1) <= Bud(d, m)
    BY <1>2, <2>2, BudFacts, Zenon
  <2> QED BY <2>1, <2>3, Zenon
<1> QED BY <1>3, <1>4, <1>5, <1>6, Zenon

\* The last level's budget is the largest one.
LEMMA LastBudget ==
  ASSUME BaseInv, NEW p \in Procs, NEW k \in Levels, defaultLevel[p] <= k
  PROVE  Budget(p, k) \in Nat /\ Budget(p, LEVELS - 1) \in Nat /\ Budget(p, k) <= Budget(p, LEVELS - 1)
<1>1. PICK m \in Nat : m = LEVELS - 1
  BY ConstantsAssumption DEF ConstantsAssumption
<1>2. k \in Nat /\ k <= m /\ defaultLevel[p] \in Nat
  BY <1>1, LevelTypes, ConstantsAssumption DEF ConstantsAssumption, Levels
<1>3. Budget(p, k) \in Nat /\ Budget(p, m) \in Nat /\ Budget(p, k) <= Budget(p, m)
  BY <1>2, Below, Zenon
<1> QED BY <1>1, <1>3, Zenon

LEMMA InitShare == ASSUME NEW c \in CPUS, HInit PROVE OneShare(c)
<1>1. /\ pc[c] = "sched" /\ active = 0 /\ STARTING_LEVEL \in Levels /\ STARTING_LEVEL \in Nat
      /\ ticksLeft[initproc] = PROC_QUANTUM /\ defaultLevel[initproc] = STARTING_LEVEL
      /\ queue = [q \in Queues |-> IF q = <<0, STARTING_LEVEL>> THEN <<initproc>> ELSE << >>]
      /\ used = [p \in Procs |-> 0] /\ initproc \in Procs
  BY ConstantsAssumption DEF ConstantsAssumption, HInit, Init, Levels, Procs, initproc
<1>2. ASSUME NEW q \in Queues, NEW p \in Procs, Contains(queue[q], p)
      PROVE  ShareIn(q, p)
  <2>1. queue[q] = IF q = <<0, STARTING_LEVEL>> THEN <<initproc>> ELSE << >>
    BY <1>1, Zenon
  <2>2. q = <<0, STARTING_LEVEL>> /\ p = initproc
    BY <1>2, <2>1 DEF Contains
  <2>3. q[1] = 0 /\ q[2] = STARTING_LEVEL
    BY <2>2, Zenon
  <2>4. Budget(p, q[2]) = PROC_QUANTUM
    BY <1>1, <2>2, <2>3, Quanta DEF Budget
  <2> QED BY <1>1, <2>2, <2>3, <2>4, Quanta DEF ShareIn
<1> QED BY <1>1, <1>2, Zenon DEF OneShare

LEMMA ShareNext ==
  ASSUME NEW c \in CPUS, Only(c), BaseInv, OneInv(c), OneEpoch(c), OneShare(c), [HNext]_hvars
  PROVE  OneShare(c)'
\* Only a charge adds to used.
<1>UsedKept.
  ASSUME Record, active' = active, pc[c] # "charge",
         \A p \in Procs : state'[p] = "EMBRYO" => state[p] = "EMBRYO"
  PROVE  used' = used
  <2> USE <1>UsedKept
  <2>1. \A p : ~Charged(p)
    BY Zenon DEF Charged, Only
  <2>2. used \in [Procs -> Nat] /\ \A p \in Procs : state'[p] = "EMBRYO" => used[p] = 0
    BY Zenon DEF OneShare
  <2>3. used' = [p \in Procs |-> IF state'[p] = "EMBRYO" THEN 0 ELSE used[p]]
    BY <2>1, Zenon DEF Record
  <2> QED BY <2>2, <2>3, Zenon
\* A step after which only the entry of p is different.
<1>ShareFrame.
  ASSUME NEW p \in Procs, used' = used, active' = active,
         \A x \in Procs \ {p} : ticksLeft'[x] = ticksLeft[x] /\ defaultLevel'[x] = defaultLevel[x],
         \A x \in Procs \ {p} : \A r \in Queues : Contains(queue'[r], x) => Contains(queue[r], x),
         \A r \in Queues : Contains(queue'[r], p) => ShareIn(r, p)',
         \A x \in Procs : state'[x] = "EMBRYO" => state[x] = "EMBRYO",
         pc'[c] = "swap" => pc[c] = "swap",
         pc'[c] = "migrate" /\ state'[cproc'[c]] # "ZOMBIE" => (used[cproc[c]] <= Budget(cproc[c], cqueue[c][2]))'
  PROVE  OneShare(c)'
  <2> USE <1>ShareFrame
  <2>1. ASSUME NEW r \in Queues, NEW x \in Procs, Contains(queue'[r], x)
        PROVE  ShareIn(r, x)'
    <3>1. CASE x = p
      BY <2>1, <3>1, Zenon
    <3>2. CASE x # p
      <4>1. ShareIn(r, x)
        BY <2>1, <3>2, Zenon DEF OneShare
      <4> QED BY <3>2, <4>1, Zenon DEF ShareIn, Budget
    <3> QED BY <3>1, <3>2, Zenon
  <2>2. pc'[c] = "swap" => \A x \in Procs : used'[x] = 0
    BY Zenon DEF OneShare
  <2>3. used' \in [Procs -> Nat] /\ \A x \in Procs : state'[x] = "EMBRYO" => used'[x] = 0
    BY Zenon DEF OneShare
  <2> QED BY <2>1, <2>2, <2>3, Zenon DEF OneShare
\* Steps that move nobody, and exit().
<1>Calm.
  ASSUME Record, UNCHANGED <<active, ticksLeft, defaultLevel>>,
         \A x \in Procs : \A r \in Queues : Contains(queue'[r], x) => Contains(queue[r], x),
         \A x \in Procs : state'[x] = "EMBRYO" => state[x] = "EMBRYO", pc[c] # "charge",
         pc'[c] # "migrate", pc'[c] = "swap" => pc[c] = "swap"
  PROVE  OneShare(c)'
  <2> USE <1>Calm
  <2>1. used' = used
    BY <1>UsedKept, Zenon
  <2>2. initproc \in Procs
    BY ConstantsAssumption DEF ConstantsAssumption, Procs, initproc
  <2>3. \A r \in Queues : Contains(queue'[r], initproc) => ShareIn(r, initproc)'
    BY <2>1, <2>2, Zenon DEF OneShare, ShareIn, Budget
  <2> QED BY <2>1, <2>2, <2>3, <1>ShareFrame, Zenon
\* A process that moves below level k with a new quantum.
<1>Moved.
  ASSUME NEW p \in Procs, NEW k \in Levels, defaultLevel[p] <= k, used[p] \in Nat,
         used[p] <= Budget(p, k), NEW nq \in Queues, PlacedAt(nq, k + 1, defaultLevel[p]),
         used' = used, active' = active, defaultLevel' = defaultLevel, ticksLeft'[p] = PROC_QUANTUM
  PROVE  ShareIn(nq, p)'
  <2> USE <1>Moved
  <2>1. nq[2] \in Nat /\ PROC_QUANTUM \in Nat /\ k \in Nat /\ defaultLevel[p] \in Nat
    BY LevelTypes, Quanta DEF Levels
  <2>2. Budget(p, nq[2])' = Budget(p, nq[2]) /\ Budget(p, LEVELS - 1)' = Budget(p, LEVELS - 1)
    BY Zenon DEF Budget
  <2>3. CASE nq[1] = active
    <3>1. k < nq[2] /\ k <= nq[2]
      BY <2>1, <2>3 DEF PlacedAt
    <3>2. Budget(p, k) + PROC_QUANTUM <= Budget(p, nq[2]) /\ Budget(p, k) \in Nat /\ Budget(p, nq[2]) \in Nat
      BY <2>1, <3>1, Below, Zenon
    <3>3. used[p] + PROC_QUANTUM <= Budget(p, nq[2])
      BY <2>1, <3>2
    <3> QED BY <2>2, <2>3, <3>3, Zenon DEF ShareIn
  <2>4. CASE nq[1] # active
    <3>1. Budget(p, k) <= Budget(p, LEVELS - 1) /\ Budget(p, k) \in Nat /\ Budget(p, LEVELS - 1) \in Nat
      BY LastBudget, Zenon
    <3>2. used[p] <= Budget(p, LEVELS - 1)
      BY <3>1
    <3> QED BY <2>2, <2>4, <3>2, Zenon DEF ShareIn
  <2> QED BY <2>3, <2>4, Zenon
<1>Requeue.
  ASSUME Record, Requeue(c)
  PROVE  OneShare(c)'
  <2> USE <1>Requeue
  <2>p. PICK p \in Procs : p = cproc[c]
    BY RequeueEffect, Zenon
  <2>q. PICK q \in Queues : q = cqueue[c]
    BY RequeueEffect, Zenon
  <2> DEFINE full == [ticksLeft EXCEPT ![p] = PROC_QUANTUM]
  <2>0. ticksLeft \in [Procs -> Int] /\ Distinct(queue) /\ pc \in [CPUS -> Locations]
    BY Zenon DEF BaseInv, TypeOK, OneInv, Placed
  <2>1. /\ pc[c] = "switch" /\ p \in Procs /\ q \in Queues /\ q[1] = active /\ levelTicks[q] > 0 /\ Leave(c)
        /\ UNCHANGED <<state, defaultLevel, levelTicks, active, reg, swapLevel>>
        /\ \/ state[p] = "ZOMBIE" /\ queue' = queue /\ ticksLeft' \in {ticksLeft, full}
           \/ \E nq \in Queues :
                /\ state[p] # "ZOMBIE"
                /\ \E i \in 1..Len(queue[q]) : Shifted(q, i, p, nq)
                /\ PlacedAt(nq, next_start(p, q[2]), defaultLevel[p])
                /\ ticksLeft' = IF ticksLeft[p] <= 0 \/ nq[1] # active THEN full ELSE ticksLeft
    BY <2>p, <2>q, RequeueEffect, Zenon
  <2>2. used' = used /\ pc'[c] = "sched"
    BY <2>0, <2>1, <1>UsedKept, Zenon DEF Leave, Goto
  <2>3. \A x \in Procs \ {p} : ticksLeft'[x] = ticksLeft[x] /\ defaultLevel'[x] = defaultLevel[x]
    BY <2>0, <2>1, Zenon
  <2>4. CASE state[p] = "ZOMBIE" /\ queue' = queue
    <3>1. \A r \in Queues : ~Contains(queue'[r], p)
      BY <2>1, <2>4, Zenon DEF OneInv, Placed, Schedulable
    <3> QED BY <2>1, <2>2, <2>3, <2>4, <3>1, <1>ShareFrame, Zenon
  <2>5. ASSUME NEW nq \in Queues, NEW i \in 1..Len(queue[q]), Shifted(q, i, p, nq),
               PlacedAt(nq, next_start(p, q[2]), defaultLevel[p]),
               ticksLeft' = IF ticksLeft[p] <= 0 \/ nq[1] # active THEN full ELSE ticksLeft
        PROVE  OneShare(c)'
    <3>1. Relocated(p, nq) /\ Contains(queue[q], p)
      BY <2>0, <2>1, <2>5, ShiftedFacts, Zenon
    <3>2. /\ defaultLevel[p] <= q[2] /\ q[2] \in Levels /\ q[2] \in Nat /\ nq[2] \in Nat
          /\ defaultLevel[p] \in Nat
      BY <2>1, <3>1, InLevel, LevelTypes, Zenon
    <3>3. used[p] + ticksLeft[p] <= Budget(p, q[2]) /\ used[p] \in Nat /\ ticksLeft[p] \in 0..PROC_QUANTUM
      BY <2>1, <3>1, Zenon DEF OneShare, ShareIn, OneEpoch, QuantaInRange
    <3>4. full[p] = PROC_QUANTUM
      BY <2>0, <2>1, Zenon
    <3>5. Budget(p, nq[2])' = Budget(p, nq[2]) /\ Budget(p, LEVELS - 1)' = Budget(p, LEVELS - 1)
      BY <2>1, Zenon DEF Budget
    <3> HIDE DEF full
    <3>6. ShareIn(nq, p)'
      <4>1. CASE nq[1] # active
        <5>1. Budget(p, q[2]) <= Budget(p, LEVELS - 1) /\ Budget(p, q[2]) \in Nat /\ Budget(p, LEVELS - 1) \in Nat
          BY <2>1, <3>2, LastBudget, Zenon
        <5>2. used[p] <= Budget(p, LEVELS - 1)
          BY <3>3, <5>1
        <5> QED BY <2>1, <2>2, <3>5, <4>1, <5>2, Zenon DEF ShareIn
      <4>2. CASE nq[1] = active /\ ticksLeft[p] <= 0
        <5>1. q[2] < nq[2] /\ q[2] <= nq[2]
          BY <2>5, <3>2, <4>2 DEF PlacedAt, next_start
        <5>2. Budget(p, q[2]) + PROC_QUANTUM <= Budget(p, nq[2]) /\ Budget(p, q[2]) \in Nat /\ Budget(p, nq[2]) \in Nat
          BY <2>1, <3>2, <5>1, Below, Zenon
        <5>3. ticksLeft'[p] = PROC_QUANTUM
          BY <2>5, <3>4, <4>2, Zenon
        <5>4. used[p] + PROC_QUANTUM <= Budget(p, nq[2])
          BY <3>3, <5>2, Quanta
        <5> QED BY <2>1, <2>2, <3>5, <4>2, <5>3, <5>4, Zenon DEF ShareIn
      <4>3. CASE nq[1] = active /\ ~(ticksLeft[p] <= 0)
        <5>1. q[2] <= nq[2]
          BY <2>5, <4>3, Zenon DEF PlacedAt, next_start
        <5>2. Budget(p, q[2]) <= Budget(p, nq[2]) /\ Budget(p, q[2]) \in Nat /\ Budget(p, nq[2]) \in Nat
          BY <2>1, <3>2, <5>1, Below, Zenon
        <5>3. ticksLeft'[p] = ticksLeft[p]
          BY <2>5, <4>3, Zenon
        <5>4. used[p] + ticksLeft[p] <= Budget(p, nq[2])
          BY <3>3, <5>2, Quanta
        <5> QED BY <2>1, <2>2, <3>5, <4>3, <5>3, <5>4, Zenon DEF ShareIn
      <4> QED BY <4>1, <4>2, <4>3, Zenon
    <3>7. /\ \A r \in Queues : Contains(queue'[r], p) => ShareIn(r, p)'
          /\ \A x \in Procs \ {p} : \A r \in Queues : Contains(queue'[r], x) => Contains(queue[r], x)
      BY <3>1, <3>6, Zenon DEF Relocated
    <3> QED BY <2>1, <2>2, <2>3, <3>7, <1>ShareFrame, Zenon
  <2> QED BY <2>1, <2>4, <2>5, Zenon
<1>MigrateMove.
  ASSUME Record, MigrateMove(c)
  PROVE  OneShare(c)'
  <2> USE <1>MigrateMove
  <2> DEFINE p == cproc[c]
             q == cqueue[c]
  <2>0. ticksLeft \in [Procs -> Int] /\ Distinct(queue) /\ queue \in [Queues -> Seq(Procs)]
    BY Zenon DEF BaseInv, TypeOK, OneInv, Placed
  <2>1. /\ pc[c] = "migrate" /\ p \in Procs /\ q \in Queues /\ q[1] = active
        /\ UNCHANGED <<state, defaultLevel, levelTicks, active, lock, pc, cproc, cqueue, reg, swapLevel>>
    BY MigrateMoveEffect, Zenon
  <2>2. PICK np \in Procs :
           /\ ticksLeft' = [ticksLeft EXCEPT ![np] = PROC_QUANTUM]
           /\ \/ np = p /\ Taken(q, 1, np)
              \/ /\ np # p
                 /\ \E nq \in Queues : Shifted(q, 1, np, nq) /\ PlacedAt(nq, q[2] + 1, defaultLevel[np])
    BY MigrateMoveEffect, Zenon
  <2>3. ticksLeft'[np] = PROC_QUANTUM /\ \A x \in Procs \ {np} : ticksLeft'[x] = ticksLeft[x]
    BY <2>0, <2>2, Zenon
  <2>4. used' = used
    BY <2>1, <1>UsedKept, Zenon
  <2>5. pc'[c] = "migrate" /\ state'[cproc'[c]] # "ZOMBIE" => (used[cproc[c]] <= Budget(cproc[c], cqueue[c][2]))'
    BY <2>1, <2>4, Zenon DEF OneShare, Budget
  <2>6. CASE Taken(q, 1, np)
    <3>1. Removed(np)
      BY <2>0, <2>6, TakenFacts, Zenon
    <3> QED BY <2>1, <2>3, <2>4, <2>5, <3>1, <1>ShareFrame, Zenon DEF Removed, In
  <2>7. ASSUME NEW nq \in Queues, Shifted(q, 1, np, nq), PlacedAt(nq, q[2] + 1, defaultLevel[np])
        PROVE  OneShare(c)'
    <3>1. Relocated(np, nq) /\ Contains(queue[q], np)
      BY <2>0, <2>1, <2>7, ShiftedFacts, Zenon
    <3>2. defaultLevel[np] <= q[2] /\ q[2] \in Levels
      BY <2>1, <3>1, InLevel, LevelTypes, Zenon
    <3>3. used[np] <= Budget(np, q[2]) /\ used[np] \in Nat
      <4>1. used[np] + ticksLeft[np] <= Budget(np, q[2]) /\ used[np] \in Nat /\ ticksLeft[np] \in 0..PROC_QUANTUM
        BY <2>1, <3>1, Zenon DEF OneShare, ShareIn, OneEpoch, QuantaInRange
      <4>2. Budget(np, q[2]) \in Nat
        BY <2>1, <3>2, LastBudget, Zenon
      <4> QED BY <4>1, <4>2, Quanta
    <3>4. ShareIn(nq, np)'
      BY <2>1, <2>3, <2>4, <2>7, <3>2, <3>3, <1>Moved, Zenon
    <3>5. /\ \A r \in Queues : Contains(queue'[r], np) => ShareIn(r, np)'
          /\ \A x \in Procs \ {np} : \A r \in Queues : Contains(queue'[r], x) => Contains(queue[r], x)
      BY <3>1, <3>4, Zenon DEF Relocated
    <3> QED BY <2>1, <2>3, <2>4, <2>5, <3>5, <1>ShareFrame, Zenon
  <2> QED BY <2>2, <2>6, <2>7, Zenon
<1>MigrateLast.
  ASSUME Record, MigrateLast(c)
  PROVE  OneShare(c)'
  <2> USE <1>MigrateLast
  <2>p. PICK p \in Procs : p = cproc[c]
    BY MigrateLastEffect, Zenon
  <2>q. PICK q \in Queues : q = cqueue[c]
    BY MigrateLastEffect, Zenon
  <2>0. Distinct(queue) /\ pc \in [CPUS -> Locations]
    BY Zenon DEF BaseInv, TypeOK, OneInv, Placed
  <2>1. /\ pc[c] = "migrate" /\ p \in Procs /\ q \in Queues /\ q[1] = active /\ queue[q] = << >>
        /\ ~In(queue, p) /\ Leave(c)
        /\ UNCHANGED <<state, ticksLeft, defaultLevel, levelTicks, active, reg, swapLevel>>
        /\ \/ state[p] = "ZOMBIE" /\ queue' = queue
           \/ /\ state[p] # "ZOMBIE"
              /\ \E nq \in Queues : queue' = enqueue_proc(queue, p, nq) /\ PlacedAt(nq, q[2] + 1, defaultLevel[p])
    BY <2>p, <2>q, MigrateLastEffect, Zenon
  <2>2. used' = used /\ pc'[c] = "sched"
    BY <2>0, <2>1, <1>UsedKept, Zenon DEF Leave, Goto
  <2>3. CASE state[p] = "ZOMBIE" /\ queue' = queue
    BY <2>1, <2>2, <2>3, <1>Calm, Zenon
  <2>4. ASSUME NEW nq \in Queues, state[p] # "ZOMBIE", queue' = enqueue_proc(queue, p, nq),
               PlacedAt(nq, q[2] + 1, defaultLevel[p])
        PROVE  OneShare(c)'
    <3>1. Relocated(p, nq)
      BY <2>0, <2>1, <2>4, JoinedFacts, Zenon
    <3>2. ticksLeft[p] = PROC_QUANTUM /\ defaultLevel[p] <= q[2]
      BY <2>1, <2>4, <2>p, <2>q, Zenon DEF OneEpoch, QuantaAtCpu
    <3>3. q[2] \in Levels
      BY <2>1, LevelTypes, Zenon
    <3>4. used[p] <= Budget(p, q[2]) /\ used[p] \in Nat
      BY <2>1, <2>4, <2>p, <2>q, Zenon DEF OneShare
    <3>5. ShareIn(nq, p)'
      BY <2>1, <2>2, <2>4, <3>2, <3>3, <3>4, <1>Moved, Zenon
    <3>6. /\ \A r \in Queues : Contains(queue'[r], p) => ShareIn(r, p)'
          /\ \A x \in Procs \ {p} : \A r \in Queues : Contains(queue'[r], x) => Contains(queue[r], x)
      BY <3>1, <3>5, Zenon DEF Relocated
    <3> QED BY <2>1, <2>2, <3>6, <1>ShareFrame, Zenon
  <2> QED BY <2>1, <2>3, <2>4, Zenon
<1>Deplete.
  ASSUME Record, Deplete(c)
  PROVE  OneShare(c)'
  <2> USE <1>Deplete
  <2>p. PICK p \in Procs : p = cproc[c]
    BY SwitchFacts, Zenon DEF Deplete
  <2>q. PICK q \in Queues : q = cqueue[c]
    BY SwitchFacts, Zenon DEF Deplete
  <2>1. /\ pc[c] = "switch" /\ pc'[c] = "migrate"
        /\ UNCHANGED <<procVars, levelVars, cproc, cqueue>>
    BY Zenon DEF Deplete, Goto, BaseInv, TypeOK
  <2>2. UNCHANGED <<state, ticksLeft, defaultLevel, queue, active>>
    BY <2>1, Zenon DEF procVars, levelVars
  <2>3. used' = used
    BY <2>1, <2>2, <1>UsedKept, Zenon
  <2>4. ASSUME state[p] # "ZOMBIE" PROVE used[p] <= Budget(p, q[2])
    <3>1. Contains(queue[q], p) /\ q[1] = active
      BY <2>1, <2>4, <2>p, <2>q, Zenon DEF OneInv, AtCpu
    <3>2. used[p] + ticksLeft[p] <= Budget(p, q[2]) /\ used[p] \in Nat /\ ticksLeft[p] \in 0..PROC_QUANTUM
      BY <3>1, Zenon DEF OneShare, ShareIn, OneEpoch, QuantaInRange
    <3>3. defaultLevel[p] <= q[2] /\ q[2] \in Levels
      BY <3>1, InLevel, LevelTypes, Zenon
    <3>4. Budget(p, q[2]) \in Nat
      BY <3>3, LastBudget, Zenon
    <3> QED BY <3>2, <3>4, Quanta
  <2>5. state'[cproc'[c]] # "ZOMBIE" => (used[cproc[c]] <= Budget(cproc[c], cqueue[c][2]))'
    BY <2>1, <2>2, <2>3, <2>4, <2>p, <2>q, Zenon DEF Budget
  <2>6. \A r \in Queues : Contains(queue'[r], p) => ShareIn(r, p)'
    BY <2>2, <2>3, Zenon DEF OneShare, ShareIn, Budget
  <2> QED BY <2>1, <2>2, <2>3, <2>5, <2>6, <1>ShareFrame, Zenon
<1>SwapSets.
  ASSUME Record, SwapSets(c)
  PROVE  OneShare(c)'
  <2> USE <1>SwapSets
  <2>1. /\ pc[c] = "sched" /\ pc'[c] = "swap" /\ active' = 1 - active /\ active \in {0, 1}
        /\ UNCHANGED <<procVars, queue>>
    BY Zenon DEF SwapSets, Goto, BaseInv, TypeOK
  <2>2. UNCHANGED <<ticksLeft, defaultLevel>> /\ active' # active
    BY <2>1 DEF procVars
  <2>3. used' = [p \in Procs |-> 0]
    BY <2>2, Zenon DEF Record
  <2>4. ASSUME NEW r \in Queues, NEW x \in Procs, Contains(queue'[r], x)
        PROVE  ShareIn(r, x)'
    <3>1. QuantaInLevel(c, r, x) /\ defaultLevel[x] <= r[2]
      BY <2>1, <2>4, InLevel, Zenon
    <3>2. r[1] = 1 - active => r[2] = defaultLevel[x] /\ ticksLeft[x] = PROC_QUANTUM
      BY <2>1, <3>1, Zenon DEF QuantaInLevel, FreshSet
    <3>3. defaultLevel[x] \in Nat /\ defaultLevel[x] \in Levels
      BY LevelTypes, Zenon
    <3>4. Budget(x, LEVELS - 1) \in Nat
      BY <3>3, LastBudget
    <3>5. Budget(x, defaultLevel[x]) = PROC_QUANTUM
      BY <3>3, Quanta DEF Budget
    <3>6. Budget(x, r[2])' = Budget(x, r[2]) /\ Budget(x, LEVELS - 1)' = Budget(x, LEVELS - 1)
      BY <2>2, Zenon DEF Budget
    <3>7. CASE r[1] = 1 - active
      <4>1. 0 + ticksLeft[x] <= Budget(x, r[2])
        BY <3>2, <3>5, <3>7, Quanta
      <4> QED BY <2>1, <2>2, <2>3, <3>6, <3>7, <4>1, Zenon DEF ShareIn
    <3>8. CASE r[1] # 1 - active
      BY <2>1, <2>2, <2>3, <3>4, <3>6, <3>8 DEF ShareIn
    <3> QED BY <3>7, <3>8, Zenon
  <2> QED BY <2>1, <2>3, <2>4, Zenon DEF OneShare
<1>SwapMove.
  ASSUME Record, SwapMove(c)
  PROVE  OneShare(c)'
  <2> USE <1>SwapMove
  <2>0. /\ ticksLeft \in [Procs -> Int] /\ Distinct(queue) /\ active \in {0, 1} /\ pc[c] = "swap"
        /\ defaultLevel \in [Procs -> Levels]
    BY Zenon DEF BaseInv, TypeOK, OneInv, Placed, SwapMove
  <2>1. PICK p \in Procs :
          /\ Shifted(<<1 - active, swapLevel>>, 1, p, <<active, defaultLevel[p]>>)
          /\ ticksLeft' = [ticksLeft EXCEPT ![p] = PROC_QUANTUM]
          /\ UNCHANGED <<state, defaultLevel, levelTicks, active, lock, pc, cproc, cqueue, reg, swapLevel>>
    BY SwapMoveEffect, Zenon
  <2>2. ticksLeft'[p] = PROC_QUANTUM /\ \A x \in Procs \ {p} : ticksLeft'[x] = ticksLeft[x]
    BY <2>0, <2>1, Zenon
  <2>3. Relocated(p, <<active, defaultLevel[p]>>)
    BY <2>0, <2>1, ShiftedFacts, Zenon
  <2>4. used' = used /\ used[p] = 0
    <3>1. used' = used
      BY <2>0, <2>1, <1>UsedKept, Zenon
    <3> QED BY <2>0, <3>1, Zenon DEF OneShare
  <2>5. Budget(p, defaultLevel[p])' = PROC_QUANTUM
    BY <2>0, <2>1, Quanta DEF Budget, Levels
  <2>6. ASSUME NEW r \in Queues, Contains(queue'[r], p) PROVE ShareIn(r, p)'
    <3>1. r = <<active, defaultLevel[p]>>
      BY <2>3, <2>6, Zenon DEF Relocated
    <3>2. r[1] = active' /\ Budget(p, r[2])' = PROC_QUANTUM
      BY <2>1, <2>5, <3>1, Zenon
    <3> QED BY <2>2, <2>4, <3>2, Quanta DEF ShareIn
  <2>7. \A x \in Procs \ {p} : \A r \in Queues : Contains(queue'[r], x) => Contains(queue[r], x)
    BY <2>3, Zenon DEF Relocated
  <2> QED BY <2>0, <2>1, <2>2, <2>4, <2>6, <2>7, <1>ShareFrame, Zenon
<1>ChargeStore.
  ASSUME Record, ChargeStore(c)
  PROVE  OneShare(c)'
  <2> USE <1>ChargeStore
  <2>0. ticksLeft \in [Procs -> Int] /\ pc \in [CPUS -> Locations] /\ Distinct(queue)
    BY Zenon DEF BaseInv, TypeOK, OneInv, Placed
  <2>1. pc[c] = "charge" /\ pc[c] \in OnProc
    BY Zenon DEF ChargeStore, OnProc
  <2>p. PICK p \in Procs : p = cproc[c]
    BY <2>1, OnProcFacts, Zenon
  <2>2. state[p] = "RUNNING" /\ reg[c][1] = ticksLeft[p]
    BY <2>1, <2>p, OnProcFacts DEF OneEpoch, QuantaAtCpu
  <2>3. /\ ticksLeft' = [ticksLeft EXCEPT ![p] = ticksLeft[p] - 1]
        /\ UNCHANGED <<state, defaultLevel, queue, active, cproc, cqueue>>
        /\ pc'[c] \notin {"charge", "migrate", "swap"}
    BY <2>0, <2>2, <2>p, Zenon DEF ChargeStore, Goto
  <2>4. \A x \in Procs : Charged(x) <=> x = p
    BY <2>1, <2>3, <2>p, Zenon DEF Charged, Only
  <2>5. used \in [Procs -> Nat] /\ \A x \in Procs : state[x] = "EMBRYO" => used[x] = 0
    BY Zenon DEF OneShare
  <2>6. /\ used' \in [Procs -> Nat] /\ used'[p] = used[p] + 1
        /\ \A x \in Procs \ {p} : used'[x] = used[x]
    BY <2>2, <2>3, <2>4, <2>5 DEF Record
  <2>7. ticksLeft'[p] = ticksLeft[p] - 1 /\ \A x \in Procs \ {p} : ticksLeft'[x] = ticksLeft[x]
    BY <2>0, <2>3, Zenon
  <2>8. ASSUME NEW r \in Queues, NEW x \in Procs, Contains(queue'[r], x)
        PROVE  ShareIn(r, x)'
    <3>1. ShareIn(r, x)
      BY <2>3, <2>8, Zenon DEF OneShare
    <3>2. Budget(x, r[2])' = Budget(x, r[2]) /\ Budget(x, LEVELS - 1)' = Budget(x, LEVELS - 1)
      BY <2>3, Zenon DEF Budget
    <3>3. CASE x = p
      <4>1. r = cqueue[c] /\ cqueue[c][1] = active
        <5>1. Contains(queue[cqueue[c]], p) /\ cqueue[c][1] = active /\ cqueue[c] \in Queues
          BY <2>1, <2>p, OnProcFacts, Zenon DEF OneInv, AtCpu
        <5> QED BY <2>0, <2>3, <2>8, <3>3, <5>1 DEF Distinct, Contains
      <4>2. used'[p] + ticksLeft'[p] = used[p] + ticksLeft[p]
        BY <2>0, <2>5, <2>6, <2>7
      <4> QED BY <2>3, <3>1, <3>2, <3>3, <4>1, <4>2, Zenon DEF ShareIn
    <3>4. CASE x # p
      BY <2>3, <2>6, <2>7, <3>1, <3>2, <3>4, Zenon DEF ShareIn
    <3> QED BY <3>3, <3>4, Zenon
  <2>9. \A x \in Procs : state'[x] = "EMBRYO" => used'[x] = 0
    BY <2>2, <2>3, <2>5, <2>6, Zenon
  <2> QED BY <2>3, <2>6, <2>8, <2>9, Zenon DEF OneShare
<1>allocproc.
  ASSUME Record, allocproc(c)
  PROVE  OneShare(c)'
  <2> USE <1>allocproc
  <2>0. ticksLeft \in [Procs -> Int] /\ state \in [Procs -> States] /\ defaultLevel \in [Procs -> Levels]
    BY Zenon DEF BaseInv, TypeOK
  <2>1. pc[c] = "run" /\ UNCHANGED <<queue, active, pc, cproc, cqueue>>
    BY Zenon DEF allocproc, InUser, levelVars, cpuVars
  <2>2. PICK np \in Procs :
          /\ state[np] = "UNUSED"
          /\ state' = [state EXCEPT ![np] = "EMBRYO"]
          /\ ticksLeft' = [ticksLeft EXCEPT ![np] = PROC_QUANTUM]
          /\ defaultLevel' = [defaultLevel EXCEPT ![np] = STARTING_LEVEL]
    BY Zenon DEF allocproc
  <2>3. /\ state'[np] = "EMBRYO"
        /\ \A x \in Procs \ {np} : ticksLeft'[x] = ticksLeft[x] /\ defaultLevel'[x] = defaultLevel[x] /\ state'[x] = state[x]
    BY <2>0, <2>2, Zenon
  <2>4. \A q \in Queues : ~Contains(queue[q], np)
    BY <2>2, Zenon DEF OneInv, Placed, Schedulable
  <2>5. \A x \in Procs : ~Charged(x)
    BY <2>1, Zenon DEF Charged, Only
  <2>6. used \in [Procs -> Nat] /\ \A x \in Procs : state[x] = "EMBRYO" => used[x] = 0
    BY Zenon DEF OneShare
  <2>7. used' \in [Procs -> Nat] /\ used'[np] = 0 /\ \A x \in Procs \ {np} : used'[x] = used[x]
    BY <2>1, <2>3, <2>5, <2>6, Zenon DEF Record
  <2>8. ASSUME NEW r \in Queues, NEW x \in Procs, Contains(queue'[r], x)
        PROVE  ShareIn(r, x)'
    <3>1. ShareIn(r, x) /\ x # np
      BY <2>1, <2>4, <2>8, Zenon DEF OneShare
    <3> QED BY <2>1, <2>3, <2>7, <3>1, Zenon DEF ShareIn, Budget
  <2> QED BY <2>1, <2>3, <2>6, <2>7, <2>8, Zenon DEF OneShare
<1>priofork.
  ASSUME NEW level \in Levels, Record, priofork(c, level)
  PROVE  OneShare(c)'
  <2> USE <1>priofork
  <2>0. state \in [Procs -> States] /\ defaultLevel \in [Procs -> Levels] /\ level \in Nat /\ Distinct(queue)
    BY DEF BaseInv, TypeOK, Levels, OneInv, Placed
  <2>1. PICK np \in Procs, nq \in Queues :
          /\ pc[c] = "run" /\ lock = NULL /\ cproc[c] \in Procs /\ state[cproc[c]] = "RUNNING"
          /\ state[np] = "EMBRYO" /\ ~In(queue, np) /\ queue' = enqueue_proc(queue, np, nq)
          /\ state' = [state EXCEPT ![np] = "RUNNABLE"]
          /\ defaultLevel' = [defaultLevel EXCEPT ![np] = level]
          /\ PlacedAt(nq, level, level)
          /\ UNCHANGED <<ticksLeft, levelTicks, active, cpuVars>>
    BY prioforkEffect, Zenon
  <2>2. /\ defaultLevel'[np] = level
        /\ \A x \in Procs \ {np} : defaultLevel'[x] = defaultLevel[x]
        /\ \A x \in Procs : state'[x] = "EMBRYO" => state[x] = "EMBRYO"
    BY <2>0, <2>1, Zenon
  <2>3. Relocated(np, nq)
    BY <2>0, <2>1, JoinedFacts, Zenon
  <2>4. used' = used /\ used[np] = 0 /\ ticksLeft[np] = PROC_QUANTUM /\ pc' = pc
    <3>1. used' = used
      BY <2>1, <2>2, <1>UsedKept, Zenon
    <3> QED BY <2>1, <3>1, Zenon DEF OneEpoch, OneShare, cpuVars
  <2>5. ShareIn(nq, np)'
    <3>1. nq[2] \in Nat /\ LEVELS - 1 \in Nat /\ level <= LEVELS - 1
      BY LevelTypes, ConstantsAssumption DEF ConstantsAssumption, Levels
    <3>2. nq[1] = active => level <= nq[2]
      BY <2>1, Zenon DEF PlacedAt
    <3>3. Budget(np, nq[2])' = Bud(level, nq[2]) /\ Budget(np, LEVELS - 1)' = Bud(level, LEVELS - 1)
      BY <2>2, Zenon DEF Budget, Bud
    <3>4. PICK m \in Nat : m = LEVELS - 1
      BY <3>1, Zenon
    <3>5. 0 <= Bud(level, m)
      BY <2>0, <3>1, <3>4, BudFacts
    <3>6. level <= nq[2] => PROC_QUANTUM <= Bud(level, nq[2])
      BY <2>0, <3>1, BudFacts, Zenon
    <3> QED BY <2>1, <2>4, <3>2, <3>3, <3>4, <3>5, <3>6, Quanta DEF ShareIn
  <2>6. /\ \A r \in Queues : Contains(queue'[r], np) => ShareIn(r, np)'
        /\ \A x \in Procs \ {np} : \A r \in Queues : Contains(queue'[r], x) => Contains(queue[r], x)
    BY <2>3, <2>5, Zenon DEF Relocated
  <2> QED BY <2>1, <2>2, <2>4, <2>6, <1>ShareFrame, Zenon
\* The steps that move nobody down, and exit().
<1>Other.
  ASSUME NEW ch, NEW t \in Procs, Record,
         \/ Dispatch(c) \/ SwapNext(c) \/ exit(c)
         \/ TimerInterrupt(c) \/ TimerIdle(c) \/ TimerKilled(c) \/ ChargeLoad(c)
         \/ yield(c) \/ ForkFail(c) \/ StartExit(c) \/ wait(c) \/ SyscallReturn(c)
         \/ sleep(c, ch) \/ wakeup(c, ch) \/ kill(c, t)
  PROVE  OneShare(c)'
  <2> USE <1>Other
  <2>0. /\ queue \in [Queues -> Seq(Procs)] /\ Distinct(queue) /\ pc \in [CPUS -> Locations]
        /\ state \in [Procs -> States]
    BY Zenon DEF BaseInv, TypeOK, OneInv, Placed
  <2>1. CASE Dispatch(c)
    <3>1. /\ pc[c] = "sched" /\ pc'[c] \in {"run", "wait"} /\ UNCHANGED <<ticksLeft, defaultLevel, queue, active>>
          /\ \A x \in Procs : state'[x] = "EMBRYO" => state[x] = "EMBRYO"
      BY <2>0, <2>1, Zenon DEF Dispatch, Goto, levelVars
    <3> QED BY <3>1, <1>Calm, Zenon
  <2>2. CASE SwapNext(c)
    <3>1. pc[c] = "swap" /\ pc'[c] \in {"swap", "sched"} /\ UNCHANGED <<state, ticksLeft, defaultLevel, queue, active>>
      BY <2>0, <2>2, Zenon DEF SwapNext, Goto, procVars
    <3> QED BY <3>1, <1>Calm, Zenon
  <2>3. CASE exit(c)
    <3> DEFINE p == cproc[c]
               q == cqueue[c]
    <3>1. /\ pc[c] = "run" /\ p \in Procs /\ q \in Queues /\ pc' = [pc EXCEPT ![c] = "switch"]
          /\ (\E i : Taken(q, i, p)) /\ UNCHANGED <<ticksLeft, defaultLevel, active>>
      BY <2>3, exitEffect, Zenon
    <3>2. \A r \in Procs : state'[r] = "EMBRYO" => state[r] = "EMBRYO"
      BY <2>3, exitEffect, Zenon
    <3>3. Removed(p)
      BY <2>0, <3>1, TakenFacts, Zenon
    <3>4. \A x \in Procs : \A r \in Queues : Contains(queue'[r], x) => Contains(queue[r], x)
      BY <3>3, Zenon DEF Removed, In
    <3>5. pc'[c] = "switch"
      BY <2>0, <3>1, Zenon
    <3> QED BY <3>1, <3>2, <3>4, <3>5, <1>Calm, Zenon
  <2>4. CASE TimerInterrupt(c) \/ TimerIdle(c) \/ TimerKilled(c) \/ ChargeLoad(c)
    BY <2>4, ClockCalm, <1>Calm, Zenon
  <2>5. CASE \/ yield(c) \/ ForkFail(c) \/ StartExit(c) \/ wait(c) \/ SyscallReturn(c)
             \/ sleep(c, ch) \/ wakeup(c, ch) \/ kill(c, t)
    BY <2>5, ProcessCalm, <1>Calm, Zenon
  <2> QED BY <2>1, <2>2, <2>3, <2>4, <2>5, Zenon
<1>0. initproc \in Procs
  BY ConstantsAssumption DEF ConstantsAssumption, Procs, initproc
<1>1. ASSUME UNCHANGED <<vars, used>> PROVE OneShare(c)'
  BY <1>1, Zenon DEF vars, OneShare, ShareIn, Budget
<1>2. CASE UNCHANGED hvars
  BY <1>1, <1>2, Zenon DEF hvars
<1>3. CASE HNext
  <2>1. Record /\ (SchedulerStep(c) \/ ClockStep(c) \/ ProcessStep(c) \/ UNCHANGED vars)
    BY <1>3, Zenon DEF HNext, Next, Only, Frozen
  <2>2. CASE SchedulerStep(c)
    <3>1. (Dispatch(c) \/ SwapNext(c)) => OneShare(c)'
      BY <1>0, <2>1, <1>Other, Zenon
    <3> QED BY <2>1, <2>2, <3>1, <1>SwapSets, <1>SwapMove, <1>Requeue,
               RequeuePanicOne, <1>Deplete, <1>MigrateMove, <1>MigrateLast, Zenon DEF SchedulerStep
  <2>3. CASE ClockStep(c)
    <3>1. (TimerInterrupt(c) \/ TimerIdle(c) \/ TimerKilled(c) \/ ChargeLoad(c)) => OneShare(c)'
      BY <1>0, <2>1, <1>Other, Zenon
    <3> QED BY <2>1, <2>3, <3>1, <1>ChargeStore, Zenon DEF ClockStep
  <2>4. CASE ProcessStep(c)
    <3>1. (yield(c) \/ ForkFail(c) \/ StartExit(c) \/ wait(c) \/ SyscallReturn(c) \/ exit(c)) => OneShare(c)'
      BY <1>0, <2>1, <1>Other, Zenon
    <3>2. \A ch \in Chans : sleep(c, ch) \/ wakeup(c, ch) => OneShare(c)'
      BY <1>0, <2>1, <1>Other, Zenon
    <3>3. \A t \in Procs : kill(c, t) => OneShare(c)'
      BY <2>1, <1>Other, Zenon
    <3> QED BY <2>1, <2>4, <3>1, <3>2, <3>3, <1>allocproc, <1>priofork, Zenon DEF ProcessStep
  <2>5. CASE UNCHANGED vars
    <3>1. used' = used
      <4>1. active' = active /\ state' = state /\ \A p : ~Charged(p)
        BY <2>5, Zenon DEF vars, Charged
      <4>2. used \in [Procs -> Nat] /\ \A p \in Procs : state[p] = "EMBRYO" => used[p] = 0
        BY Zenon DEF OneShare
      <4> QED BY <2>1, <4>1, <4>2, Zenon DEF Record
    <3> QED BY <1>1, <2>5, <3>1, Zenon
  <2> QED BY <2>1, <2>2, <2>3, <2>4, <2>5, Zenon
<1> QED BY <1>2, <1>3, Zenon

\* The inductive invariant of the shares, on one CPU.
THEOREM ShareInductive ==
  ASSUME \A c, d \in CPUS : c = d
  PROVE  HSpec => [](UniInv /\ EpochInv /\ ShareInv)
<1>1. (ShareInv <=> OneShare(BootCpu)) /\ (ShareInv' <=> OneShare(BootCpu)')
  BY TheCpu, ShareOnly, Zenon
<1>2. HInit => ShareInv
  BY <1>1, TheCpu, InitShare, Zenon
<1>3. UniInv /\ EpochInv /\ ShareInv /\ [HNext]_hvars => ShareInv'
  BY <1>1, TheCpu, ShareNext, Zenon
<1> QED BY <1>2, <1>3, HistoryEpochs, PTL DEF HSpec

\* The share of a process that is in a queue, or on its way to one.
LEMMA ShareBound ==
  ASSUME NEW c \in CPUS, BaseInv, OneInv(c), OneEpoch(c), OneShare(c), NEW p \in Procs, state[p] \in Schedulable
  PROVE  used[p] <= PROC_QUANTUM * (LEVELS - defaultLevel[p])
<1>0. used[p] \in Nat /\ ticksLeft[p] \in 0..PROC_QUANTUM /\ defaultLevel[p] \in Nat /\ LEVELS \in Nat
  BY LevelTypes, ConstantsAssumption, Zenon DEF ConstantsAssumption, OneShare, OneEpoch, QuantaInRange
<1>1. LEVELS - 1 - defaultLevel[p] + 1 = LEVELS - defaultLevel[p]
  BY <1>0
<1>2. Budget(p, LEVELS - 1) = PROC_QUANTUM * (LEVELS - defaultLevel[p])
  BY <1>1, Zenon DEF Budget
<1>3. CASE In(queue, p)
  <2>1. PICK q \in Queues : Contains(queue[q], p)
    BY <1>3, Zenon DEF In
  <2>2. ShareIn(q, p)
    BY <2>1, Zenon DEF OneShare
  <2>3. defaultLevel[p] <= q[2] /\ q[2] \in Levels
    BY <2>1, InLevel, LevelTypes, Zenon
  <2>4. Budget(p, q[2]) <= Budget(p, LEVELS - 1) /\ Budget(p, q[2]) \in Nat /\ Budget(p, LEVELS - 1) \in Nat
    BY <2>3, LastBudget, Zenon
  <2>5. used[p] <= Budget(p, LEVELS - 1)
    BY <1>0, <2>2, <2>4, Quanta DEF ShareIn
  <2> QED BY <1>2, <2>5, Zenon
<1>4. CASE pc[c] = "migrate" /\ cproc[c] = p
  <2>1. state[p] # "ZOMBIE" /\ cqueue[c] \in Queues
    BY <1>4, SwitchFacts, Zenon DEF Schedulable
  <2>2. used[p] <= Budget(p, cqueue[c][2]) /\ defaultLevel[p] <= cqueue[c][2]
    BY <1>4, <2>1, Zenon DEF OneShare, OneEpoch, QuantaAtCpu
  <2>3. cqueue[c][2] \in Levels
    BY <2>1, LevelTypes, Zenon
  <2>4. /\ Budget(p, cqueue[c][2]) <= Budget(p, LEVELS - 1)
        /\ Budget(p, cqueue[c][2]) \in Nat /\ Budget(p, LEVELS - 1) \in Nat
    BY <2>2, <2>3, LastBudget, Zenon
  <2>5. used[p] <= Budget(p, LEVELS - 1)
    BY <1>0, <2>2, <2>4
  <2> QED BY <1>2, <2>5, Zenon
<1> QED BY <1>3, <1>4, Zenon DEF OneInv, Placed

\* Between two set swaps a process is charged at most one quantum on each
\* level from its default level down, whatever the scheduler, the clock
\* interrupt and the system calls do in between, and no quantum goes below 0.
THEOREM ShareBounded ==
  ASSUME \A c, d \in CPUS : c = d
  PROVE  HSpec => []BoundedShare
<1>1. ShareInv <=> OneShare(BootCpu)
  BY TheCpu, ShareOnly, Zenon
<1>2. UniInv /\ EpochInv /\ ShareInv => BoundedShare
  BY <1>1, TheCpu, ShareBound, Zenon DEF BoundedShare, EpochInv
<1> QED BY <1>2, ShareInductive, PTL

-----------------------------------------------------------------------------
(* The order of a level *)

LEMMA InFrontWithout ==
  ASSUME NEW s \in Seq(Procs), NEW i \in 1..Len(s), NEW a, NEW b, InFront(Without(s, i), a, b)
  PROVE  InFront(s, a, b)
<1>1. Len(s) \in Nat /\ Len(Without(s, i)) = Len(s) - 1
  <2>1. Without(s, i) \in Seq(Procs) /\ DOMAIN Without(s, i) = 1..(Len(s) - 1)
    BY DEF Without
  <2> QED BY <2>1
<1>2. PICK k, l \in 1..(Len(s) - 1) : k < l /\ Without(s, i)[k] = a /\ Without(s, i)[l] = b
  BY <1>1, Zenon DEF InFront
<1>3. \A j \in 1..(Len(s) - 1) : Without(s, i)[j] = IF j < i THEN s[j] ELSE s[j + 1]
  BY <1>1, Zenon DEF Without
<1> DEFINE up(j) == IF j < i THEN j ELSE j + 1
<1>4. up(k) \in 1..Len(s) /\ up(l) \in 1..Len(s) /\ up(k) < up(l)
  BY <1>1, <1>2
<1>5. s[up(k)] = a /\ s[up(l)] = b
  BY <1>2, <1>3, Zenon
<1> HIDE DEF up
<1> QED BY <1>4, <1>5, Zenon DEF InFront

LEMMA InFrontAppend ==
  ASSUME NEW s \in Seq(Procs), NEW p \in Procs, NEW a, NEW b, InFront(Append(s, p), a, b)
  PROVE  InFront(s, a, b) \/ (b = p /\ Contains(s, a))
<1>1. PICK k, l \in 1..(Len(s) + 1) : k < l /\ Append(s, p)[k] = a /\ Append(s, p)[l] = b
  BY DEF InFront
<1>2. Len(s) \in Nat /\ k \in 1..Len(s) /\ s[k] = a
  BY <1>1
<1>3. CASE l = Len(s) + 1
  BY <1>1, <1>2, <1>3 DEF Contains
<1>4. CASE l # Len(s) + 1
  <2>1. l \in 1..Len(s) /\ s[l] = b
    BY <1>1, <1>2, <1>4
  <2> QED BY <1>1, <1>2, <2>1, Zenon DEF InFront
<1> QED BY <1>3, <1>4, Zenon

LEMMA InFrontOnce ==
  ASSUME NEW Q \in [Queues -> Seq(Procs)], Distinct(Q), NEW q \in Queues, NEW a, NEW b, InFront(Q[q], a, b)
  PROVE  /\ Contains(Q[q], a) /\ Contains(Q[q], b) /\ a # b
         /\ \A r \in Queues : Contains(Q[r], a) \/ Contains(Q[r], b) => r = q
         /\ ~Ahead(Q, b, a)
<1>1. PICK i, j \in 1..Len(Q[q]) : i < j /\ Q[q][i] = a /\ Q[q][j] = b
  BY Zenon DEF InFront
<1>2. Contains(Q[q], a) /\ Contains(Q[q], b)
  BY <1>1, Zenon DEF Contains
<1>3. \A r \in Queues : Contains(Q[r], a) \/ Contains(Q[r], b) => r = q
  BY <1>1, Zenon DEF Contains, Distinct
<1>4. i \in Nat /\ j \in Nat
  OBVIOUS
<1>5. a # b
  BY <1>1, <1>4 DEF Distinct
<1>6. ASSUME NEW r \in Queues, InFront(Q[r], b, a) PROVE FALSE
  <2>1. PICK k, l \in 1..Len(Q[r]) : k < l /\ Q[r][k] = b /\ Q[r][l] = a
    BY <1>6, Zenon DEF InFront
  <2>2. k = j /\ l = i
    BY <1>1, <2>1 DEF Distinct
  <2> QED BY <1>1, <1>4, <2>1, <2>2
<1> QED BY <1>2, <1>3, <1>5, <1>6, Zenon DEF Ahead

\* A process that moves only gets behind others.
LEMMA ShiftedOrder ==
  ASSUME BaseInv, Distinct(queue), NEW q, NEW i, NEW p \in Procs, NEW nq, Shifted(q, i, p, nq)
  PROVE  \A r \in Queues : \A a, b \in Procs : InFront(queue'[r], a, b) => InFront(queue[r], a, b) \/ (r = nq /\ b = p)
<1> SUFFICES ASSUME NEW r \in Queues, NEW a \in Procs, NEW b \in Procs, InFront(queue'[r], a, b)
             PROVE  InFront(queue[r], a, b) \/ (r = nq /\ b = p)
  BY Zenon
<1> DEFINE Q == unqueue_proc(queue, q, i)
<1>1. queue \in [Queues -> Seq(Procs)] /\ q \in Queues /\ nq \in Queues /\ i \in 1..Len(queue[q])
  BY Zenon DEF BaseInv, TypeOK, Shifted
<1>2. Q \in [Queues -> Seq(Procs)]
  BY <1>1, Dequeue, Zenon
<1>3. Q[r] = queue[r] \/ (r = q /\ Q[r] = Without(queue[q], i))
  BY <1>1, Zenon DEF unqueue_proc
<1>4. queue' = enqueue_proc(Q, p, nq)
  BY Zenon DEF Shifted
<1> HIDE DEF Q
<1>5. queue'[r] = Q[r] \/ (r = nq /\ queue'[r] = Append(Q[r], p))
  BY <1>1, <1>2, <1>4, Zenon DEF enqueue_proc
<1>6. InFront(Q[r], a, b) \/ (r = nq /\ b = p)
  BY <1>2, <1>5, InFrontAppend, Zenon
<1>7. queue[q] \in Seq(Procs)
  BY <1>1, Zenon
<1>8. InFront(Q[r], a, b) => InFront(queue[r], a, b)
  BY <1>1, <1>3, <1>7, InFrontWithout, Zenon
<1> QED BY <1>6, <1>8, Zenon

LEMMA JoinedOrder ==
  ASSUME BaseInv, NEW p \in Procs, NEW nq \in Queues, queue' = enqueue_proc(queue, p, nq)
  PROVE  \A r \in Queues : \A a, b \in Procs : InFront(queue'[r], a, b) => InFront(queue[r], a, b) \/ (r = nq /\ b = p)
<1> SUFFICES ASSUME NEW r \in Queues, NEW a \in Procs, NEW b \in Procs, InFront(queue'[r], a, b)
             PROVE  InFront(queue[r], a, b) \/ (r = nq /\ b = p)
  BY Zenon
<1>1. queue \in [Queues -> Seq(Procs)]
  BY Zenon DEF BaseInv, TypeOK
<1>2. queue'[r] = queue[r] \/ (r = nq /\ queue'[r] = Append(queue[r], p))
  BY <1>1, Zenon DEF enqueue_proc
<1> QED BY <1>1, <1>2, InFrontAppend, Zenon

LEMMA LeftOrder ==
  ASSUME BaseInv, NEW q, NEW i, NEW p, Taken(q, i, p)
  PROVE  \A r \in Queues : \A a, b \in Procs : InFront(queue'[r], a, b) => InFront(queue[r], a, b)
<1> SUFFICES ASSUME NEW r \in Queues, NEW a \in Procs, NEW b \in Procs, InFront(queue'[r], a, b)
             PROVE  InFront(queue[r], a, b)
  BY Zenon
<1>1. /\ queue \in [Queues -> Seq(Procs)] /\ queue[q] \in Seq(Procs) /\ q \in Queues
      /\ i \in 1..Len(queue[q]) /\ queue' = unqueue_proc(queue, q, i)
  BY Zenon DEF BaseInv, TypeOK, Taken
<1>2. queue'[r] = queue[r] \/ (r = q /\ queue'[r] = Without(queue[q], i))
  BY <1>1, Zenon DEF unqueue_proc
<1> QED BY <1>1, <1>2, InFrontWithout, Zenon

\* What c may do with ptable.lock.
LEMMA HeldSteps ==
  ASSUME NEW c \in CPUS, Only(c), BaseInv, OneInv(c), [Next]_vars, lock # NULL
  PROVE  /\ lock = c
         /\ \/ SwapMove(c) \/ MigrateMove(c) \/ Requeue(c) \/ MigrateLast(c)
            \/ SwapNext(c) \/ Deplete(c) \/ (wait(c) /\ pc[c] = "wait") \/ UNCHANGED vars
<1>1. lock = c /\ pc[c] \in Holding \cup Panics
  BY Zenon DEF Only, BaseInv, TypeOK, CpuInv
<1>2. pc[c] \notin {"sched", "run", "timer", "charge", "yield"}
  BY <1>1, Zenon DEF Holding, Panics, QueuePanics
<1>3. SchedulerStep(c) \/ ClockStep(c) \/ ProcessStep(c) \/ UNCHANGED vars
  BY Zenon DEF Next, Only, Frozen
<1>4. ~ClockStep(c)
  BY <1>2, Zenon DEF ClockStep, TimerInterrupt, TimerIdle, TimerKilled, ChargeLoad, ChargeStore
<1>5. ProcessStep(c) => wait(c) /\ pc[c] = "wait"
  BY <1>2, Zenon DEF ProcessStep, yield, allocproc, ForkFail, StartExit, exit, wait, SyscallReturn, priofork,
              sleep, wakeup, kill, InUser
<1>6. ~Dispatch(c) /\ ~SwapSets(c)
  BY <1>2, Zenon DEF Dispatch, SwapSets
<1> QED BY <1>1, <1>3, <1>4, <1>5, <1>6, RequeuePanicOne, Zenon DEF SchedulerStep

LEMMA OrderNext ==
  ASSUME NEW c \in CPUS, Only(c), BaseInv, OneInv(c), OneEpoch(c), OrderInv, [HNext]_hvars,
         queue' \in [Queues -> Seq(Procs)], Distinct(queue'), lock' \in {NULL, c}
  PROVE  OrderInv'
\* c takes the lock; the process that ran on it may leave its level.
<1>Take.
  ASSUME before = queue, before' = before,
         \A r \in Queues : \A a, b \in Procs : InFront(queue'[r], a, b) => InFront(queue[r], a, b),
         \A r \in Queues : \A a \in Procs : Contains(queue'[r], a) => Contains(queue[r], a),
         \A r \in Queues : \A a \in Procs \ {cproc'[c]} : Contains(queue[r], a) => Contains(queue'[r], a)
  PROVE  Held(c)'
  <2> USE <1>Take
  <2>0. queue \in [Queues -> Seq(Procs)] /\ Distinct(queue)
    BY Zenon DEF BaseInv, TypeOK, OneInv, Placed
  <2>1. ASSUME NEW a \in Procs, NEW b \in Procs, Ahead(queue, a, b) PROVE ~Ahead(queue', b, a)
    <3>1. ~Ahead(queue, b, a)
      BY <2>0, <2>1, InFrontOnce, Zenon DEF Ahead
    <3> QED BY <3>1, Zenon DEF Ahead
  <2>2. \A q \in Queues : \A a, b \in Procs \ {cproc'[c]} : InFront(queue[q], a, b) => Contains(queue'[q], b)
    BY <2>0, InFrontOnce, Zenon
  <2> QED BY <2>1, <2>2, Zenon DEF Held
\* c keeps the lock, and moves nobody but the process that ran on it.
<1>Keep.
  ASSUME Held(c), before' = before, cproc'[c] = cproc[c],
         \A r \in Queues : \A a, b \in Procs : InFront(queue'[r], a, b) => InFront(queue[r], a, b),
         \A r \in Queues : \A a \in Procs : Contains(queue'[r], a) => Contains(queue[r], a),
         \A r \in Queues : \A a \in Procs \ {cproc[c]} : Contains(queue[r], a) => Contains(queue'[r], a),
         \A r \in Queues : Shrinking(c, r)' => Shrinking(c, r)
  PROVE  Held(c)'
  <2> USE <1>Keep
  <2>1. \A a, b \in Procs : Ahead(queue', b, a) => Ahead(queue, b, a)
    BY Zenon DEF Ahead
  <2>2. \A a, b \in Procs : Ahead(before', a, b) /\ cproc'[c] # a => ~Ahead(queue', b, a)
    BY <2>1, Zenon DEF Held
  <2>3. \A q \in Queues : \A a, b \in Procs \ {cproc'[c]} :
          InFront(before'[q], a, b) /\ Contains(queue'[q], a) => Contains(queue'[q], b)
    BY Zenon DEF Held
  <2>4. \A q \in Queues : \A a \in Procs : Shrinking(c, q)' /\ Contains(queue'[q], a) => Contains(before'[q], a)
    BY Zenon DEF Held
  <2> QED BY <2>2, <2>3, <2>4, Zenon DEF Held
\* One round of a while-loop: the first entry of a level that shrinks goes to
\* the end of another one.
<1>Move.
  ASSUME Distinct(queue), Held(c), before' = before, cproc'[c] = cproc[c],
         before \in [Queues -> Seq(Procs)], Distinct(before), NEW q \in Queues, NEW p \in Procs,
         NEW nq \in Queues, Shifted(q, 1, p, nq), nq # q, p # cproc[c], Shrinking(c, q),
         ~Shrinking(c, nq)', ~Contains(queue[nq], cproc[c]),
         \A r \in Queues : Shrinking(c, r)' => Shrinking(c, r)
  PROVE  Held(c)'
  <2> USE <1>Move
  <2>0. /\ queue \in [Queues -> Seq(Procs)] /\ 1 \in 1..Len(queue[q]) /\ queue[q][1] = p
    BY Zenon DEF BaseInv, TypeOK, Shifted
  <2>1. Relocated(p, nq) /\ Contains(queue[q], p) /\ \A r \in Queues : Contains(queue[r], p) => r = q
    BY ShiftedFacts
  <2>2. Contains(before[q], p) /\ \A r \in Queues : Contains(before[r], p) => r = q
    <3>1. Contains(before[q], p)
      BY <2>1, Zenon DEF Held
    <3> QED BY <3>1 DEF Distinct, Contains
  <2>3. ASSUME NEW a \in Procs, NEW b \in Procs, Ahead(before, a, b), cproc[c] # a, Ahead(queue', b, a)
        PROVE  FALSE
    <3>1. PICK r \in Queues : InFront(queue'[r], b, a)
      BY <2>3, Zenon DEF Ahead
    <3>2. ~InFront(queue[r], b, a)
      BY <2>3, Zenon DEF Held, Ahead
    <3>0. \A s \in Queues : \A x, y \in Procs : InFront(queue'[s], x, y) => InFront(queue[s], x, y) \/ (s = nq /\ y = p)
      BY ShiftedOrder
    <3>3. r = nq /\ a = p
      BY <3>0, <3>1, <3>2, Zenon
    <3>4. PICK s \in Queues : InFront(before[s], a, b)
      BY <2>3, Zenon DEF Ahead
    <3>5. s = q /\ a # b
      BY <2>2, <3>3, <3>4, InFrontOnce, ZenonT(30)
    <3>6. Contains(queue'[nq], b)
      BY <3>1, <3>3, Zenon DEF InFront, Contains
    <3>7. Contains(queue[nq], b)
      BY <2>1, <3>3, <3>5, <3>6, Zenon DEF Relocated
    <3>8. b # cproc[c]
      BY <3>7, Zenon
    <3>9. Contains(queue[q], b)
      BY <2>1, <2>3, <3>3, <3>4, <3>5, <3>8, Zenon DEF Held
    <3> QED BY <3>7, <3>9 DEF Distinct, Contains
  <2>4. ASSUME NEW r \in Queues, NEW a \in Procs \ {cproc[c]}, NEW b \in Procs \ {cproc[c]},
               InFront(before[r], a, b), Contains(queue'[r], a)
        PROVE  Contains(queue'[r], b)
    <3>1. Contains(before[r], a) /\ Contains(before[r], b) /\ a # b /\ Ahead(before, a, b)
      BY <2>4, InFrontOnce, ZenonT(30) DEF Ahead
    <3>2. a # p
      BY <2>1, <2>2, <2>4, <3>1, Zenon DEF Relocated
    <3>3. Contains(queue[r], a)
      BY <2>1, <2>4, <3>2, Zenon DEF Relocated
    <3>4. Contains(queue[r], b)
      BY <2>4, <3>3, Zenon DEF Held
    <3>5. CASE b = p
      <4>1. r = q
        BY <2>1, <3>4, <3>5, Zenon
      <4>2. PICK j \in 1..Len(queue[q]) : queue[q][j] = a
        BY <3>3, <4>1, Zenon DEF Contains
      <4>3. j # 1 /\ Len(queue[q]) \in Nat
        BY <2>0, <3>2, <4>2
      <4>4. 1 < j
        BY <4>3
      <4>5. InFront(queue[q], b, a)
        BY <2>0, <3>5, <4>2, <4>4, Zenon DEF InFront
      <4>6. ~Ahead(queue, b, a)
        BY <3>1, Zenon DEF Held
      <4> QED BY <4>5, <4>6, Zenon DEF Ahead
    <3>6. CASE b # p
      BY <2>1, <3>4, <3>6, Zenon DEF Relocated
    <3> QED BY <3>5, <3>6, Zenon
  <2>5. ASSUME NEW r \in Queues, NEW a \in Procs, Shrinking(c, r)', Contains(queue'[r], a)
        PROVE  Contains(before[r], a)
    <3>1. r # nq
      BY <2>5, Zenon
    <3>2. a # p
      BY <2>1, <2>5, <3>1, Zenon DEF Relocated
    <3>3. Contains(queue[r], a)
      BY <2>1, <2>5, <3>2, Zenon DEF Relocated
    <3> QED BY <2>5, <3>3, Zenon DEF Held
  <2>6. \A a, b \in Procs : Ahead(before', a, b) /\ cproc'[c] # a => ~Ahead(queue', b, a)
    BY <2>3, Zenon
  <2>7. \A r \in Queues : \A a, b \in Procs \ {cproc'[c]} :
          InFront(before'[r], a, b) /\ Contains(queue'[r], a) => Contains(queue'[r], b)
    BY <2>4, Zenon
  <2> QED BY <2>5, <2>6, <2>7, Zenon DEF Held
<1>SwapMove.
  ASSUME lock = c, before' = before, SwapMove(c)
  PROVE  Held(c)'
  <2> USE <1>SwapMove
  <2>0. /\ Distinct(queue) /\ active \in {0, 1} /\ pc[c] = "swap" /\ swapLevel \in Levels
        /\ defaultLevel \in [Procs -> Levels]
    BY Zenon DEF BaseInv, TypeOK, OneInv, Placed, SwapMove
  <2>1. PICK p \in Procs :
          /\ Shifted(<<1 - active, swapLevel>>, 1, p, <<active, defaultLevel[p]>>)
          /\ UNCHANGED <<active, pc, cproc, cqueue>>
    BY SwapMoveEffect, Zenon
  <2>2. PICK q \in Queues : q = <<1 - active, swapLevel>>
    BY <2>1, Zenon DEF Shifted
  <2>3. PICK nq \in Queues : nq = <<active, defaultLevel[p]>>
    BY <2>1, Zenon DEF Shifted
  <2>4. cproc[c] = NULL /\ NULL \notin Procs
    BY <2>0, NullDistinct, Zenon DEF BaseInv, CpuInv, CpuLocal
  <2>5. ~Contains(queue[nq], cproc[c]) /\ p # cproc[c]
    <3>1. queue[nq] \in Seq(Procs)
      BY Zenon DEF BaseInv, TypeOK
    <3> QED BY <2>4, <3>1 DEF Contains
  <2>6. /\ Shrinking(c, q) /\ ~Shrinking(c, nq)' /\ nq # q
        /\ \A r \in Queues : Shrinking(c, r)' => Shrinking(c, r)
    BY <2>0, <2>1, <2>2, <2>3 DEF Shrinking
  <2>7. Held(c) /\ before \in [Queues -> Seq(Procs)] /\ Distinct(before)
    BY NullDistinct, Zenon DEF OrderInv
  <2>8. Shifted(q, 1, p, nq) /\ cproc'[c] = cproc[c]
    BY <2>1, <2>2, <2>3, Zenon
  <2> QED BY <2>0, <2>5, <2>6, <2>7, <2>8, <1>Move, Zenon
<1>MigrateMove.
  ASSUME lock = c, before' = before, MigrateMove(c)
  PROVE  Held(c)'
  <2> USE <1>MigrateMove
  <2>0. Distinct(queue) /\ queue \in [Queues -> Seq(Procs)]
    BY Zenon DEF BaseInv, TypeOK, OneInv, Placed
  <2>q. PICK q \in Queues : q = cqueue[c]
    BY MigrateMoveEffect, Zenon
  <2>1. pc[c] = "migrate" /\ UNCHANGED <<active, pc, cproc, cqueue>>
    BY <2>q, MigrateMoveEffect, Zenon
  <2>2. PICK np \in Procs :
           \/ np = cproc[c] /\ Taken(q, 1, np)
           \/ /\ np # cproc[c]
              /\ \E nq \in Queues : Shifted(q, 1, np, nq) /\ PlacedAt(nq, q[2] + 1, defaultLevel[np])
    BY <2>q, MigrateMoveEffect, Zenon
  <2>3. Held(c) /\ before \in [Queues -> Seq(Procs)] /\ Distinct(before)
    BY NullDistinct, Zenon DEF OrderInv
  <2>4. \A r \in Queues : Shrinking(c, r)' => Shrinking(c, r)
    BY <2>1, Zenon DEF Shrinking
  <2>5. CASE np = cproc[c] /\ Taken(q, 1, np)
    <3>1. Removed(np)
      BY <2>0, <2>5, TakenFacts, Zenon
    <3>2. \A r \in Queues : \A a, b \in Procs : InFront(queue'[r], a, b) => InFront(queue[r], a, b)
      BY <2>5, LeftOrder, Zenon
    <3> QED BY <2>1, <2>3, <2>4, <2>5, <3>1, <3>2, <1>Keep, Zenon DEF Removed, In
  <2>6. ASSUME np # cproc[c], NEW nq \in Queues, Shifted(q, 1, np, nq), PlacedAt(nq, q[2] + 1, defaultLevel[np])
        PROVE  Held(c)'
    <3>1. nq # q
      BY <2>1, <2>6, <2>q DEF PlacedAt, OneEpoch, QuantaAtCpu
    <3>2. ~Contains(queue[nq], cproc[c])
      BY <2>1, <2>q, <3>1, Zenon DEF OneInv, AtCpu
    <3>3. Shrinking(c, q) /\ ~Shrinking(c, nq)'
      BY <2>1, <2>q, <3>1, Zenon DEF Shrinking
    <3> QED BY <2>0, <2>1, <2>3, <2>4, <2>6, <3>1, <3>2, <3>3, <1>Move, Zenon
  <2> QED BY <2>2, <2>5, <2>6, Zenon
<1>exit.
  ASSUME before = queue, before' = before, exit(c)
  PROVE  Held(c)'
  <2> USE <1>exit
  <2>0. queue \in [Queues -> Seq(Procs)] /\ Distinct(queue)
    BY Zenon DEF BaseInv, TypeOK, OneInv, Placed
  <2>p. PICK p \in Procs : p = cproc[c]
    BY exitEffect, Zenon
  <2>q. PICK q \in Queues : q = cqueue[c]
    BY exitEffect, Zenon
  <2>1. (\E i : Taken(q, i, p)) /\ cproc' = cproc
    BY <2>p, <2>q, exitEffect, Zenon
  <2>2. PICK i : Taken(q, i, p)
    BY <2>1, Zenon
  <2>3. Removed(p)
    BY <2>0, <2>2, TakenFacts, Zenon
  <2>4. \A r \in Queues : \A a, b \in Procs : InFront(queue'[r], a, b) => InFront(queue[r], a, b)
    BY <2>2, LeftOrder, Zenon
  <2> QED BY <2>1, <2>3, <2>4, <2>p, <1>Take, Zenon DEF Removed, In
<1>0. c # NULL /\ pc \in [CPUS -> Locations]
  BY NullDistinct, Zenon DEF BaseInv, TypeOK
<1>1. CASE UNCHANGED hvars
  BY <1>1, Zenon DEF hvars, vars, OrderInv, Held, Shrinking
<1>2. CASE HNext /\ lock' = NULL
  BY <1>0, <1>2, Zenon DEF HNext, Record, OrderInv
<1>3. CASE HNext /\ lock' # NULL
  <2>1. before' = before /\ lock' = c /\ before' \in [Queues -> Seq(Procs)] /\ Distinct(before')
    BY <1>0, <1>3, Zenon DEF HNext, Record, OrderInv
  <2>2. [Next]_vars
    BY HistorySteps, Zenon
  <2>3. CASE lock = NULL
    <3>1. before = queue
      BY <2>3, Zenon DEF OrderInv
    <3>2. queue' = queue \/ exit(c)
      <4>1. ~SwapMove(c) /\ ~MigrateMove(c) /\ ~Requeue(c) /\ ~MigrateLast(c)
        <5>1. pc[c] \notin Holding
          BY <2>3, LockFreeFacts, Zenon
        <5> QED BY <5>1, Zenon DEF SwapMove, MigrateMove, Requeue, MigrateLast, Holding
      <4>2. \A level \in Levels : priofork(c, level) => lock' = NULL
        BY prioforkEffect, Zenon DEF cpuVars
      <4> QED BY <1>0, <2>1, <2>2, <4>1, <4>2, QueueSteps, Zenon
    <3>3. ASSUME queue' = queue PROVE Held(c)'
      BY <2>1, <3>1, <3>3, <1>Take, Zenon
    <3>4. ASSUME exit(c) PROVE Held(c)'
      BY <2>1, <3>1, <3>4, <1>exit, Zenon
    <3>5. Held(c)'
      BY <3>2, <3>3, <3>4, Zenon
    <3> QED BY <1>0, <2>1, <3>5, Zenon DEF OrderInv
  <2>4. CASE lock # NULL
    <3>1. /\ lock = c
          /\ \/ SwapMove(c) \/ MigrateMove(c) \/ Requeue(c) \/ MigrateLast(c)
             \/ SwapNext(c) \/ Deplete(c) \/ (wait(c) /\ pc[c] = "wait") \/ UNCHANGED vars
      BY <2>2, <2>4, HeldSteps, Zenon
    <3>2. ~Requeue(c) /\ ~MigrateLast(c)
      BY <1>3, RequeueEffect, MigrateLastEffect, Zenon DEF Leave
    <3>3. ASSUME SwapNext(c) \/ Deplete(c) \/ (wait(c) /\ pc[c] = "wait") \/ UNCHANGED vars
          PROVE  Held(c)'
      <4>1. queue' = queue /\ cproc' = cproc
        BY <3>3, Zenon DEF SwapNext, Deplete, wait, vars, levelVars
      <4>2. \A r \in Queues : Shrinking(c, r)' => Shrinking(c, r)
        <5>1. CASE SwapNext(c)
          BY <1>0, <1>3, <5>1, Zenon DEF SwapNext, Shrinking
        <5>2. CASE Deplete(c)
          BY <5>2, Zenon DEF Deplete, Shrinking
        <5>3. CASE pc[c] = "wait"
          BY <5>3, Zenon DEF Shrinking
        <5>4. CASE UNCHANGED vars
          BY <5>4, Zenon DEF vars, Shrinking
        <5> QED BY <3>3, <5>1, <5>2, <5>3, <5>4, Zenon
      <4>3. Held(c)
        BY <2>4, <3>1, Zenon DEF OrderInv
      <4> QED BY <2>1, <4>1, <4>2, <4>3, <1>Keep, Zenon
    <3>4. Held(c)'
      BY <2>1, <3>1, <3>2, <3>3, <1>SwapMove, <1>MigrateMove, Zenon
    <3> QED BY <1>0, <2>1, <3>4, Zenon DEF OrderInv
  <2> QED BY <2>3, <2>4, Zenon
<1> QED BY <1>1, <1>2, <1>3, Zenon

\* The inductive invariant of the order, on one CPU.
THEOREM OrderInductive ==
  ASSUME \A c, d \in CPUS : c = d
  PROVE  HSpec => [](UniInv /\ EpochInv /\ OrderInv)
<1>1. HInit /\ UniInv => OrderInv
  <2>1. UniInv => queue \in [Queues -> Seq(Procs)] /\ Distinct(queue)
    BY Zenon DEF UniInv, TypeOK, QueueInv
  <2> QED BY <2>1 DEF HInit, Init, OrderInv
<1>2. UniInv /\ EpochInv /\ OrderInv /\ [HNext]_hvars /\ UniInv' => OrderInv'
  <2>1. UniInv' => queue' \in [Queues -> Seq(Procs)] /\ Distinct(queue') /\ lock' \in {NULL, BootCpu}
    BY TheCpu, Zenon DEF UniInv, TypeOK, QueueInv, Only
  <2> QED BY <2>1, TheCpu, OrderNext, Zenon
<1> QED BY <1>1, <1>2, HistoryEpochs, PTL DEF HSpec

\* The last step of a critical section lets nobody overtake.
LEMMA NobodyOvertakes ==
  ASSUME NEW c \in CPUS, Only(c), BaseInv, OneInv(c), OrderInv, [HNext]_hvars,
         lock # NULL, lock' = NULL, NEW a \in Procs, NEW b \in Procs,
         Ahead(before, a, b), cproc[lock] # a
  PROVE  ~Ahead(queue', b, a)
<1>1. Distinct(queue)
  BY Zenon DEF OneInv, Placed
<1>2. /\ lock = c
      /\ \/ SwapMove(c) \/ MigrateMove(c) \/ Requeue(c) \/ MigrateLast(c)
         \/ SwapNext(c) \/ Deplete(c) \/ (wait(c) /\ pc[c] = "wait") \/ UNCHANGED vars
  BY <1>1, HistorySteps, HeldSteps, Zenon
<1>3. ~Ahead(queue, b, a)
  BY <1>2, Zenon DEF OrderInv, Held
<1>4. CASE queue' = queue
  BY <1>3, <1>4, Zenon
<1>5. ASSUME NEW p \in Procs, NEW nq, p # a,
             \A r \in Queues : \A x, y \in Procs : InFront(queue'[r], x, y) => InFront(queue[r], x, y) \/ (r = nq /\ y = p)
      PROVE  ~Ahead(queue', b, a)
  BY <1>3, <1>5, Zenon DEF Ahead
<1>6. CASE Requeue(c)
  <2>1. CASE queue' # queue
    <3>1. PICK nq \in Queues : \E i \in 1..Len(queue[cqueue[c]]) : Shifted(cqueue[c], i, cproc[c], nq)
      BY <1>1, <1>6, <2>1, RequeueEffect, Zenon
    <3>2. cproc[c] \in Procs /\ cproc[c] # a
      BY <1>1, <1>2, <1>6, RequeueEffect, Zenon
    <3>3. \A r \in Queues : \A x, y \in Procs :
            InFront(queue'[r], x, y) => InFront(queue[r], x, y) \/ (r = nq /\ y = cproc[c])
      BY <1>1, <3>1, <3>2, ShiftedOrder
    <3> QED BY <1>5, <3>2, <3>3, Zenon
  <2> QED BY <1>4, <2>1, Zenon
<1>7. CASE MigrateLast(c)
  <2>1. CASE queue' # queue
    <3>1. PICK nq \in Queues : queue' = enqueue_proc(queue, cproc[c], nq)
      BY <1>1, <1>7, <2>1, MigrateLastEffect, Zenon
    <3>2. cproc[c] \in Procs /\ cproc[c] # a
      BY <1>1, <1>2, <1>7, MigrateLastEffect, Zenon
    <3>3. \A r \in Queues : \A x, y \in Procs :
            InFront(queue'[r], x, y) => InFront(queue[r], x, y) \/ (r = nq /\ y = cproc[c])
      BY <1>1, <3>1, <3>2, JoinedOrder, Zenon
    <3> QED BY <1>5, <3>2, <3>3, Zenon
  <2> QED BY <1>4, <2>1, Zenon
<1>8. ~SwapMove(c) /\ ~MigrateMove(c)
  BY <1>1, SwapMoveEffect, MigrateMoveEffect, Zenon
<1>9. (SwapNext(c) \/ Deplete(c) \/ wait(c) \/ UNCHANGED vars) => queue' = queue
  BY Zenon DEF SwapNext, Deplete, wait, vars, levelVars
<1> QED BY <1>2, <1>4, <1>6, <1>7, <1>8, <1>9, Zenon

\* Levels are FIFO: no critical section of ptable.lock makes a process overtake
\* another one of its level, except the one that just ran.
THEOREM Fifo ==
  ASSUME \A c, d \in CPUS : c = d
  PROVE  HSpec => NoOvertaking
<1> DEFINE Fair == lock # NULL /\ lock' = NULL =>
                     \A a, b \in Procs : Ahead(before, a, b) /\ cproc[lock] # a => ~Ahead(queue', b, a)
<1>1. UniInv /\ OrderInv /\ [HNext]_hvars => Fair
  BY TheCpu, NobodyOvertakes, Zenon
<1>2. NoOvertaking <=> [][Fair]_hvars
  BY PTL DEF NoOvertaking
<1> QED BY <1>1, <1>2, OrderInductive, PTL DEF HSpec
=============================================================================
