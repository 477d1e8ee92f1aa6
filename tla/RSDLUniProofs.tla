--------------------------- MODULE RSDLUniProofs ----------------------------
(*****************************************************************************)
(* Queues and levels on one CPU, the Makefile's default, for any number of   *)
(* processes and levels and any quanta: every step of proc.c and trap.c keeps *)
(* every process in one queue, and finds a place for it.                     *)
(*****************************************************************************)
EXTENDS RSDLProofs

-----------------------------------------------------------------------------
(* Queues *)

\* What is left after unqueue_proc: everything but the removed entry.
LEMMA Dequeue ==
  ASSUME NEW Q \in [Queues -> Seq(Procs)], Distinct(Q),
         NEW q \in Queues, NEW i \in 1..Len(Q[q])
  PROVE  /\ unqueue_proc(Q, q, i) \in [Queues -> Seq(Procs)]
         /\ Distinct(unqueue_proc(Q, q, i))
         /\ ~In(unqueue_proc(Q, q, i), Q[q][i])
         /\ \A p \in Procs \ {Q[q][i]} : \A r \in Queues :
              Contains(unqueue_proc(Q, q, i)[r], p) <=> Contains(Q[r], p)
<1> DEFINE R == unqueue_proc(Q, q, i)
<1>0. /\ Q[q] \in Seq(Procs) /\ Len(Q[q]) \in Nat
      /\ Without(Q[q], i) \in Seq(Procs)
      /\ Len(Without(Q[q], i)) = Len(Q[q]) - 1
      /\ \A j \in 1..(Len(Q[q]) - 1) :
              Without(Q[q], i)[j] = IF j < i THEN Q[q][j] ELSE Q[q][j + 1]
  BY WithoutSeq
<1>1. R \in [Queues -> Seq(Procs)] /\ R[q] = Without(Q[q], i) /\ \A r \in Queues \ {q} : R[r] = Q[r]
  BY <1>0, Zenon DEF unqueue_proc
<1> HIDE DEF R
<1>2. ASSUME NEW r \in Queues, NEW j \in 1..Len(R[r])
      PROVE  \E k \in 1..Len(Q[r]) : R[r][j] = Q[r][k] /\ (r = q => k # i)
  <2>1. CASE r # q
    BY <2>1, <1>1, Zenon
  <2>2. CASE r = q
    <3> DEFINE k == IF j < i THEN j ELSE j + 1
    <3>1. j \in 1..(Len(Q[q]) - 1) /\ k \in 1..Len(Q[q]) /\ k # i
      BY <2>2, <1>0, <1>1
    <3>2. R[q][j] = Q[q][k]
      BY <3>1, <1>0, <1>1, Zenon
    <3> QED BY <2>2, <3>1, <3>2, Zenon
  <2> QED BY <2>1, <2>2, Zenon
<1>3. Distinct(R)
  <2> SUFFICES ASSUME NEW a \in Queues, NEW b \in Queues, NEW j \in 1..Len(R[a]),
                      NEW l \in 1..Len(R[b]), R[a][j] = R[b][l]
               PROVE  a = b /\ j = l
    BY Zenon DEF Distinct
  <2>1. a = b
    <3>1. PICK k \in 1..Len(Q[a]) : R[a][j] = Q[a][k]
      BY <1>2, Zenon
    <3>2. PICK m \in 1..Len(Q[b]) : R[b][l] = Q[b][m]
      BY <1>2, Zenon
    <3>3. Q[a][k] = Q[b][m]
      BY <3>1, <3>2, Zenon
    <3> QED BY <3>3, Zenon DEF Distinct
  <2>2. CASE a = q
    <3> DEFINE k == IF j < i THEN j ELSE j + 1
               m == IF l < i THEN l ELSE l + 1
    <3>0. j \in 1..(Len(Q[q]) - 1) /\ l \in 1..(Len(Q[q]) - 1)
      BY <2>1, <2>2, <1>0, <1>1, Zenon
    <3>1. k \in 1..Len(Q[q]) /\ R[q][j] = Q[q][k]
      BY <3>0, <1>0, <1>1
    <3>2. m \in 1..Len(Q[q]) /\ R[q][l] = Q[q][m]
      BY <3>0, <1>0, <1>1
    <3>3. Q[q][k] = Q[q][m]
      BY <3>1, <3>2, <2>1, <2>2, Zenon
    <3>4. k = m
      BY <3>1, <3>2, <3>3 DEF Distinct
    <3> QED BY <3>0, <3>4, <2>1, <1>0
  <2>3. CASE a # q
    BY <2>1, <2>3, <1>1 DEF Distinct
  <2> QED BY <2>1, <2>2, <2>3, Zenon
<1>4. ~In(R, Q[q][i])
  <2> SUFFICES ASSUME NEW a \in Queues, NEW j \in 1..Len(R[a]), R[a][j] = Q[q][i]
               PROVE  FALSE
    BY Zenon DEF In, Contains
  <2>1. PICK k \in 1..Len(Q[a]) : R[a][j] = Q[a][k] /\ (a = q => k # i)
    BY <1>2, Zenon
  <2>2. Q[a][k] = Q[q][i]
    BY <2>1, Zenon
  <2>3. a = q /\ k = i
    BY <2>2 DEF Distinct
  <2> QED BY <2>1, <2>3, Zenon
<1>5. \A p \in Procs \ {Q[q][i]} : \A r \in Queues : Contains(R[r], p) <=> Contains(Q[r], p)
  <2> SUFFICES ASSUME NEW p \in Procs \ {Q[q][i]}, NEW r \in Queues
               PROVE  Contains(R[r], p) <=> Contains(Q[r], p)
    BY Zenon
  <2>1. CASE r # q
    BY <2>1, <1>1, Zenon DEF Contains
  <2>2. CASE r = q
    <3>1. ASSUME NEW j \in 1..Len(R[r]), R[r][j] = p PROVE Contains(Q[r], p)
      <4>1. PICK k \in 1..Len(Q[r]) : R[r][j] = Q[r][k]
        BY <1>2, Zenon
      <4> QED BY <4>1, <3>1, Zenon DEF Contains
    <3>2. ASSUME NEW k \in 1..Len(Q[q]), Q[q][k] = p PROVE Contains(R[q], p)
      <4>1. k # i BY <3>2, Zenon
      <4>2. CASE k < i
        <5>1. k \in 1..Len(R[q]) /\ R[q][k] = Q[q][k]
          BY <4>2, <1>0, <1>1
        <5> QED BY <5>1, <3>2, Zenon DEF Contains
      <4>3. CASE k > i
        <5>1. k - 1 \in 1..Len(R[q]) /\ R[q][k - 1] = Q[q][k]
          BY <4>3, <1>0, <1>1
        <5> QED BY <5>1, <3>2, Zenon DEF Contains
      <4> QED BY <4>1, <4>2, <4>3, <1>0
    <3> QED BY <2>2, <3>1, <3>2, Zenon DEF Contains
  <2> QED BY <2>1, <2>2, Zenon
<1> QED BY <1>1, <1>3, <1>4, <1>5, Zenon DEF R

\* What enqueue_proc of a process that is in no queue does.
LEMMA Enqueue ==
  ASSUME NEW Q \in [Queues -> Seq(Procs)], Distinct(Q),
         NEW p \in Procs, ~In(Q, p), NEW q \in Queues
  PROVE  /\ enqueue_proc(Q, p, q) \in [Queues -> Seq(Procs)]
         /\ Distinct(enqueue_proc(Q, p, q))
         /\ \A r \in Queues : Contains(enqueue_proc(Q, p, q)[r], p) <=> r = q
         /\ \A x \in Procs \ {p} : \A r \in Queues :
              Contains(enqueue_proc(Q, p, q)[r], x) <=> Contains(Q[r], x)
<1> DEFINE R == enqueue_proc(Q, p, q)
<1>0. /\ Q[q] \in Seq(Procs) /\ Len(Q[q]) \in Nat
      /\ Append(Q[q], p) \in Seq(Procs)
      /\ Len(Append(Q[q], p)) = Len(Q[q]) + 1
      /\ \A j \in 1..Len(Q[q]) : Append(Q[q], p)[j] = Q[q][j]
      /\ Append(Q[q], p)[Len(Q[q]) + 1] = p
  OBVIOUS
<1>1. R \in [Queues -> Seq(Procs)] /\ R[q] = Append(Q[q], p) /\ \A r \in Queues \ {q} : R[r] = Q[r]
  BY <1>0, Zenon DEF enqueue_proc
<1> HIDE DEF R
<1>2. ASSUME NEW r \in Queues, NEW j \in 1..Len(R[r])
      PROVE  \/ j \in 1..Len(Q[r]) /\ R[r][j] = Q[r][j]
             \/ r = q /\ j = Len(Q[q]) + 1 /\ R[r][j] = p
  <2>1. CASE r # q
    BY <2>1, <1>1, Zenon
  <2>2. CASE r = q
    <3>1. j \in 1..Len(Q[q]) \/ j = Len(Q[q]) + 1
      BY <2>2, <1>0, <1>1
    <3> QED BY <3>1, <2>2, <1>0, <1>1, Zenon
  <2> QED BY <2>1, <2>2, Zenon
<1>3. \A r \in Queues : \A j \in 1..Len(Q[r]) : Q[r][j] # p
  BY Zenon DEF In, Contains
<1>4. Distinct(R)
  <2> SUFFICES ASSUME NEW a \in Queues, NEW b \in Queues, NEW j \in 1..Len(R[a]),
                      NEW l \in 1..Len(R[b]), R[a][j] = R[b][l]
               PROVE  a = b /\ j = l
    BY Zenon DEF Distinct
  <2>1. \/ j \in 1..Len(Q[a]) /\ R[a][j] = Q[a][j]
        \/ a = q /\ j = Len(Q[q]) + 1 /\ R[a][j] = p
    BY <1>2, Zenon
  <2>2. \/ l \in 1..Len(Q[b]) /\ R[b][l] = Q[b][l]
        \/ b = q /\ l = Len(Q[q]) + 1 /\ R[b][l] = p
    BY <1>2, Zenon
  <2>3. CASE j \in 1..Len(Q[a]) /\ R[a][j] = Q[a][j]
    <3>1. l \in 1..Len(Q[b]) /\ R[b][l] = Q[b][l]
      BY <2>2, <2>3, <1>3, Zenon
    <3>2. Q[a][j] = Q[b][l]
      BY <2>3, <3>1, Zenon
    <3> QED BY <2>3, <3>1, <3>2 DEF Distinct
  <2>4. CASE a = q /\ j = Len(Q[q]) + 1 /\ R[a][j] = p
    BY <2>2, <2>4, <1>3, Zenon
  <2> QED BY <2>1, <2>3, <2>4, Zenon
<1>5. \A r \in Queues : Contains(R[r], p) <=> r = q
  <2>1. Len(R[q]) = Len(Q[q]) + 1 /\ R[q][Len(Q[q]) + 1] = p
    BY <1>0, <1>1, Zenon
  <2>2. Len(Q[q]) + 1 \in 1..(Len(Q[q]) + 1)
    BY <1>0
  <2>3. Contains(R[q], p)
    BY <2>1, <2>2, Zenon DEF Contains
  <2>4. \A r \in Queues \ {q} : ~Contains(R[r], p)
    BY <1>1, <1>3, Zenon DEF Contains
  <2> QED BY <2>3, <2>4, Zenon
<1>6. ASSUME NEW x \in Procs \ {p}, NEW r \in Queues
      PROVE  Contains(R[r], x) <=> Contains(Q[r], x)
  <2>1. CASE r = q
    <3>1. ASSUME NEW j \in 1..Len(R[r]), R[r][j] = x PROVE Contains(Q[r], x)
      <4>1. j \in 1..Len(Q[r]) /\ R[r][j] = Q[r][j]
        BY <3>1, <1>2, Zenon
      <4> QED BY <4>1, <3>1, Zenon DEF Contains
    <3>2. ASSUME NEW j \in 1..Len(Q[r]), Q[r][j] = x PROVE Contains(R[r], x)
      <4>1. j \in 1..Len(R[r]) /\ R[r][j] = x
        BY <3>2, <2>1, <1>0, <1>1
      <4> QED BY <4>1, Zenon DEF Contains
    <3> QED BY <3>1, <3>2, Zenon DEF Contains
  <2>2. CASE r # q
    BY <2>2, <1>1, Zenon DEF Contains
  <2> QED BY <2>1, <2>2, Zenon
<1> QED BY <1>1, <1>4, <1>5, <1>6, Zenon DEF R

\* A queue without p cannot be full.
LEMMA Room ==
  ASSUME NEW Q \in [Queues -> Seq(Procs)], Distinct(Q),
         NEW p \in Procs, ~In(Q, p), NEW q \in Queues
  PROVE  Len(Q[q]) < NPROC
<1> DEFINE n == Len(Q[q])
           f == [i \in 1..n |-> IF Q[q][i] < p THEN Q[q][i] + 1 ELSE Q[q][i]]
<1>0. n \in Nat /\ \A i \in 1..n : Q[q][i] \in Procs
  OBVIOUS
<1>1. n \in Nat /\ NPROC \in Nat /\ NPROC >= 1 /\ p \in 0..(NPROC - 1)
  BY <1>0, ConstantsAssumption DEF ConstantsAssumption, Procs
<1>2. \A i \in 1..n : Q[q][i] \in 0..(NPROC - 1) /\ Q[q][i] # p
  BY <1>0, Zenon DEF In, Contains, Procs
<1>3. f \in [1..n -> 1..(NPROC - 1)]
  BY <1>1, <1>2
<1>4. \A i, j \in 1..n : f[i] = f[j] => i = j
  <2>1. \A i, j \in 1..n : f[i] = f[j] => Q[q][i] = Q[q][j]
    BY <1>1, <1>2
  <2> QED BY <2>1 DEF Distinct
<1> HIDE DEF f
<1>5. ExistsInjection(1..n, 1..(NPROC - 1))
  <2>1. f \in Injection(1..n, 1..(NPROC - 1))
    BY <1>3, <1>4, Fun_IsInj, Zenon
  <2> QED BY <2>1, Fun_ExistsInj, Zenon
<1>6. n <= NPROC - 1
  <2>1. NPROC - 1 \in Nat
    BY <1>1
  <2> QED BY <1>1, <1>5, <2>1, Fun_NatInjLeq, Zenon
<1> QED BY <1>1, <1>6

-----------------------------------------------------------------------------
(* The only CPU c: QueueInv, LevelInv, NoQueuePanic and EpochInv *)

Only(c) == \A d \in CPUS : d = c

\* QueueInv, LevelInv and NoQueuePanic with the only CPU c.
Placed(c) ==
  /\ Distinct(queue)
  /\ \A q \in Queues : \A p \in Procs : Contains(queue[q], p) => state[p] \in Schedulable
  /\ \A p \in Procs : state[p] \in Schedulable =>
       In(queue, p) \/ (pc[c] = "migrate" /\ cproc[c] = p)

OneInv(c) == Placed(c) /\ AtCpu(c) /\ FreshLevels(c) /\ pc[c] \notin QueuePanics

LEMMA OneCpuOnly ==
  ASSUME NEW c \in CPUS, Only(c)
  PROVE  /\ QueueInv /\ LevelInv /\ NoQueuePanic <=> OneInv(c)
         /\ (QueueInv /\ LevelInv /\ NoQueuePanic)' <=> OneInv(c)'
BY Zenon DEF Only, OneInv, Placed, QueueInv, LevelInv, NoQueuePanic

OneEpoch(c) ==
  /\ QuantaInRange
  /\ \A p \in Procs : state[p] = "EMBRYO" => ticksLeft[p] = PROC_QUANTUM
  /\ QuantaAtCpu(c)
  /\ \A q \in Queues : \A p \in Procs : Contains(queue[q], p) => QuantaInLevel(c, q, p)

LEMMA EpochOnly ==
  ASSUME NEW c \in CPUS, Only(c)
  PROVE  (EpochInv <=> OneEpoch(c)) /\ (EpochInv' <=> OneEpoch(c)')
BY Zenon DEF Only, OneEpoch, EpochInv

\* The invariants with the only CPU, the boot CPU.
LEMMA TheCpu ==
  ASSUME \A c, d \in CPUS : c = d
  PROVE  /\ BootCpu \in CPUS /\ Only(BootCpu)
         /\ UniInv <=> BaseInv /\ OneInv(BootCpu)
         /\ UniInv' <=> BaseInv' /\ OneInv(BootCpu)'
         /\ EpochInv <=> OneEpoch(BootCpu)
         /\ EpochInv' <=> OneEpoch(BootCpu)'
<1>1. BootCpu \in CPUS /\ Only(BootCpu)
  BY ConstantsAssumption, Zenon DEF ConstantsAssumption, Only
<1>2. /\ UniInv <=> BaseInv /\ OneInv(BootCpu)
      /\ UniInv' <=> BaseInv' /\ OneInv(BootCpu)'
  BY <1>1, OneCpuOnly, Zenon DEF UniInv, BaseInv
<1> QED BY <1>1, <1>2, EpochOnly, Zenon

-----------------------------------------------------------------------------
(* Where find_available_queue() finds a place *)

\* A level with a full quantum has room for a process that is in no queue.
LEMMA AlwaysRoom ==
  ASSUME NEW Q \in [Queues -> Seq(Procs)], Distinct(Q), NEW p \in Procs, ~In(Q, p),
         NEW q \in Queues, levelTicks[q] = LEVEL_QUANTUM
  PROVE  Available(Q, q)
<1>1. LEVEL_QUANTUM > 0
  BY ConstantsAssumption DEF ConstantsAssumption
<1> QED BY <1>1, Room, Zenon DEF Available

\* Hence find_available_queue() finds a place from any start in Levels, and
\* starts beyond the last level, whenever the expired set is fresh.
LEMMA PlaceFound ==
  ASSUME NEW Q \in [Queues -> Seq(Procs)], Distinct(Q), NEW p \in Procs, ~In(Q, p),
         NEW dl \in Levels, NEW start, active \in {0, 1},
         levelTicks[<<1 - active, dl>>] = LEVEL_QUANTUM
  PROVE  ~no_available_queue(Q, start, dl)
<1>1. <<1 - active, dl>> \in Queues
  BY DEF Queues
<1>2. Available(Q, <<1 - active, dl>>)
  BY <1>1, AlwaysRoom, Zenon
<1>3. dl \in dl..(LEVELS - 1)
  BY ConstantsAssumption DEF ConstantsAssumption, Levels
<1> QED BY <1>2, <1>3, Zenon DEF no_available_queue, no_level

\* The same from a given level with room.
LEMMA PlaceThere ==
  ASSUME NEW Q, NEW dl \in Levels, NEW start, Available(Q, <<1 - active, dl>>)
  PROVE  ~no_available_queue(Q, start, dl)
<1>1. dl \in dl..(LEVELS - 1)
  BY ConstantsAssumption DEF ConstantsAssumption, Levels
<1> QED BY <1>1, Zenon DEF no_available_queue, no_level

\* Neither panic of lines 680-710 is reachable.
LEMMA RequeuePanicOne ==
  ASSUME NEW c \in CPUS, BaseInv, OneInv(c), RequeuePanic(c)
  PROVE  FALSE
<1> DEFINE p == cproc[c]
           q == cqueue[c]
           nk == next_start(p, q[2])
<1>1. pc[c] = "switch" /\ p \in Procs /\ q \in Queues /\ state[p] # "ZOMBIE"
  BY SwitchFacts, Zenon DEF RequeuePanic
<1>2. Contains(queue[q], p)
  BY <1>1, Zenon DEF OneInv, AtCpu
<1>3. PICK i \in 1..Len(queue[q]) :
        /\ queue[q][i] = p
        /\ no_available_queue(unqueue_proc(queue, q, i), nk, defaultLevel[p])
  BY <1>2, Zenon DEF RequeuePanic, FirstIndex
<1> HIDE DEF p, q, nk
<1>4. queue \in [Queues -> Seq(Procs)] /\ Distinct(queue)
  BY Zenon DEF BaseInv, TypeOK, OneInv, Placed
<1>5. /\ unqueue_proc(queue, q, i) \in [Queues -> Seq(Procs)]
      /\ Distinct(unqueue_proc(queue, q, i)) /\ ~In(unqueue_proc(queue, q, i), queue[q][i])
  BY <1>1, <1>4, Dequeue, Zenon
<1>6. ~In(unqueue_proc(queue, q, i), p)
  BY <1>3, <1>5, Zenon
<1>7. defaultLevel[p] \in Levels /\ active \in {0, 1}
  BY <1>1, Zenon DEF BaseInv, TypeOK
<1>8. levelTicks[<<1 - active, defaultLevel[p]>>] = LEVEL_QUANTUM
  BY <1>1, <1>7, Zenon DEF OneInv, FreshLevels
<1>9. ~no_available_queue(unqueue_proc(queue, q, i), nk, defaultLevel[p])
  BY <1>1, <1>5, <1>6, <1>7, <1>8, PlaceFound
<1> QED BY <1>3, <1>9, Zenon

\* nq is a place for a process of default level dl, sought from level start on.
PlacedAt(nq, start, dl) ==
  /\ levelTicks[nq] > 0
  /\ nq[1] = active => start <= nq[2]
  /\ nq[1] # active => nq = <<1 - active, dl>>

\* The place find_available_queue() finds: in the active set not above where
\* the search starts, in the expired set, which is fresh and has room, exactly
\* the default level.
LEMMA PlaceIs ==
  ASSUME NEW Q \in [Queues -> Seq(Procs)], Distinct(Q), NEW p \in Procs, ~In(Q, p), active \in {0, 1},
         NEW dl \in Levels, NEW start \in Nat, \A k \in Levels : levelTicks[<<1 - active, k>>] = LEVEL_QUANTUM,
         NEW nq \in Queues, find_available_queue(Q, start, dl, nq)
  PROVE  PlacedAt(nq, start, dl)
<1> USE DEF PlacedAt
<1>1. nq = <<nq[1], nq[2]>> /\ nq[1] \in {0, 1} /\ nq[2] \in Levels
  BY DEF Queues
<1>2. LEVELS \in Nat /\ dl \in Nat /\ dl <= LEVELS - 1
  BY ConstantsAssumption DEF ConstantsAssumption, Levels
<1>3. CASE nq[1] = active
  <2>1. next_level(Q, active, start, nq[2])
    BY <1>3, Zenon DEF find_available_queue, is_expired_set
  <2>2. nq[2] \in start..(LEVELS - 1) /\ levelTicks[<<active, nq[2]>>] > 0
    BY <2>1, Zenon DEF next_level, Available
  <2>3. nq = <<active, nq[2]>> /\ start <= nq[2]
    BY <1>1, <1>2, <1>3, <2>2
  <2> QED BY <1>3, <2>2, <2>3, Zenon
<1>4. CASE nq[1] # active
  <2>1. nq[1] = 1 - active
    BY <1>1, <1>4
  <2>2. next_level(Q, 1 - active, dl, nq[2])
    BY <1>4, Zenon DEF find_available_queue, is_expired_set
  <2>3. <<1 - active, dl>> \in Queues
    BY <1>1, <2>1, Zenon DEF Queues
  <2>4. Available(Q, <<1 - active, dl>>)
    BY <2>3, AlwaysRoom, Zenon
  <2>5. nq[2] \in dl..(LEVELS - 1) /\ dl \notin dl..(nq[2] - 1)
    BY <2>2, <2>4, Zenon DEF next_level
  <2>6. nq[2] = dl
    BY <1>2, <2>5
  <2>7. levelTicks[nq] > 0
    BY <1>1, <2>1, <2>2, Zenon DEF next_level, Available
  <2> QED BY <1>1, <1>4, <2>1, <2>6, <2>7, Zenon
<1> QED BY <1>3, <1>4, Zenon

\* During the set swap it is the default level in the new active set.
LEMMA SwapPlaceIs ==
  ASSUME NEW Q \in [Queues -> Seq(Procs)], Distinct(Q), NEW p \in Procs, ~In(Q, p), active \in {0, 1},
         NEW dl \in Levels, levelTicks[<<active, dl>>] = LEVEL_QUANTUM,
         NEW nq \in Queues, find_available_queue(Q, dl, dl, nq)
  PROVE  nq = <<active, dl>>
<1>1. nq = <<nq[1], nq[2]>> /\ nq[1] \in {0, 1} /\ nq[2] \in Levels
  BY DEF Queues
<1>2. LEVELS \in Nat /\ dl \in Nat /\ dl <= LEVELS - 1
  BY ConstantsAssumption DEF ConstantsAssumption, Levels
<1>3. <<active, dl>> \in Queues
  BY Zenon DEF Queues
<1>4. Available(Q, <<active, dl>>)
  BY <1>3, AlwaysRoom, Zenon
<1>5. ~no_level(Q, active, dl)
  BY <1>2, <1>4 DEF no_level
<1>6. next_level(Q, active, dl, nq[2]) /\ nq[1] = active
  BY <1>5, Zenon DEF find_available_queue, is_expired_set
<1>7. nq[2] \in dl..(LEVELS - 1) /\ dl \notin dl..(nq[2] - 1)
  BY <1>4, <1>6, Zenon DEF next_level
<1>8. nq[2] = dl
  BY <1>2, <1>7
<1> QED BY <1>1, <1>6, <1>8, Zenon

\* Outside the set swap the expired set is fresh, so that a search finds a place.
LEMMA Places1 ==
  ASSUME NEW c \in CPUS, BaseInv, OneInv(c), pc[c] # "swap",
         NEW Q \in [Queues -> Seq(Procs)], Distinct(Q), NEW p \in Procs, ~In(Q, p),
         NEW dl \in Levels, NEW start \in Nat
  PROVE  \A nq \in Queues : find_available_queue(Q, start, dl, nq) => PlacedAt(nq, start, dl)
<1>1. active \in {0, 1} /\ \A k \in Levels : levelTicks[<<1 - active, k>>] = LEVEL_QUANTUM
  BY Zenon DEF BaseInv, TypeOK, OneInv, FreshLevels
<1> QED BY <1>1, PlaceIs, Zenon

-----------------------------------------------------------------------------
(* What a step on the only CPU does to the queues *)

\* Entry i of q, the process p, goes to the end of nq.
Shifted(q, i, p, nq) ==
  /\ q \in Queues /\ nq \in Queues /\ i \in 1..Len(queue[q]) /\ queue[q][i] = p
  /\ queue' = enqueue_proc(unqueue_proc(queue, q, i), p, nq)

\* The only difference between queue and queue' is where p is: in nq.
Relocated(p, nq) ==
  /\ Distinct(queue')
  /\ \A r \in Queues : Contains(queue'[r], p) <=> r = nq
  /\ \A x \in Procs \ {p} : \A r \in Queues : Contains(queue'[r], x) <=> Contains(queue[r], x)

\* Entry i of q, the process p, is taken out.
Taken(q, i, p) ==
  /\ q \in Queues /\ i \in 1..Len(queue[q]) /\ queue[q][i] = p
  /\ queue' = unqueue_proc(queue, q, i)

\* The only difference between queue and queue' is that p is gone.
Removed(p) ==
  /\ Distinct(queue') /\ ~In(queue', p)
  /\ \A x \in Procs \ {p} : \A r \in Queues : Contains(queue'[r], x) <=> Contains(queue[r], x)

LEMMA TakenFacts ==
  ASSUME BaseInv, Distinct(queue), NEW q, NEW i, NEW p \in Procs, Taken(q, i, p)
  PROVE  Removed(p)
<1>1. queue \in [Queues -> Seq(Procs)] /\ q \in Queues /\ i \in 1..Len(queue[q])
  BY Zenon DEF BaseInv, TypeOK, Taken
<1>2. /\ Distinct(unqueue_proc(queue, q, i)) /\ ~In(unqueue_proc(queue, q, i), queue[q][i])
      /\ \A x \in Procs \ {queue[q][i]} : \A r \in Queues :
           Contains(unqueue_proc(queue, q, i)[r], x) <=> Contains(queue[r], x)
  BY <1>1, Dequeue, Zenon
<1> QED BY <1>2, Zenon DEF Taken, Removed

LEMMA ShiftedFacts ==
  ASSUME BaseInv, Distinct(queue), NEW q, NEW i, NEW p \in Procs, NEW nq, Shifted(q, i, p, nq)
  PROVE  /\ Relocated(p, nq)
         /\ \A r \in Queues : Contains(queue[r], p) <=> r = q
<1> DEFINE Q == unqueue_proc(queue, q, i)
<1>1. queue \in [Queues -> Seq(Procs)] /\ q \in Queues /\ nq \in Queues /\ i \in 1..Len(queue[q]) /\ queue[q][i] = p
  BY Zenon DEF BaseInv, TypeOK, Shifted
<1>2. /\ Q \in [Queues -> Seq(Procs)] /\ Distinct(Q) /\ ~In(Q, p)
      /\ \A x \in Procs \ {p} : \A r \in Queues : Contains(Q[r], x) <=> Contains(queue[r], x)
  BY <1>1, Dequeue, Zenon
<1>3. queue' = enqueue_proc(Q, p, nq)
  BY Zenon DEF Shifted
<1> HIDE DEF Q
<1>4. /\ Distinct(enqueue_proc(Q, p, nq))
      /\ \A r \in Queues : Contains(enqueue_proc(Q, p, nq)[r], p) <=> r = nq
      /\ \A x \in Procs \ {p} : \A r \in Queues : Contains(enqueue_proc(Q, p, nq)[r], x) <=> Contains(Q[r], x)
  <2>1. Q \in [Queues -> Seq(Procs)] /\ Distinct(Q) /\ ~In(Q, p) /\ nq \in Queues
    BY <1>1, <1>2, Zenon
  <2> QED BY <2>1, Enqueue, ZenonT(30)
<1>5. \A r \in Queues : Contains(queue[r], p) <=> r = q
  BY <1>1, Zenon DEF Contains, Distinct
<1> QED BY <1>2, <1>3, <1>4, <1>5, Zenon DEF Relocated

LEMMA JoinedFacts ==
  ASSUME BaseInv, Distinct(queue), NEW p \in Procs, ~In(queue, p), NEW nq \in Queues, queue' = enqueue_proc(queue, p, nq)
  PROVE  Relocated(p, nq)
<1>1. queue \in [Queues -> Seq(Procs)]
  BY Zenon DEF BaseInv, TypeOK
<1>2. /\ Distinct(enqueue_proc(queue, p, nq))
      /\ \A r \in Queues : Contains(enqueue_proc(queue, p, nq)[r], p) <=> r = nq
      /\ \A x \in Procs \ {p} : \A r \in Queues :
           Contains(enqueue_proc(queue, p, nq)[r], x) <=> Contains(queue[r], x)
  BY <1>1, Enqueue
<1> QED BY <1>2, Zenon DEF Relocated

\* SwapMove: the first process of the level goes to its default level.
LEMMA SwapMoveEffect ==
  ASSUME NEW c \in CPUS, BaseInv, OneInv(c), SwapMove(c)
  PROVE  \E p \in Procs :
           /\ Shifted(<<1 - active, swapLevel>>, 1, p, <<active, defaultLevel[p]>>)
           /\ ticksLeft' = [ticksLeft EXCEPT ![p] = PROC_QUANTUM]
           /\ UNCHANGED <<state, defaultLevel, levelTicks, active, lock, pc, cproc, cqueue, reg, swapLevel>>
<1> DEFINE old == <<1 - active, swapLevel>>
           p == queue[old][1]
           Q == unqueue_proc(queue, old, 1)
           dl == defaultLevel[p]
<1>1. /\ queue \in [Queues -> Seq(Procs)] /\ Distinct(queue) /\ active \in {0, 1} /\ swapLevel \in Levels
      /\ pc[c] = "swap" /\ queue[old] # << >>
  BY Zenon DEF BaseInv, TypeOK, OneInv, Placed, SwapMove
<1>2. old \in Queues
  BY <1>1 DEF Queues
<1>3. 1 \in 1..Len(queue[old]) /\ p \in Procs
  BY <1>1, <1>2, QueueTypes, Zenon
<1>4. dl \in Levels
  BY <1>3, Zenon DEF BaseInv, TypeOK
<1>5. Q \in [Queues -> Seq(Procs)] /\ Distinct(Q) /\ ~In(Q, p)
  BY <1>1, <1>2, <1>3, Dequeue, Zenon
<1>6. levelTicks[<<active, dl>>] = LEVEL_QUANTUM
  BY <1>1, <1>4, Zenon DEF OneInv, FreshLevels
<1>7. ~no_available_queue(Q, dl, dl)
  <2> HIDE DEF Q, dl, p
  <2>1. Available(Q, <<active, dl>>)
    <3>1. <<active, dl>> \in Queues
      BY <1>1, <1>4, Zenon DEF Queues
    <3> QED BY <1>3, <1>5, <1>6, <3>1, AlwaysRoom, Zenon
  <2>2. dl \in dl..(LEVELS - 1)
    BY <1>4, ConstantsAssumption DEF ConstantsAssumption, Levels
  <2> QED BY <2>1, <2>2, Zenon DEF no_available_queue, no_level
<1>8. /\ \E nq \in Queues : find_available_queue(Q, dl, dl, nq) /\ queue' = enqueue_proc(Q, p, nq)
      /\ ticksLeft' = [ticksLeft EXCEPT ![p] = PROC_QUANTUM]
      /\ UNCHANGED <<state, defaultLevel, levelTicks, active, lock, pc, cproc, cqueue, reg, swapLevel>>
  BY <1>7, Zenon DEF SwapMove, Replenish
<1>9. PICK nq \in Queues : find_available_queue(Q, dl, dl, nq) /\ queue' = enqueue_proc(Q, p, nq)
  BY <1>8, Zenon
<1>10. nq = <<active, dl>>
  <2> HIDE DEF Q, dl, p
  <2> QED BY <1>1, <1>3, <1>4, <1>5, <1>6, <1>9, SwapPlaceIs, Zenon
<1>11. Shifted(old, 1, p, <<active, dl>>)
  BY <1>2, <1>3, <1>9, <1>10, Zenon DEF Shifted
<1> QED BY <1>3, <1>8, <1>11, Zenon

\* Requeue: the process that ran goes to the end of its level, or of a lower one.
LEMMA RequeueEffect ==
  ASSUME NEW c \in CPUS, BaseInv, OneInv(c), Requeue(c)
  PROVE  LET p == cproc[c]
             q == cqueue[c]
             full == [ticksLeft EXCEPT ![p] = PROC_QUANTUM]
         IN  /\ pc[c] = "switch" /\ p \in Procs /\ q \in Queues /\ q[1] = active /\ levelTicks[q] > 0 /\ Leave(c)
             /\ UNCHANGED <<state, defaultLevel, levelTicks, active, reg, swapLevel>>
             /\ \/ state[p] = "ZOMBIE" /\ queue' = queue /\ ticksLeft' \in {ticksLeft, full}
                \/ \E nq \in Queues :
                     /\ state[p] # "ZOMBIE"
                     /\ \E i \in 1..Len(queue[q]) : Shifted(q, i, p, nq)
                     /\ PlacedAt(nq, next_start(p, q[2]), defaultLevel[p])
                     /\ ticksLeft' = IF ticksLeft[p] <= 0 \/ nq[1] # active THEN full ELSE ticksLeft
<1> DEFINE p == cproc[c]
           q == cqueue[c]
           full == [ticksLeft EXCEPT ![p] = PROC_QUANTUM]
<1>1. /\ pc[c] = "switch" /\ p \in Procs /\ q \in Queues /\ levelTicks[q] > 0 /\ Leave(c)
      /\ UNCHANGED <<state, defaultLevel, levelTicks, active, reg, swapLevel>>
  BY SwitchFacts, Zenon DEF Requeue
<1>2. q[1] = active
  BY <1>1, Zenon DEF OneInv, AtCpu
<1>3. CASE state[p] = "ZOMBIE"
  <2>1. queue' = queue /\ ticksLeft' \in {ticksLeft, full}
    BY <1>3, Zenon DEF Requeue, Replenish
  <2> QED BY <1>1, <1>2, <1>3, <2>1, Zenon
<1>4. CASE state[p] # "ZOMBIE"
  <2>1. Contains(queue[q], p)
    BY <1>1, <1>4, Zenon DEF OneInv, AtCpu
  <2>2. queue[q] # << >>
    BY <2>1 DEF Contains
  <2>3. PICK i \in 1..Len(queue[q]) :
          /\ queue[q][i] = p
          /\ \E nq \in Queues :
               /\ find_available_queue(unqueue_proc(queue, q, i), next_start(p, q[2]), defaultLevel[p], nq)
               /\ queue' = enqueue_proc(unqueue_proc(queue, q, i), p, nq)
               /\ Replenish(p, ticksLeft[p] <= 0 \/ is_expired_set(nq))
    BY <1>4, <2>2, Zenon DEF Requeue, FirstIndex
  <2>4. PICK nq \in Queues :
          /\ find_available_queue(unqueue_proc(queue, q, i), next_start(p, q[2]), defaultLevel[p], nq)
          /\ queue' = enqueue_proc(unqueue_proc(queue, q, i), p, nq)
          /\ Replenish(p, ticksLeft[p] <= 0 \/ is_expired_set(nq))
    BY <2>3, Zenon
  <2>5. Shifted(q, i, p, nq)
    BY <1>1, <2>3, <2>4, Zenon DEF Shifted
  <2>6. ticksLeft' = IF ticksLeft[p] <= 0 \/ nq[1] # active THEN full ELSE ticksLeft
    BY <2>4, Zenon DEF Replenish, is_expired_set
  <2>7. queue \in [Queues -> Seq(Procs)] /\ Distinct(queue) /\ defaultLevel[p] \in Levels
    BY <1>1, Zenon DEF BaseInv, TypeOK, OneInv, Placed
  <2>8. /\ unqueue_proc(queue, q, i) \in [Queues -> Seq(Procs)] /\ Distinct(unqueue_proc(queue, q, i))
        /\ ~In(unqueue_proc(queue, q, i), p)
    BY <1>1, <2>3, <2>7, Dequeue, Zenon
  <2>9. next_start(p, q[2]) \in Nat
    <3>1. q[2] \in Levels
      BY <1>1, Zenon DEF Queues
    <3>2. q[2] \in Nat
      BY <3>1 DEF Levels
    <3> QED BY <3>2 DEF next_start
  <2>10. PlacedAt(nq, next_start(p, q[2]), defaultLevel[p])
    <3> DEFINE Q == unqueue_proc(queue, q, i)
               start == next_start(p, q[2])
               dl == defaultLevel[p]
    <3>1. Q \in [Queues -> Seq(Procs)] /\ Distinct(Q) /\ ~In(Q, p) /\ dl \in Levels /\ start \in Nat /\ pc[c] # "swap"
      BY <1>1, <2>7, <2>8, <2>9, Zenon
    <3>2. find_available_queue(Q, start, dl, nq)
      BY <2>4, Zenon
    <3> HIDE DEF Q, start, dl
    <3> QED BY <1>1, <3>1, <3>2, Places1, Zenon DEF Q, start, dl
  <2> QED BY <1>1, <1>2, <1>4, <2>5, <2>6, <2>10, Zenon
<1> QED BY <1>3, <1>4, Zenon

\* MigrateMove: the first process of the level goes to a lower level; the one
\* that ran is only taken out.
LEMMA MigrateMoveEffect ==
  ASSUME NEW c \in CPUS, BaseInv, OneInv(c), MigrateMove(c)
  PROVE  LET q == cqueue[c]
         IN  /\ pc[c] = "migrate" /\ cproc[c] \in Procs /\ q \in Queues /\ q[1] = active
             /\ UNCHANGED <<state, defaultLevel, levelTicks, active, lock, pc, cproc, cqueue, reg, swapLevel>>
             /\ \E np \in Procs :
                  /\ ticksLeft' = [ticksLeft EXCEPT ![np] = PROC_QUANTUM]
                  /\ \/ np = cproc[c] /\ Taken(q, 1, np)
                     \/ /\ np # cproc[c]
                        /\ \E nq \in Queues : Shifted(q, 1, np, nq) /\ PlacedAt(nq, q[2] + 1, defaultLevel[np])
<1> DEFINE q == cqueue[c]
           np == queue[q][1]
           Q == unqueue_proc(queue, q, 1)
           dl == defaultLevel[np]
           start == q[2] + 1
<1>1. /\ queue \in [Queues -> Seq(Procs)] /\ Distinct(queue) /\ q \in Queues /\ active \in {0, 1}
      /\ pc[c] = "migrate" /\ queue[q] # << >> /\ cproc[c] \in Procs /\ q[1] = active
  BY SwitchFacts, Zenon DEF MigrateMove, BaseInv, TypeOK, OneInv, Placed, AtCpu
<1>2. 1 \in 1..Len(queue[q]) /\ np \in Procs
  BY <1>1, QueueTypes, Zenon
<1>3. Q \in [Queues -> Seq(Procs)] /\ Distinct(Q) /\ ~In(Q, np)
  BY <1>1, <1>2, Dequeue, Zenon
<1>4. dl \in Levels /\ start \in Nat
  <2>1. dl \in Levels
    BY <1>2, Zenon DEF BaseInv, TypeOK
  <2>2. q[2] \in Levels
    BY <1>1, Zenon DEF Queues
  <2> QED BY <2>1, <2>2 DEF Levels
<1>5. ~no_available_queue(Q, start, dl)
  <2>1. levelTicks[<<1 - active, dl>>] = LEVEL_QUANTUM
    BY <1>1, <1>4, Zenon DEF OneInv, FreshLevels
  <2>2. <<1 - active, dl>> \in Queues
    BY <1>1, <1>4 DEF Queues
  <2> HIDE DEF Q, np, q, dl, start
  <2>3. Available(Q, <<1 - active, dl>>)
    BY <1>2, <1>3, <2>1, <2>2, AlwaysRoom, Zenon
  <2> QED BY <1>1, <1>4, <2>3, PlaceThere, Zenon
<1>6. /\ ticksLeft' = [ticksLeft EXCEPT ![np] = PROC_QUANTUM]
      /\ UNCHANGED <<state, defaultLevel, levelTicks, active, lock, pc, cproc, cqueue, reg, swapLevel>>
      /\ \/ np = cproc[c] /\ queue' = Q
         \/ np # cproc[c] /\ \E nq \in Queues : find_available_queue(Q, start, dl, nq) /\ queue' = enqueue_proc(Q, np, nq)
  BY <1>5, Zenon DEF MigrateMove, Replenish
<1>7. ASSUME NEW nq \in Queues, find_available_queue(Q, start, dl, nq), queue' = enqueue_proc(Q, np, nq)
      PROVE  Shifted(q, 1, np, nq) /\ PlacedAt(nq, start, dl)
  <2>1. Shifted(q, 1, np, nq)
    BY <1>1, <1>2, <1>7, Zenon DEF Shifted
  <2>2. pc[c] # "swap"
    BY <1>1, Zenon
  <2> HIDE DEF Q, np, q, dl, start
  <2> QED BY <1>2, <1>3, <1>4, <1>7, <2>1, <2>2, Places1, Zenon
<1>8. queue' = Q => Taken(q, 1, np)
  BY <1>1, <1>2, Zenon DEF Taken
<1> QED BY <1>1, <1>2, <1>6, <1>7, <1>8, Zenon

\* MigrateLast: the process that ran joins a lower level after all others.
LEMMA MigrateLastEffect ==
  ASSUME NEW c \in CPUS, BaseInv, OneInv(c), MigrateLast(c)
  PROVE  LET p == cproc[c]
             q == cqueue[c]
         IN  /\ pc[c] = "migrate" /\ p \in Procs /\ q \in Queues /\ q[1] = active /\ queue[q] = << >>
             /\ ~In(queue, p) /\ Leave(c)
             /\ UNCHANGED <<state, ticksLeft, defaultLevel, levelTicks, active, reg, swapLevel>>
             /\ \/ state[p] = "ZOMBIE" /\ queue' = queue
                \/ /\ state[p] # "ZOMBIE"
                   /\ \E nq \in Queues : queue' = enqueue_proc(queue, p, nq) /\ PlacedAt(nq, q[2] + 1, defaultLevel[p])
<1> DEFINE q == cqueue[c]
           p == cproc[c]
           dl == defaultLevel[p]
           start == q[2] + 1
<1>1. /\ queue \in [Queues -> Seq(Procs)] /\ Distinct(queue) /\ q \in Queues /\ active \in {0, 1}
      /\ pc[c] = "migrate" /\ queue[q] = << >> /\ p \in Procs /\ q[1] = active
  BY SwitchFacts, Zenon DEF MigrateLast, BaseInv, TypeOK, OneInv, Placed, AtCpu
<1>2. ~In(queue, p)
  <2>1. ~Contains(queue[q], p)
    BY <1>1 DEF Contains
  <2>2. \A r \in Queues : Contains(queue[r], p) => r = q
    BY <1>1, Zenon DEF OneInv, AtCpu
  <2> QED BY <2>1, <2>2, Zenon DEF In
<1>3. dl \in Levels /\ start \in Nat
  <2>1. dl \in Levels
    BY <1>1, Zenon DEF BaseInv, TypeOK
  <2>2. q[2] \in Levels
    BY <1>1, Zenon DEF Queues
  <2> QED BY <2>1, <2>2 DEF Levels
<1>4. ~no_available_queue(queue, start, dl)
  <2>1. levelTicks[<<1 - active, dl>>] = LEVEL_QUANTUM
    BY <1>1, <1>3, Zenon DEF OneInv, FreshLevels
  <2> HIDE DEF p, q, dl, start
  <2> QED BY <1>1, <1>2, <1>3, <2>1, PlaceFound
<1>5. /\ Leave(c) /\ UNCHANGED <<state, ticksLeft, defaultLevel, levelTicks, active, reg, swapLevel>>
      /\ \/ state[p] = "ZOMBIE" /\ queue' = queue
         \/ /\ state[p] # "ZOMBIE"
            /\ \E nq \in Queues : find_available_queue(queue, start, dl, nq) /\ queue' = enqueue_proc(queue, p, nq)
  BY <1>4, Zenon DEF MigrateLast, procVars
<1>6. ASSUME NEW nq \in Queues, find_available_queue(queue, start, dl, nq)
      PROVE  PlacedAt(nq, start, dl)
  <2>1. pc[c] # "swap"
    BY <1>1, Zenon
  <2> HIDE DEF p, q, dl, start
  <2> QED BY <1>1, <1>2, <1>3, <1>6, <2>1, Places1, Zenon
<1> QED BY <1>1, <1>2, <1>5, <1>6, Zenon

\* priofork(level): the new process joins the queues at its own level.
LEMMA prioforkEffect ==
  ASSUME NEW c \in CPUS, NEW level \in Levels, BaseInv, OneInv(c), priofork(c, level)
  PROVE  \E np \in Procs : \E nq \in Queues :
           /\ pc[c] = "run" /\ lock = NULL /\ cproc[c] \in Procs /\ state[cproc[c]] = "RUNNING"
           /\ state[np] = "EMBRYO" /\ ~In(queue, np) /\ queue' = enqueue_proc(queue, np, nq)
           /\ state' = [state EXCEPT ![np] = "RUNNABLE"]
           /\ defaultLevel' = [defaultLevel EXCEPT ![np] = level]
           /\ PlacedAt(nq, level, level)
           /\ UNCHANGED <<ticksLeft, levelTicks, active, cpuVars>>
<1> DEFINE p == cproc[c]
           np == child[p]
<1>0. queue \in [Queues -> Seq(Procs)] /\ Distinct(queue) /\ active \in {0, 1}
  BY Zenon DEF BaseInv, TypeOK, OneInv, Placed
<1>1. pc[c] \in OnProc /\ pc[c] = "run" /\ pc[c] # "swap" /\ kpc[p] = "fork" /\ lock = NULL
  BY Zenon DEF priofork, OnProc, LockFree
<1>2. p \in Procs /\ state[p] = "RUNNING" /\ np \in Procs /\ state[np] = "EMBRYO"
  BY <1>1, OnProcFacts, ForkFacts, Zenon
<1>3. ~In(queue, np)
  BY <1>2, Zenon DEF In, OneInv, Placed, Schedulable
<1>4. ~no_available_queue(queue, level, level)
  <2>1. levelTicks[<<1 - active, level>>] = LEVEL_QUANTUM
    BY <1>1, Zenon DEF OneInv, FreshLevels
  <2>2. <<1 - active, level>> \in Queues
    BY <1>0 DEF Queues
  <2> HIDE DEF np
  <2>3. Available(queue, <<1 - active, level>>)
    BY <1>0, <1>2, <1>3, <2>1, <2>2, AlwaysRoom, Zenon
  <2> QED BY <1>0, <2>3, PlaceThere, Zenon
<1>5. /\ \E nq \in Queues : find_available_queue(queue, level, level, nq) /\ queue' = enqueue_proc(queue, np, nq)
      /\ state' = [state EXCEPT ![np] = "RUNNABLE"]
      /\ defaultLevel' = [defaultLevel EXCEPT ![np] = level]
      /\ UNCHANGED <<ticksLeft, levelTicks, active, cpuVars>>
  BY <1>4, Zenon DEF priofork
<1>6. PICK nq \in Queues : find_available_queue(queue, level, level, nq) /\ queue' = enqueue_proc(queue, np, nq)
  BY <1>5, Zenon
<1>7. level \in Nat
  BY DEF Levels
<1> HIDE DEF np
<1>8. PlacedAt(nq, level, level)
  BY <1>0, <1>1, <1>2, <1>3, <1>6, <1>7, Places1, Zenon
<1> QED BY <1>1, <1>2, <1>3, <1>5, <1>6, <1>8, Zenon

\* exit(): the process leaves its queue.
LEMMA exitEffect ==
  ASSUME NEW c \in CPUS, BaseInv, OneInv(c), exit(c)
  PROVE  LET p == cproc[c]
             q == cqueue[c]
         IN  /\ pc[c] = "run" /\ lock = NULL /\ p \in Procs /\ q \in Queues /\ q[1] = active
             /\ pc' = [pc EXCEPT ![c] = "switch"] /\ lock' = c
             /\ \E i : Taken(q, i, p)
             /\ UNCHANGED <<ticksLeft, defaultLevel, levelTicks, active, cproc, cqueue, reg, swapLevel>>
             /\ state'[p] = "ZOMBIE"
             /\ \A r \in Procs \ {p} : state'[r] = state[r] \/ (state[r] = "SLEEPING" /\ state'[r] = "RUNNABLE")
<1> DEFINE p == cproc[c]
           W == exit_wakes(p)
<1>0. state \in [Procs -> States] /\ queue \in [Queues -> Seq(Procs)] /\ Distinct(queue)
  BY Zenon DEF BaseInv, TypeOK, OneInv, Placed
<1>1. /\ pc[c] = "run" /\ lock = NULL /\ pc[c] \in OnProc /\ pc' = [pc EXCEPT ![c] = "switch"] /\ lock' = c
      /\ state' = [W EXCEPT ![p] = "ZOMBIE"] /\ remove_proc_from_levels(p)
      /\ UNCHANGED <<ticksLeft, defaultLevel, levelTicks, active, cproc, cqueue, reg, swapLevel>>
  BY Zenon DEF exit, Sched, Goto, OnProc, LockFree
<1>2. p \in Procs /\ cqueue[c] \in Queues
  BY <1>1, OnProcFacts, Zenon
<1>3. /\ W \in [Procs -> States]
      /\ \A r \in Procs : W[r] = state[r] \/ (state[r] = "SLEEPING" /\ W[r] = "RUNNABLE")
  <2> DEFINE V == wakeup1(state, parent[p])
  <2>1. /\ V \in [Procs -> States]
        /\ \A r \in Procs : V[r] = state[r] \/ (state[r] = "SLEEPING" /\ V[r] = "RUNNABLE")
    BY <1>0, Wakeup1Facts, Zenon
  <2>2. W = V \/ W = wakeup1(V, initproc)
    BY Zenon DEF exit_wakes
  <2> HIDE DEF V, W
  <2>3. /\ wakeup1(V, initproc) \in [Procs -> States]
        /\ \A r \in Procs : \/ wakeup1(V, initproc)[r] = V[r]
                            \/ V[r] = "SLEEPING" /\ wakeup1(V, initproc)[r] = "RUNNABLE"
    BY <2>1, Wakeup1Facts, Zenon
  <2> QED BY <2>1, <2>2, <2>3, Zenon
<1> HIDE DEF W
<1>4. /\ state'[p] = "ZOMBIE"
      /\ \A r \in Procs \ {p} : state'[r] = state[r] \/ (state[r] = "SLEEPING" /\ state'[r] = "RUNNABLE")
  BY <1>1, <1>2, <1>3, Zenon
<1>5. Contains(queue[cqueue[c]], p) /\ cqueue[c][1] = active
  BY <1>1, Zenon DEF OneInv, AtCpu
<1>6. PICK r \in Queues : \E i \in 1..Len(queue[r]) : Taken(r, i, p)
  <2>1. ~\A r \in Queues : ~Contains(queue[r], p)
    BY <1>2, <1>5, Zenon
  <2> HIDE DEF p
  <2> QED BY <1>1, <2>1, Zenon DEF remove_proc_from_levels, FirstIndex, Taken
<1>7. r = cqueue[c]
  <2>1. PICK i \in 1..Len(queue[r]) : queue[r][i] = p
    BY <1>6, Zenon DEF Taken
  <2>2. PICK j \in 1..Len(queue[cqueue[c]]) : queue[cqueue[c]][j] = p
    BY <1>5, Zenon DEF Contains
  <2> QED BY <1>0, <1>2, <2>1, <2>2 DEF Distinct
<1>8. \E i : Taken(cqueue[c], i, p)
  BY <1>6, <1>7, Zenon
<1> QED BY <1>1, <1>2, <1>4, <1>5, <1>8, Zenon

-----------------------------------------------------------------------------
(* The invariant *)

LEMMA QueuePcs ==
  /\ \A l \in OnProc \cup Holding \cup {"sched", "init exiting"} : l \notin QueuePanics
  /\ \A l \in OnProc : l # "switch" /\ l # "migrate" /\ l # "swap" /\ l # "sched"
BY Zenon DEF OnProc, Holding, QueuePanics

LEMMA InitOne == ASSUME NEW c \in CPUS, Init PROVE OneInv(c)
<1>1. /\ pc[c] = "sched" /\ active = 0
      /\ \A k \in Levels : <<1, k>> \in Queues /\ levelTicks[<<1, k>>] = LEVEL_QUANTUM
  BY Zenon DEF Init, Queues
<1>2. initproc \in Procs /\ <<0, STARTING_LEVEL>> \in Queues
  BY ConstantsAssumption DEF ConstantsAssumption, Procs, initproc, Queues
<1>3. \A q \in Queues : \A i \in 1..Len(queue[q]) :
        q = <<0, STARTING_LEVEL>> /\ i = 1 /\ queue[q][i] = initproc
  <2> TAKE q \in Queues
  <2>1. CASE q = <<0, STARTING_LEVEL>>
    <3>1. queue[q] = <<initproc>>
      BY <2>1, Zenon DEF Init
    <3> QED BY <2>1, <3>1
  <2>2. CASE q # <<0, STARTING_LEVEL>>
    <3>1. queue[q] = << >>
      BY <2>2, Zenon DEF Init
    <3> QED BY <3>1
  <2> QED BY <2>1, <2>2, Zenon
<1>4. Contains(queue[<<0, STARTING_LEVEL>>], initproc)
  <2>1. queue[<<0, STARTING_LEVEL>>] = <<initproc>>
    BY <1>2, Zenon DEF Init
  <2>2. 1 \in 1..Len(<<initproc>>) /\ <<initproc>>[1] = initproc
    OBVIOUS
  <2> QED BY <2>1, <2>2, Zenon DEF Contains
<1>5. \A p \in Procs : state[p] \in Schedulable <=> p = initproc
  BY Zenon DEF Init, Schedulable
<1>6. Placed(c)
  BY <1>2, <1>3, <1>4, <1>5, Zenon DEF Placed, Distinct, In, Contains
<1>7. AtCpu(c) /\ pc[c] \notin QueuePanics
  BY <1>1, QueuePcs, Zenon DEF AtCpu
<1>8. FreshLevels(c)
  <2>1. 1 - active = 1 /\ pc[c] # "swap"
    BY <1>1
  <2> QED BY <1>1, <2>1, Zenon DEF FreshLevels
<1> QED BY <1>6, <1>7, <1>8, Zenon DEF OneInv

LEMMA OneNext ==
  ASSUME NEW c \in CPUS, Only(c), BaseInv, OneInv(c), [Next]_vars
  PROVE  OneInv(c)'
<1>d. Distinct(queue)
  BY Zenon DEF OneInv, Placed
\* Placed only looks at the queues, at who is Schedulable and at a migration.
<1>PlacedFrame.
  ASSUME Placed(c), queue' = queue, pc[c] # "migrate",
         \A p \in Procs : state'[p] \in Schedulable <=> state[p] \in Schedulable
  PROVE  Placed(c)'
  BY <1>PlacedFrame, Zenon DEF Placed, In
\* The expired set's quanta are not touched outside the set swap.
<1>FreshFrame.
  ASSUME FreshLevels(c), pc[c] # "swap", pc'[c] # "swap", active' = active,
         \A k \in Levels : levelTicks'[<<1 - active, k>>] = levelTicks[<<1 - active, k>>]
  PROVE  FreshLevels(c)'
  BY <1>FreshFrame, Zenon DEF FreshLevels
\* A step of the running process that moves nothing between queues: it stays
\* on the CPU, or gives it up.
<1>RunStep.
  ASSUME pc[c] \in OnProc, pc'[c] \in OnProc \cup {"switch", "init exiting"}, queue' = queue,
         active' = active, cproc' = cproc, cqueue' = cqueue,
         \A k \in Levels : levelTicks'[<<1 - active, k>>] = levelTicks[<<1 - active, k>>],
         \A p \in Procs : state'[p] \in Schedulable <=> state[p] \in Schedulable
  PROVE  OneInv(c)'
  <2> USE <1>RunStep
  <2>1. Placed(c)'
    BY <1>PlacedFrame, QueuePcs, Zenon DEF OneInv
  <2>2. FreshLevels(c)'
    BY <1>FreshFrame, QueuePcs, Zenon DEF OneInv
  <2>3. AtCpu(c)'
    BY QueuePcs, Zenon DEF OneInv, AtCpu
  <2>4. pc'[c] \notin QueuePanics
    BY QueuePcs, Zenon DEF Holding
  <2> QED BY <2>1, <2>2, <2>3, <2>4, Zenon DEF OneInv
\* The same between two rounds of scheduler().
<1>IdleStep.
  ASSUME pc[c] = "sched", pc' = pc, queue' = queue, active' = active, cproc' = cproc,
         cqueue' = cqueue, levelTicks' = levelTicks,
         \A p \in Procs : state'[p] \in Schedulable <=> state[p] \in Schedulable
  PROVE  OneInv(c)'
  <2> USE <1>IdleStep
  <2>1. Placed(c)'
    BY <1>PlacedFrame, Zenon DEF OneInv
  <2>2. FreshLevels(c)'
    BY <1>FreshFrame, Zenon DEF OneInv
  <2>3. AtCpu(c)'
    BY QueuePcs, Zenon DEF OneInv, AtCpu
  <2> QED BY <2>1, <2>2, <2>3, Zenon DEF OneInv
\* wakeup1 moves processes from SLEEPING to RUNNABLE only.
<1>WakeSchedulable.
  ASSUME NEW ch, state' = wakeup1(state, ch)
  PROVE  \A p \in Procs : state'[p] \in Schedulable <=> state[p] \in Schedulable
  <2> USE <1>WakeSchedulable
  <2>1. state \in [Procs -> States]
    BY Zenon DEF BaseInv, TypeOK
  <2> QED BY <2>1, Wakeup1Facts DEF Schedulable
<1>Clock.
  ASSUME ClockStep(c)
  PROVE  OneInv(c)'
  <2> USE <1>Clock
  <2> USE DEF levelVars, procVars, cpuVars
  <2>0. pc \in [CPUS -> Locations] /\ levelTicks \in [Queues -> Int] /\ active \in {0, 1}
    BY Zenon DEF BaseInv, TypeOK
  <2>1. CASE TimerInterrupt(c)
    <3>1. pc[c] \in OnProc /\ pc'[c] \in OnProc
      BY <2>0, <2>1, Zenon DEF TimerInterrupt, Goto, OnProc
    <3>2. \A p \in Procs : state'[p] \in Schedulable <=> state[p] \in Schedulable
      BY <2>1, <1>WakeSchedulable, Zenon DEF TimerInterrupt
    <3> QED BY <2>1, <3>1, <3>2, <1>RunStep, Zenon DEF TimerInterrupt
  <2>2. CASE TimerIdle(c)
    BY <2>2, <1>WakeSchedulable, <1>IdleStep, Zenon DEF TimerIdle
  <2>3. CASE TimerKilled(c)
    <3>1. pc[c] \in OnProc /\ pc'[c] \in OnProc \cup {"init exiting"}
      BY <2>0, <2>3, Zenon DEF TimerKilled, Panic, Goto, OnProc
    <3> QED BY <2>3, <3>1, <1>RunStep, Zenon DEF TimerKilled, Panic
  <2>4. CASE ChargeLoad(c)
    <3>1. pc[c] \in OnProc /\ pc'[c] \in OnProc
      BY <2>0, <2>4, Zenon DEF ChargeLoad, Goto, OnProc
    <3> QED BY <2>4, <3>1, <1>RunStep, Zenon DEF ChargeLoad
  <2>5. CASE ChargeStore(c)
    <3>1. pc[c] \in OnProc /\ pc'[c] \in OnProc
      BY <2>0, <2>5, Zenon DEF ChargeStore, Goto, OnProc
    <3>2. cqueue[c] \in Queues /\ cqueue[c][1] = active
      BY <3>1, OnProcFacts, Zenon DEF OneInv, AtCpu
    <3>3. \A k \in Levels : levelTicks'[<<1 - active, k>>] = levelTicks[<<1 - active, k>>]
      BY <2>0, <2>5, <3>2 DEF ChargeStore, Queues
    <3> QED BY <2>5, <3>1, <3>3, <1>RunStep, Zenon DEF ChargeStore
  <2> QED BY <2>1, <2>2, <2>3, <2>4, <2>5, Zenon DEF ClockStep
<1>wait.
  ASSUME wait(c)
  PROVE  OneInv(c)'
  <2> USE <1>wait
  <2> USE DEF levelVars
  <2>0. pc \in [CPUS -> Locations] /\ state \in [Procs -> States]
    BY Zenon DEF BaseInv, TypeOK
  <2>1. pc[c] \in OnProc /\ pc'[c] \in OnProc \cup {"switch"}
    BY <2>0, Zenon DEF wait, InUser, Sched, Goto, OnProc
  <2>2. cproc[c] \in Procs /\ state[cproc[c]] = "RUNNING"
    BY <2>1, OnProcFacts, Zenon
  <2>3. \A p \in Procs : state'[p] \in Schedulable <=> state[p] \in Schedulable
    BY <2>0, <2>2, Zenon DEF wait, Schedulable
  <2> QED BY <2>1, <2>3, <1>RunStep, Zenon DEF wait
\* The steps of a process that leave the queues alone.
<1>Process.
  ASSUME NEW ch, NEW t \in Procs,
         \/ yield(c) \/ allocproc(c) \/ ForkFail(c) \/ StartExit(c) \/ SyscallReturn(c)
         \/ sleep(c, ch) \/ wakeup(c, ch) \/ kill(c, t)
  PROVE  OneInv(c)'
  <2> USE <1>Process
  <2> USE DEF levelVars, procVars, cpuVars
  <2>0. pc \in [CPUS -> Locations] /\ state \in [Procs -> States]
    BY Zenon DEF BaseInv, TypeOK
  <2>1. CASE wakeup(c, ch)
    <3>1. \A p \in Procs : state'[p] \in Schedulable <=> state[p] \in Schedulable
      BY <2>1, <1>WakeSchedulable, Zenon DEF wakeup
    <3>2. CASE pc[c] = "sched"
      BY <2>1, <3>1, <3>2, <1>IdleStep, Zenon DEF wakeup
    <3>3. CASE pc[c] = "run"
      BY <2>1, <3>1, <3>3, <1>RunStep, Zenon DEF wakeup, OnProc
    <3> QED BY <2>1, <3>2, <3>3, Zenon DEF wakeup
  <2>2. CASE yield(c) \/ sleep(c, ch)
    <3>1. pc[c] \in OnProc /\ pc'[c] = "switch"
      BY <2>0, <2>2, Zenon DEF yield, sleep, InUser, Sched, Goto, OnProc
    <3>2. cproc[c] \in Procs /\ state[cproc[c]] = "RUNNING"
      BY <3>1, OnProcFacts, Zenon
    <3>3. \A p \in Procs : state'[p] \in Schedulable <=> state[p] \in Schedulable
      BY <2>0, <2>2, <3>2, Zenon DEF yield, sleep, Schedulable
    <3> QED BY <2>2, <3>1, <3>3, <1>RunStep, Zenon DEF yield, sleep
  <2>3. CASE allocproc(c) \/ ForkFail(c) \/ kill(c, t) \/ SyscallReturn(c)
    <3>1. pc[c] \in OnProc /\ pc' = pc
      BY <2>3, Zenon DEF allocproc, ForkFail, kill, SyscallReturn, InUser, OnProc
    <3>2. ForkFail(c) => child[cproc[c]] \in Procs /\ state[child[cproc[c]]] = "EMBRYO"
      BY <3>1, OnProcFacts, Zenon DEF ForkFail, BaseInv, ForkInv
    <3>3. \A p \in Procs : state'[p] \in Schedulable <=> state[p] \in Schedulable
      BY <2>0, <2>3, <3>2, Zenon DEF allocproc, ForkFail, kill, SyscallReturn, Schedulable
    <3> QED BY <2>3, <3>1, <3>3, <1>RunStep, Zenon DEF allocproc, ForkFail, kill, SyscallReturn
  <2>4. CASE StartExit(c)
    <3>1. pc[c] \in OnProc /\ pc'[c] \in OnProc \cup {"init exiting"}
      BY <2>0, <2>4, Zenon DEF StartExit, Panic, Goto, OnProc
    <3> QED BY <2>4, <3>1, <1>RunStep, Zenon DEF StartExit, Panic
  <2> QED BY <2>1, <2>2, <2>3, <2>4, Zenon
\* An entry that moves to another level, joins the queues or leaves them.
<1>Relocate.
  ASSUME NEW p \in Procs, NEW nq \in Queues, Relocated(p, nq), state'[p] \in Schedulable,
         \A x \in Procs \ {p} : state'[x] \in Schedulable <=> state[x] \in Schedulable,
         pc[c] = "migrate" => cproc[c] = p \/ (pc'[c] = "migrate" /\ cproc'[c] = cproc[c])
  PROVE  Placed(c)'
  <2> USE <1>Relocate
  <2>1. In(queue', p) /\ \A r \in Queues : \A x \in Procs \ {p} : Contains(queue'[r], x) <=> Contains(queue[r], x)
    BY Zenon DEF Relocated, In
  <2>2. \A x \in Procs \ {p} : In(queue, x) => In(queue', x)
    BY <2>1, Zenon DEF In
  <2>3. \A r \in Queues : \A x \in Procs : Contains(queue'[r], x) => state'[x] \in Schedulable
    BY <2>1, Zenon DEF OneInv, Placed
  <2>4. \A x \in Procs : state'[x] \in Schedulable => In(queue', x) \/ (pc'[c] = "migrate" /\ cproc'[c] = x)
    BY <2>1, <2>2, Zenon DEF OneInv, Placed
  <2> QED BY <2>3, <2>4, Zenon DEF Placed, Relocated
<1>Remove.
  ASSUME NEW p \in Procs, Removed(p), state'[p] \in Schedulable => pc'[c] = "migrate" /\ cproc'[c] = p,
         \A x \in Procs \ {p} : state'[x] \in Schedulable <=> state[x] \in Schedulable,
         pc[c] = "migrate" => pc'[c] = "migrate" /\ cproc'[c] = cproc[c]
  PROVE  Placed(c)'
  <2> USE <1>Remove
  <2>1. \A r \in Queues : ~Contains(queue'[r], p)
    BY Zenon DEF Removed, In
  <2>2. \A r \in Queues : \A x \in Procs \ {p} : Contains(queue'[r], x) <=> Contains(queue[r], x)
    BY Zenon DEF Removed
  <2>3. \A r \in Queues : \A x \in Procs : Contains(queue'[r], x) => state'[x] \in Schedulable
    BY <2>1, <2>2, Zenon DEF OneInv, Placed
  <2>4. \A x \in Procs : state'[x] \in Schedulable => In(queue', x) \/ (pc'[c] = "migrate" /\ cproc'[c] = x)
    BY <2>2, Zenon DEF OneInv, Placed, In
  <2> QED BY <2>3, <2>4, Zenon DEF Placed, Removed
<1>SwapMove.
  ASSUME SwapMove(c)
  PROVE  OneInv(c)'
  <2>1. PICK p \in Procs :
          /\ Shifted(<<1 - active, swapLevel>>, 1, p, <<active, defaultLevel[p]>>)
          /\ UNCHANGED <<state, levelTicks, active, pc, cproc, cqueue, swapLevel>>
    BY <1>SwapMove, SwapMoveEffect, Zenon
  <2>2. Relocated(p, <<active, defaultLevel[p]>>) /\ <<active, defaultLevel[p]>> \in Queues /\ In(queue, p)
    BY <2>1, <1>d, ShiftedFacts DEF Shifted, In
  <2>3. pc[c] = "swap" /\ state[p] \in Schedulable
    BY <1>SwapMove, <2>2, Zenon DEF SwapMove, OneInv, Placed, In
  <2>4. Placed(c)'
    BY <2>1, <2>2, <2>3, <1>Relocate, Zenon
  <2>5. AtCpu(c)' /\ FreshLevels(c)'
    BY <2>1, <2>3, QueuePcs, Zenon DEF AtCpu, OneInv, FreshLevels
  <2> QED BY <2>1, <2>4, <2>5, Zenon DEF OneInv
<1>SwapSets.
  ASSUME SwapSets(c)
  PROVE  OneInv(c)'
  <2> USE <1>SwapSets
  <2>1. /\ pc[c] = "sched" /\ pc'[c] = "swap" /\ active \in {0, 1} /\ active' = 1 - active
        /\ swapLevel' = 0 /\ queue' = queue /\ state' = state /\ levelTicks \in [Queues -> Int]
        /\ levelTicks' = [levelTicks EXCEPT ![<<active, 0>>] = LEVEL_QUANTUM]
    BY Zenon DEF SwapSets, Goto, procVars, BaseInv, TypeOK
  <2>2. Placed(c)'
    BY <2>1, <1>PlacedFrame, Zenon DEF OneInv
  <2>3. AtCpu(c)'
    BY <2>1, QueuePcs, Zenon DEF AtCpu
  <2>4. \A k \in Levels : levelTicks[<<1 - active, k>>] = LEVEL_QUANTUM
    BY <2>1, Zenon DEF OneInv, FreshLevels
  <2>5. ASSUME NEW k \in Levels
        PROVE  /\ levelTicks'[<<active', k>>] = LEVEL_QUANTUM
               /\ k <= swapLevel' => levelTicks'[<<1 - active', k>>] = LEVEL_QUANTUM
    <3>1. <<1 - active, k>> # <<active, 0>> /\ 1 - active' = active
      BY <2>1
    <3>2. <<1 - active, k>> \in Queues /\ <<active, 0>> \in Queues
      BY <2>1, ZeroLevel DEF Queues
    <3>3. k <= 0 => k = 0
      BY DEF Levels
    <3> QED BY <2>1, <2>4, <3>1, <3>2, <3>3, Zenon
  <2>6. FreshLevels(c)'
    BY <2>1, <2>5, Zenon DEF FreshLevels
  <2>7. pc'[c] \notin QueuePanics
    BY <2>1, QueuePcs, Zenon DEF Holding
  <2> QED BY <2>2, <2>3, <2>6, <2>7, Zenon DEF OneInv
<1>SwapNext.
  ASSUME SwapNext(c)
  PROVE  OneInv(c)'
  <2> USE <1>SwapNext
  <2>0. /\ pc[c] = "swap" /\ pc'[c] \in {"swap", "sched"} /\ queue' = queue /\ state' = state
        /\ active' = active /\ active \in {0, 1} /\ levelTicks \in [Queues -> Int]
        /\ swapLevel \in Levels /\ LEVELS \in Nat
    BY ConstantsAssumption, Zenon DEF SwapNext, Goto, procVars, BaseInv, TypeOK, ConstantsAssumption
  <2>1. Placed(c)'
    BY <2>0, <1>PlacedFrame, Zenon DEF OneInv
  <2>2. AtCpu(c)'
    BY <2>0, QueuePcs, Zenon DEF AtCpu
  <2>3. pc'[c] \notin QueuePanics
    BY <2>0, QueuePcs, Zenon DEF Holding
  <2>4. \A k \in Levels : /\ levelTicks[<<active, k>>] = LEVEL_QUANTUM
                          /\ k <= swapLevel => levelTicks[<<1 - active, k>>] = LEVEL_QUANTUM
    BY <2>0, Zenon DEF OneInv, FreshLevels
  <2>5. CASE swapLevel + 1 < LEVELS
    <3>1. /\ swapLevel' = swapLevel + 1 /\ pc' = pc
          /\ levelTicks' = [levelTicks EXCEPT ![<<1 - active, swapLevel + 1>>] = LEVEL_QUANTUM]
      BY <2>5, Zenon DEF SwapNext
    <3>2. ASSUME NEW k \in Levels
          PROVE  /\ levelTicks'[<<active, k>>] = LEVEL_QUANTUM
                 /\ k <= swapLevel' => levelTicks'[<<1 - active, k>>] = LEVEL_QUANTUM
      <4>1. <<active, k>> \in Queues /\ <<1 - active, k>> \in Queues
        BY <2>0 DEF Queues
      <4>2. <<active, k>> # <<1 - active, swapLevel + 1>>
        BY <2>0
      <4>3. k <= swapLevel + 1 => k <= swapLevel \/ k = swapLevel + 1
        BY <2>0 DEF Levels
      <4> QED BY <2>0, <2>4, <3>1, <4>1, <4>2, <4>3, Zenon
    <3>3. FreshLevels(c)'
      BY <2>0, <3>1, <3>2, Zenon DEF FreshLevels
    <3> QED BY <2>1, <2>2, <2>3, <3>3, Zenon DEF OneInv
  <2>6. CASE ~(swapLevel + 1 < LEVELS)
    <3>1. pc'[c] = "sched" /\ levelTicks' = levelTicks
      BY <2>6, Zenon DEF SwapNext, Goto, BaseInv, TypeOK
    <3>2. \A k \in Levels : k <= swapLevel
      BY <2>0, <2>6 DEF Levels
    <3>3. FreshLevels(c)'
      BY <2>0, <2>4, <3>1, <3>2, Zenon DEF FreshLevels
    <3> QED BY <2>1, <2>2, <2>3, <3>3, Zenon DEF OneInv
  <2> QED BY <2>5, <2>6, Zenon
<1>Dispatch.
  ASSUME Dispatch(c)
  PROVE  OneInv(c)'
  <2> USE <1>Dispatch
  <2>0. /\ pc \in [CPUS -> Locations] /\ state \in [Procs -> States] /\ active \in {0, 1}
        /\ cproc \in [CPUS -> Procs \cup {NULL}] /\ cqueue \in [CPUS -> Queues \cup {NULL}]
        /\ queue \in [Queues -> Seq(Procs)]
    BY Zenon DEF BaseInv, TypeOK
  <2>1. /\ pc[c] = "sched" /\ queue' = queue /\ active' = active /\ levelTicks' = levelTicks
        /\ pc'[c] \in {"run", "wait"}
    BY <2>0, Zenon DEF Dispatch, levelVars, Goto
  <2>2. PICK k \in Levels : \E i \in 1..Len(queue[<<active, k>>]) :
          /\ state[queue[<<active, k>>][i]] = "RUNNABLE"
          /\ cproc' = [cproc EXCEPT ![c] = queue[<<active, k>>][i]]
          /\ cqueue' = [cqueue EXCEPT ![c] = <<active, k>>]
          /\ state' = [state EXCEPT ![queue[<<active, k>>][i]] = "RUNNING"]
    BY Zenon DEF Dispatch, First, Eligible
  <2>a. PICK i \in 1..Len(queue[<<active, k>>]) :
          /\ state[queue[<<active, k>>][i]] = "RUNNABLE"
          /\ cproc' = [cproc EXCEPT ![c] = queue[<<active, k>>][i]]
          /\ cqueue' = [cqueue EXCEPT ![c] = <<active, k>>]
          /\ state' = [state EXCEPT ![queue[<<active, k>>][i]] = "RUNNING"]
    BY <2>2, Zenon
  <2>3. <<active, k>> \in Queues /\ queue[<<active, k>>][i] \in Procs
    BY <2>0, QueueTypes, Zenon DEF Queues
  <2>4. cqueue'[c] = <<active, k>> /\ cproc'[c] = queue[<<active, k>>][i]
    BY <2>0, <2>a, Zenon
  <2>5. \A p \in Procs : state'[p] \in Schedulable <=> state[p] \in Schedulable
    BY <2>0, <2>a, <2>3, Zenon DEF Schedulable
  <2>6. Placed(c)'
    BY <2>1, <2>5, <1>PlacedFrame, Zenon DEF OneInv
  <2>7. AtCpu(c)'
    <3>1. Contains(queue[<<active, k>>], queue[<<active, k>>][i])
      BY Zenon DEF Contains
    <3>2. Contains(queue[cqueue'[c]], cproc'[c]) /\ cqueue'[c][1] = active
      BY <2>4, <3>1
    <3> QED BY <2>1, <3>2, Zenon DEF AtCpu
  <2>8. FreshLevels(c)'
    BY <2>1, <1>FreshFrame, Zenon DEF OneInv
  <2>9. pc'[c] \notin QueuePanics
    BY <2>1, QueuePcs, Zenon DEF OnProc
  <2> QED BY <2>6, <2>7, <2>8, <2>9, Zenon DEF OneInv
\* The end of scheduler()'s round: the CPU is free again.
<1>Leave.
  ASSUME Leave(c), Placed(c)', pc[c] # "swap", levelTicks' = levelTicks, active' = active
  PROVE  OneInv(c)'
  <2> USE <1>Leave
  <2>1. pc'[c] = "sched"
    BY Zenon DEF Leave, Goto, BaseInv, TypeOK
  <2>2. AtCpu(c)' /\ pc'[c] \notin QueuePanics
    BY <2>1, QueuePcs, Zenon DEF AtCpu
  <2>3. FreshLevels(c)'
    BY <2>1, <1>FreshFrame, Zenon DEF OneInv
  <2> QED BY <2>2, <2>3, Zenon DEF OneInv
<1>Requeue.
  ASSUME Requeue(c)
  PROVE  OneInv(c)'
  <2>1. /\ pc[c] = "switch" /\ cproc[c] \in Procs /\ Leave(c) /\ UNCHANGED <<state, levelTicks, active>>
        /\ \/ queue' = queue
           \/ \E nq \in Queues : \E i \in 1..Len(queue[cqueue[c]]) : Shifted(cqueue[c], i, cproc[c], nq)
    BY <1>Requeue, RequeueEffect, Zenon
  <2>2. CASE queue' = queue
    BY <2>1, <2>2, <1>PlacedFrame, <1>Leave, Zenon DEF OneInv
  <2>3. ASSUME NEW nq \in Queues, NEW i \in 1..Len(queue[cqueue[c]]), Shifted(cqueue[c], i, cproc[c], nq)
        PROVE  OneInv(c)'
    <3>1. Relocated(cproc[c], nq) /\ In(queue, cproc[c])
      BY <1>d, <2>1, <2>3, ShiftedFacts DEF Shifted, In
    <3>2. state[cproc[c]] \in Schedulable
      BY <2>1, <3>1, Zenon DEF OneInv, Placed, In
    <3>3. Placed(c)'
      BY <2>1, <3>1, <3>2, <1>Relocate, Zenon
    <3> QED BY <2>1, <3>3, <1>Leave, Zenon
  <2> QED BY <2>1, <2>2, <2>3, Zenon
<1>Deplete.
  ASSUME Deplete(c)
  PROVE  OneInv(c)'
  <2> USE <1>Deplete
  <2>1. /\ pc[c] = "switch" /\ pc'[c] = "migrate" /\ state' = state /\ queue' = queue
        /\ levelTicks' = levelTicks /\ active' = active /\ cproc' = cproc /\ cqueue' = cqueue
    BY Zenon DEF Deplete, Goto, BaseInv, TypeOK, levelVars, procVars
  <2>2. cproc[c] \in Procs /\ cqueue[c] \in Queues
    BY <2>1, SwitchFacts, Zenon
  <2>3. Placed(c)' /\ FreshLevels(c)'
    BY <2>1, <1>PlacedFrame, <1>FreshFrame, Zenon DEF OneInv
  <2>4. pc'[c] \notin QueuePanics
    BY <2>1, QueuePcs, Zenon DEF Holding
  <2>5. \A r \in Queues : Contains(queue[r], cproc[c]) => r = cqueue[c]
    BY <2>1, <2>2 DEF OneInv, AtCpu, Placed, Distinct, Contains, Schedulable
  <2>6. state[cproc[c]] \in Schedulable \cup {"ZOMBIE"}
    BY <2>1, <2>2, Zenon DEF OneInv, AtCpu, Placed
  <2>7. cqueue[c][1] = active
    BY <2>1, Zenon DEF OneInv, AtCpu
  <2>8. AtCpu(c)'
    BY <2>1, <2>5, <2>6, <2>7, QueuePcs, Zenon DEF AtCpu
  <2> QED BY <2>3, <2>4, <2>8, Zenon DEF OneInv
<1>MigrateMove.
  ASSUME MigrateMove(c)
  PROVE  OneInv(c)'
  <2>1. /\ pc[c] = "migrate" /\ cproc[c] \in Procs /\ cqueue[c] \in Queues
        /\ UNCHANGED <<state, levelTicks, active, pc, cproc, cqueue, swapLevel>>
    BY <1>MigrateMove, MigrateMoveEffect, Zenon
  <2>2. PICK np \in Procs :
          \/ np = cproc[c] /\ Taken(cqueue[c], 1, np)
          \/ np # cproc[c] /\ \E nq \in Queues : Shifted(cqueue[c], 1, np, nq)
    BY <1>MigrateMove, MigrateMoveEffect, Zenon
  <2>3. Placed(c)' /\ \A r \in Queues : Contains(queue'[r], cproc[c]) => Contains(queue[r], cproc[c])
    <3>1. CASE np = cproc[c] /\ Taken(cqueue[c], 1, np)
      <4>1. Removed(np)
        BY <1>d, <3>1, TakenFacts, Zenon
      <4> QED BY <2>1, <3>1, <4>1, <1>Remove, Zenon DEF Removed, In
    <3>2. ASSUME np # cproc[c], NEW nq \in Queues, Shifted(cqueue[c], 1, np, nq)
          PROVE  Placed(c)' /\ \A r \in Queues : Contains(queue'[r], cproc[c]) => Contains(queue[r], cproc[c])
      <4>1. Relocated(np, nq) /\ Contains(queue[cqueue[c]], np)
        BY <1>d, <2>1, <3>2, ShiftedFacts
      <4>2. state[np] \in Schedulable
        BY <2>1, <4>1, Zenon DEF OneInv, Placed
      <4> QED BY <2>1, <3>2, <4>1, <4>2, <1>Relocate DEF Relocated
    <3> QED BY <2>2, <3>1, <3>2, Zenon
  <2>4. AtCpu(c)'
    <3>1. /\ cqueue[c][1] = active /\ state[cproc[c]] \in Schedulable \cup {"ZOMBIE"}
          /\ \A r \in Queues : Contains(queue[r], cproc[c]) => r = cqueue[c]
      BY <2>1, Zenon DEF OneInv, AtCpu
    <3> QED BY <2>1, <2>3, <3>1, QueuePcs, Zenon DEF AtCpu
  <2>5. FreshLevels(c)'
    BY <2>1, Zenon DEF OneInv, FreshLevels
  <2> QED BY <2>1, <2>3, <2>4, <2>5, Zenon DEF OneInv
<1>MigrateLast.
  ASSUME MigrateLast(c)
  PROVE  OneInv(c)'
  <2>1. /\ pc[c] = "migrate" /\ cproc[c] \in Procs /\ ~In(queue, cproc[c]) /\ Leave(c)
        /\ UNCHANGED <<state, levelTicks, active>>
        /\ \/ state[cproc[c]] = "ZOMBIE" /\ queue' = queue
           \/ state[cproc[c]] # "ZOMBIE" /\ \E nq \in Queues : queue' = enqueue_proc(queue, cproc[c], nq)
    BY <1>MigrateLast, MigrateLastEffect, Zenon
  <2>2. state[cproc[c]] \in Schedulable \cup {"ZOMBIE"}
    BY <2>1, Zenon DEF OneInv, AtCpu
  <2>3. CASE state[cproc[c]] = "ZOMBIE" /\ queue' = queue
    <3>1. Placed(c)'
      BY <2>1, <2>3, Zenon DEF OneInv, Placed, Schedulable
    <3> QED BY <2>1, <3>1, <1>Leave, Zenon
  <2>4. ASSUME state[cproc[c]] # "ZOMBIE", NEW nq \in Queues, queue' = enqueue_proc(queue, cproc[c], nq)
        PROVE  OneInv(c)'
    <3>1. Relocated(cproc[c], nq)
      BY <1>d, <2>1, <2>4, JoinedFacts, Zenon
    <3>2. Placed(c)'
      BY <2>1, <2>2, <2>4, <3>1, <1>Relocate, Zenon
    <3> QED BY <2>1, <3>2, <1>Leave, Zenon
  <2> QED BY <2>1, <2>3, <2>4, Zenon
<1>exit.
  ASSUME exit(c)
  PROVE  OneInv(c)'
  <2>1. /\ pc[c] = "run" /\ cproc[c] \in Procs /\ cqueue[c] \in Queues /\ cqueue[c][1] = active
        /\ pc' = [pc EXCEPT ![c] = "switch"] /\ UNCHANGED <<levelTicks, active, cproc, cqueue>>
        /\ state'[cproc[c]] = "ZOMBIE"
    BY <1>exit, exitEffect, Zenon
  <2>2. PICK i : Taken(cqueue[c], i, cproc[c])
    BY <1>exit, exitEffect, Zenon
  <2>3. \A r \in Procs \ {cproc[c]} :
          state'[r] = state[r] \/ (state[r] = "SLEEPING" /\ state'[r] = "RUNNABLE")
    BY <1>exit, exitEffect, Zenon
  <2>4. pc'[c] = "switch"
    BY <2>1, Zenon DEF BaseInv, TypeOK
  <2>5. Removed(cproc[c])
    BY <1>d, <2>1, <2>2, TakenFacts, Zenon
  <2>6. /\ state'[cproc[c]] \notin Schedulable
        /\ \A x \in Procs \ {cproc[c]} : state'[x] \in Schedulable <=> state[x] \in Schedulable
    BY <2>1, <2>3, Zenon DEF Schedulable
  <2>7. Placed(c)'
    BY <2>1, <2>5, <2>6, <1>Remove, Zenon
  <2>8. AtCpu(c)' /\ pc'[c] \notin QueuePanics
    BY <2>1, <2>4, QueuePcs, Zenon DEF AtCpu, Holding
  <2>9. FreshLevels(c)'
    BY <2>1, <2>4, <1>FreshFrame, Zenon DEF OneInv
  <2> QED BY <2>7, <2>8, <2>9, Zenon DEF OneInv
<1>priofork.
  ASSUME NEW level \in Levels, priofork(c, level)
  PROVE  OneInv(c)'
  <2>1. PICK np \in Procs, nq \in Queues :
          /\ pc[c] = "run" /\ state[np] = "EMBRYO" /\ ~In(queue, np) /\ queue' = enqueue_proc(queue, np, nq)
          /\ state' = [state EXCEPT ![np] = "RUNNABLE"]
          /\ UNCHANGED <<levelTicks, active, cpuVars>>
    BY <1>priofork, prioforkEffect
  <2>2. UNCHANGED <<pc, cproc, cqueue>>
    BY <2>1, Zenon DEF cpuVars
  <2>3. Relocated(np, nq)
    BY <1>d, <2>1, JoinedFacts, Zenon
  <2>4. state'[np] \in Schedulable /\ \A x \in Procs \ {np} : state'[x] = state[x]
    BY <2>1, Zenon DEF BaseInv, TypeOK, Schedulable
  <2>5. Placed(c)'
    BY <2>1, <2>3, <2>4, <1>Relocate, Zenon
  <2>6. AtCpu(c)'
    <3>1. cqueue[c] \in Queues /\ cqueue[c][1] = active /\ Contains(queue[cqueue[c]], cproc[c])
      BY <2>1, OnProcFacts, Zenon DEF OnProc, OneInv, AtCpu
    <3>2. cproc[c] \in Procs /\ cproc[c] # np
      BY <2>1, OnProcFacts, Zenon DEF OnProc
    <3>3. Contains(queue'[cqueue[c]], cproc[c])
      BY <2>3, <3>1, <3>2, Zenon DEF Relocated
    <3> QED BY <2>1, <2>2, <3>1, <3>3, Zenon DEF AtCpu
  <2>7. FreshLevels(c)' /\ pc'[c] \notin QueuePanics
    BY <2>1, <2>2, Zenon DEF OneInv, FreshLevels
  <2> QED BY <2>5, <2>6, <2>7, Zenon DEF OneInv
<1>1. CASE UNCHANGED vars
  <2>1. Placed(c)'
    BY <1>1, Zenon DEF vars, OneInv, Placed, In
  <2>2. AtCpu(c)' /\ FreshLevels(c)' /\ pc'[c] \notin QueuePanics
    BY <1>1, Zenon DEF vars, OneInv, AtCpu, FreshLevels
  <2> QED BY <2>1, <2>2, Zenon DEF OneInv
<1>2. CASE Next
  <2>1. SchedulerStep(c) \/ ClockStep(c) \/ ProcessStep(c) \/ UNCHANGED vars
    BY <1>2, Zenon DEF Next, Only, Frozen
  <2>2. CASE SchedulerStep(c)
    BY <2>2, <1>Dispatch, <1>SwapSets, <1>SwapMove, <1>SwapNext, <1>Requeue,
       RequeuePanicOne, <1>Deplete, <1>MigrateMove, <1>MigrateLast, Zenon DEF SchedulerStep
  <2>3. CASE ClockStep(c)
    BY <2>3, <1>Clock, Zenon
  <2>4. CASE ProcessStep(c)
    <3>1. initproc \in Procs
      BY ConstantsAssumption DEF ConstantsAssumption, Procs, initproc
    <3>2. (yield(c) \/ allocproc(c) \/ ForkFail(c) \/ StartExit(c) \/ SyscallReturn(c)) => OneInv(c)'
      BY <3>1, <1>Process, Zenon
    <3>3. \A ch \in Chans : sleep(c, ch) \/ wakeup(c, ch) => OneInv(c)'
      BY <3>1, <1>Process, Zenon
    <3>4. \A t \in Procs : kill(c, t) => OneInv(c)'
      BY <1>Process, Zenon
    <3> QED BY <2>4, <3>2, <3>3, <3>4, <1>exit, <1>wait, <1>priofork, Zenon DEF ProcessStep
  <2> QED BY <1>1, <2>1, <2>2, <2>3, <2>4, Zenon
<1> QED BY <1>1, <1>2, Zenon

\* The scheduler of a machine with one CPU: every step of proc.c and trap.c
\* preserves the conjunction of the invariants.
THEOREM UniInductive ==
  ASSUME \A c, d \in CPUS : c = d
  PROVE  Spec => []UniInv
<1>1. Init => UniInv
  BY TheCpu, BaseInit, InitOne, Zenon
<1>2. UniInv /\ [Next]_vars => UniInv'
  BY TheCpu, BaseNext, OneNext, Zenon
<1> QED BY <1>1, <1>2, PTL DEF Spec

\* With one CPU no process is lost, duplicated or left behind in the level
\* queues: between any two critical sections of ptable.lock the entries are
\* exactly the SLEEPING, RUNNABLE and RUNNING processes, each once.
THEOREM EveryProcessQueuedOnce ==
  ASSUME \A c, d \in CPUS : c = d
  PROVE  Spec => []QueuedOnce
<1>1. UniInv => QueuedOnce
  <2> SUFFICES ASSUME UniInv, lock = NULL
               PROVE  /\ \A p \in Procs : state[p] \in Schedulable <=> In(queue, p)
                      /\ Distinct(queue)
    BY Zenon DEF QueuedOnce, LockFree
  <2>1. \A c \in CPUS : pc[c] # "migrate"
    BY LockFreeFacts, Zenon DEF UniInv, BaseInv, Holding
  <2> QED BY <2>1, Zenon DEF UniInv, QueueInv, In
<1> QED BY <1>1, UniInductive, PTL

\* With one CPU neither unqueue_proc() nor find_available_queue() panics: the
\* expired set always has a level with quantum and room, whatever the quanta.
THEOREM NoSchedulerPanic ==
  ASSUME \A c, d \in CPUS : c = d
  PROVE  Spec => []NoQueuePanic
<1>1. UniInv => NoQueuePanic
  BY Zenon DEF UniInv
<1> QED BY <1>1, UniInductive, PTL

\* With one CPU c->queue is the active level that holds the running process,
\* so the clock charges the right level.
THEOREM ChargesOwnLevel ==
  ASSUME \A c, d \in CPUS : c = d
  PROVE  Spec => []CpuQueueCurrent
<1>1. UniInv => CpuQueueCurrent
  BY Zenon DEF UniInv, QueueInv, AtCpu, CpuQueueCurrent
<1> QED BY <1>1, UniInductive, PTL
=============================================================================
