-------------------------- MODULE RSDLEpochProofs ---------------------------
(*****************************************************************************)
(* The quanta of an epoch, the time between two set swaps, on one CPU.       *)
(*****************************************************************************)
EXTENDS RSDLUniProofs

LEMMA Quanta == PROC_QUANTUM \in Nat /\ PROC_QUANTUM > 0 /\ LEVEL_QUANTUM \in Nat /\ LEVEL_QUANTUM > 0
BY ConstantsAssumption DEF ConstantsAssumption

LEMMA LevelTypes ==
  ASSUME BaseInv
  PROVE  /\ \A p \in Procs : defaultLevel[p] \in Levels /\ defaultLevel[p] \in Nat
         /\ \A q \in Queues : q = <<q[1], q[2]>> /\ q[1] \in {0, 1} /\ q[2] \in Levels /\ q[2] \in Nat
<1>1. \A k \in Levels : k \in Nat
  BY DEF Levels
<1>2. \A q \in Queues : q = <<q[1], q[2]>> /\ q[1] \in {0, 1} /\ q[2] \in Levels
  BY DEF Queues
<1>3. \A p \in Procs : defaultLevel[p] \in Levels
  BY Zenon DEF BaseInv, TypeOK
<1> QED BY <1>1, <1>2, <1>3, Zenon

LEMMA InLevel ==
  ASSUME NEW c \in CPUS, OneEpoch(c), NEW q \in Queues, NEW p \in Procs, Contains(queue[q], p)
  PROVE  QuantaInLevel(c, q, p) /\ defaultLevel[p] <= q[2]
BY DEF OneEpoch, QuantaInLevel

-----------------------------------------------------------------------------
(* The steps that leave the queues alone *)

\* The other steps of the clock interrupt and of a process.
LEMMA ClockCalm ==
  ASSUME NEW c \in CPUS, BaseInv,
         TimerInterrupt(c) \/ TimerIdle(c) \/ TimerKilled(c) \/ ChargeLoad(c)
  PROVE  /\ UNCHANGED <<queue, levelTicks, active, ticksLeft, defaultLevel, cproc, cqueue>>
         /\ \A p \in Procs : state'[p] = "EMBRYO" => state[p] = "EMBRYO"
         /\ pc[c] \notin {"swap", "migrate", "charge"} /\ pc'[c] \notin {"swap", "migrate"}
         /\ pc[c] \in Ending => pc'[c] \in Ending
         /\ pc'[c] \in Charging => pc[c] \in Charging
         /\ pc'[c] = "charge" => reg'[c] = <<ticksLeft[cproc[c]], levelTicks[cqueue[c]]>>
<1>0. state \in [Procs -> States] /\ pc \in [CPUS -> Locations] /\ reg \in [CPUS -> Int \X Int]
  BY Zenon DEF BaseInv, TypeOK
<1>1. UNCHANGED <<queue, levelTicks, active, ticksLeft, defaultLevel, cproc, cqueue>>
  BY Zenon DEF TimerInterrupt, TimerIdle, TimerKilled, ChargeLoad, Panic, procVars, levelVars, cpuVars
<1>2. \A ch : \A p \in Procs : wakeup1(state, ch)[p] = "EMBRYO" => state[p] = "EMBRYO"
  BY Zenon DEF wakeup1
<1>3. \A p \in Procs : state'[p] = "EMBRYO" => state[p] = "EMBRYO"
  BY <1>2, Zenon DEF TimerInterrupt, TimerIdle, TimerKilled, ChargeLoad, Panic, procVars
<1>4. \/ pc[c] = "run" /\ pc'[c] = "timer"
      \/ pc[c] = "sched" /\ pc'[c] = "sched"
      \/ pc[c] = "timer" /\ pc'[c] \in {"run", "init exiting"}
      \/ /\ pc[c] = "timer" /\ pc'[c] = "charge"
         /\ reg'[c] = <<ticksLeft[cproc[c]], levelTicks[cqueue[c]]>>
  BY <1>0, Zenon DEF TimerInterrupt, TimerIdle, TimerKilled, ChargeLoad, Panic, Goto, cpuVars
<1>5. /\ pc[c] \notin {"swap", "migrate", "charge"} /\ pc'[c] \notin {"swap", "migrate"}
      /\ pc[c] \in Ending => pc'[c] \in Ending
      /\ pc'[c] \in Charging => pc[c] \in Charging
      /\ pc'[c] = "charge" => reg'[c] = <<ticksLeft[cproc[c]], levelTicks[cqueue[c]]>>
  BY <1>4, Zenon DEF Charging, Ending
<1> QED BY <1>1, <1>3, <1>5, Zenon

LEMMA ProcessCalm ==
  ASSUME NEW c \in CPUS, NEW ch, NEW t \in Procs, BaseInv,
         \/ yield(c) \/ ForkFail(c) \/ StartExit(c) \/ wait(c) \/ SyscallReturn(c)
         \/ sleep(c, ch) \/ wakeup(c, ch) \/ kill(c, t)
  PROVE  /\ UNCHANGED <<queue, levelTicks, active, ticksLeft, defaultLevel, cproc, cqueue>>
         /\ \A p \in Procs : state'[p] = "EMBRYO" => state[p] = "EMBRYO"
         /\ pc[c] \notin {"swap", "migrate", "charge"} /\ pc'[c] \notin {"swap", "migrate", "charge"}
         /\ pc[c] \in Ending => pc'[c] \in Ending
         /\ pc'[c] \in Charging => pc[c] \in Charging
<1>0. state \in [Procs -> States] /\ pc \in [CPUS -> Locations]
  BY Zenon DEF BaseInv, TypeOK
<1>1. UNCHANGED <<queue, levelTicks, active, ticksLeft, defaultLevel, cproc, cqueue, reg>>
  BY Zenon DEF yield, ForkFail, StartExit, wait, SyscallReturn, sleep, wakeup, kill, Panic, procVars, levelVars, cpuVars
<1>2. \A p \in Procs : state'[p] = "EMBRYO" => state[p] = "EMBRYO"
  <2>1. CASE yield(c) \/ sleep(c, ch) \/ SyscallReturn(c) \/ StartExit(c)
    BY <1>0, <2>1, Zenon DEF yield, sleep, SyscallReturn, StartExit, Panic, procVars
  <2>2. CASE ForkFail(c) \/ wait(c)
    BY <1>0, <2>2, Zenon DEF ForkFail, wait
  <2>3. CASE wakeup(c, ch) \/ kill(c, t)
    BY <1>0, <2>3, Zenon DEF wakeup, kill, wakeup1
  <2> QED BY <2>1, <2>2, <2>3, Zenon
<1>3. \/ pc'[c] = pc[c] /\ pc[c] \in {"run", "sched"}
      \/ pc[c] = "run" /\ pc'[c] \in {"switch", "run", "init exiting"}
      \/ pc[c] = "yield" /\ pc'[c] = "switch"
      \/ pc[c] = "wait" /\ pc'[c] \in {"switch", "run"}
  <2>1. CASE yield(c) \/ sleep(c, ch)
    BY <1>0, <2>1, Zenon DEF yield, sleep, Sched, Goto, InUser
  <2>2. CASE wait(c)
    BY <1>0, <2>2, Zenon DEF wait, Sched, Goto, InUser
  <2>3. CASE ForkFail(c) \/ StartExit(c) \/ SyscallReturn(c)
    BY <1>0, <2>3, Zenon DEF ForkFail, StartExit, SyscallReturn, Panic, Goto, cpuVars
  <2>4. CASE wakeup(c, ch) \/ kill(c, t)
    BY <1>0, <2>4, Zenon DEF wakeup, kill, InUser, cpuVars
  <2> QED BY <2>1, <2>2, <2>3, <2>4, Zenon
<1>4. /\ pc[c] \notin {"swap", "migrate", "charge"} /\ pc'[c] \notin {"swap", "migrate", "charge"}
      /\ pc[c] \in Ending => pc'[c] \in Ending
      /\ pc'[c] \in Charging => pc[c] \in Charging
  BY <1>3, Zenon DEF Charging, Ending
<1> QED BY <1>1, <1>2, <1>4, Zenon

\* The steps that do not move anybody between queues.
LEMMA QueueKept ==
  ASSUME NEW c \in CPUS, NEW ch, NEW t,
         \/ Dispatch(c) \/ SwapSets(c) \/ SwapNext(c) \/ Deplete(c) \/ ClockStep(c)
         \/ yield(c) \/ allocproc(c) \/ ForkFail(c) \/ StartExit(c) \/ wait(c) \/ SyscallReturn(c)
         \/ sleep(c, ch) \/ wakeup(c, ch) \/ kill(c, t) \/ UNCHANGED vars
  PROVE  queue' = queue
BY Zenon DEF Dispatch, SwapSets, SwapNext, Deplete, ClockStep, TimerInterrupt, TimerIdle, TimerKilled, ChargeLoad,
       ChargeStore, yield, allocproc, ForkFail, StartExit, wait, SyscallReturn, sleep, wakeup, kill, Panic,
       levelVars, vars

LEMMA QueueSteps ==
  ASSUME NEW c \in CPUS, Only(c), BaseInv, OneInv(c), [Next]_vars
  PROVE  \/ queue' = queue \/ SwapMove(c) \/ Requeue(c) \/ MigrateMove(c) \/ MigrateLast(c) \/ exit(c)
         \/ \E level \in Levels : priofork(c, level)
<1>1. SchedulerStep(c) \/ ClockStep(c) \/ ProcessStep(c) \/ UNCHANGED vars
  BY Zenon DEF Next, Only, Frozen
<1> QED BY <1>1, RequeuePanicOne, QueueKept, Zenon DEF SchedulerStep, ProcessStep

-----------------------------------------------------------------------------
(* The quanta of an epoch *)

\* When the loop of the set swap ends, the old active set is empty.
LEMMA SwapEnd ==
  ASSUME NEW c \in CPUS, BaseInv, OneEpoch(c), SwapNext(c), swapLevel + 1 >= LEVELS
  PROVE  \A k \in Levels : queue[<<1 - active, k>>] = << >>
<1>1. swapLevel \in Levels /\ LEVELS \in Nat
  BY ConstantsAssumption, Zenon DEF BaseInv, TypeOK, ConstantsAssumption
<1>2. pc[c] = "swap" /\ queue[<<1 - active, swapLevel>>] = << >>
  BY Zenon DEF SwapNext
<1>3. \A k \in Levels : k = swapLevel \/ k \in 0..(swapLevel - 1)
  BY <1>1 DEF Levels
<1> QED BY <1>2, <1>3, Zenon DEF OneEpoch, QuantaAtCpu

LEMMA InitEpoch == ASSUME NEW c \in CPUS, Init PROVE OneEpoch(c)
<1>1. /\ pc[c] = "sched" /\ active = 0 /\ STARTING_LEVEL \in Levels /\ STARTING_LEVEL \in Nat
      /\ ticksLeft = [p \in Procs |-> IF p = initproc THEN PROC_QUANTUM ELSE 0]
      /\ defaultLevel = [p \in Procs |-> IF p = initproc THEN STARTING_LEVEL ELSE 0]
      /\ queue = [q \in Queues |-> IF q = <<0, STARTING_LEVEL>> THEN <<initproc>> ELSE << >>]
      /\ levelTicks = [q \in Queues |-> LEVEL_QUANTUM]
  BY ConstantsAssumption DEF ConstantsAssumption, Init, Levels
<1>2. QuantaInRange
  BY <1>1, Quanta DEF QuantaInRange
<1>3. \A p \in Procs : state[p] # "EMBRYO"
  BY Zenon DEF Init
<1>4. QuantaAtCpu(c)
  BY <1>1, Zenon DEF QuantaAtCpu, Charging
<1>5. ASSUME NEW q \in Queues, NEW p \in Procs, Contains(queue[q], p)
      PROVE  QuantaInLevel(c, q, p)
  <2>0. queue[q] = IF q = <<0, STARTING_LEVEL>> THEN <<initproc>> ELSE << >>
    BY <1>1, Zenon
  <2>1. q = <<0, STARTING_LEVEL>> /\ p = initproc
    BY <1>5, <2>0 DEF Contains
  <2>2. /\ q[1] = 0 /\ q[2] = STARTING_LEVEL /\ FreshSet(c) = 1
    BY <1>1, <2>1 DEF FreshSet
  <2>4. levelTicks[q] = LEVEL_QUANTUM
    BY <1>1, Zenon
  <2>3. ticksLeft[p] = PROC_QUANTUM /\ defaultLevel[p] = STARTING_LEVEL
    BY <1>1, <2>1, Zenon
  <2> QED BY <1>1, <2>2, <2>3, <2>4, Quanta DEF QuantaInLevel
<1> QED BY <1>2, <1>3, <1>4, <1>5, Zenon DEF OneEpoch

LEMMA EpochNext ==
  ASSUME NEW c \in CPUS, Only(c), BaseInv, OneInv(c), OneEpoch(c), [Next]_vars
  PROVE  OneEpoch(c)'
\* A quantum that is kept or replenished stays in its range.
<1>RangeFrame.
  ASSUME \A p \in Procs : ticksLeft'[p] = ticksLeft[p] \/ ticksLeft'[p] = PROC_QUANTUM,
         \A q \in Queues : levelTicks'[q] = levelTicks[q] \/ levelTicks'[q] = LEVEL_QUANTUM,
         \A p \in Procs : state'[p] = "EMBRYO" => state[p] = "EMBRYO"
  PROVE  QuantaInRange' /\ \A p \in Procs : state'[p] = "EMBRYO" => ticksLeft'[p] = PROC_QUANTUM
  <2> USE <1>RangeFrame
  <2>1. QuantaInRange /\ \A p \in Procs : state[p] = "EMBRYO" => ticksLeft[p] = PROC_QUANTUM
    BY Zenon DEF OneEpoch
  <2>2. PROC_QUANTUM \in 0..PROC_QUANTUM /\ LEVEL_QUANTUM \in 0..LEVEL_QUANTUM
    BY Quanta
  <2>3. QuantaInRange'
    BY <2>1, <2>2, Zenon DEF QuantaInRange
  <2> QED BY <2>1, <2>3, Zenon
\* Steps that touch neither queues nor quanta.
<1>Calm.
  ASSUME UNCHANGED <<queue, levelTicks, active, ticksLeft, defaultLevel, cproc, cqueue>>,
         \A p \in Procs : state'[p] = "EMBRYO" => state[p] = "EMBRYO",
         pc[c] \notin {"swap", "migrate"}, pc'[c] \notin {"swap", "migrate"},
         pc[c] \in Ending => pc'[c] \in Ending, pc'[c] \in Charging => pc[c] \in Charging,
         pc'[c] = "charge" => reg'[c] = <<ticksLeft[cproc[c]], levelTicks[cqueue[c]]>>
  PROVE  OneEpoch(c)'
  <2> USE <1>Calm
  <2>1. QuantaInRange' /\ \A p \in Procs : state'[p] = "EMBRYO" => ticksLeft'[p] = PROC_QUANTUM
    BY Zenon DEF OneEpoch, QuantaInRange
  <2>2. QuantaAtCpu(c)'
    BY Zenon DEF OneEpoch, QuantaAtCpu
  <2>3. \A q \in Queues : \A p \in Procs : Contains(queue'[q], p) => QuantaInLevel(c, q, p)'
    BY Zenon DEF OneEpoch, QuantaInLevel, FreshSet
  <2> QED BY <2>1, <2>2, <2>3, Zenon DEF OneEpoch
\* The process that ran leaves the CPU, for the queue r, if any.
<1>Land.
  ASSUME cproc[c] \in Procs, pc[c] \in {"switch", "migrate"}, Leave(c),
         UNCHANGED <<state, defaultLevel, levelTicks, active>>,
         ticksLeft' \in {ticksLeft, [ticksLeft EXCEPT ![cproc[c]] = PROC_QUANTUM]},
         \A x \in Procs \ {cproc[c]} : \A r \in Queues :
           Contains(queue'[r], x) => Contains(queue[r], x) /\ levelTicks[r] > 0,
         \A r \in Queues : Contains(queue'[r], cproc[c]) =>
           /\ defaultLevel[cproc[c]] <= r[2] /\ ticksLeft'[cproc[c]] > 0 /\ levelTicks[r] > 0
           /\ r[1] # active => r[2] = defaultLevel[cproc[c]] /\ ticksLeft'[cproc[c]] = PROC_QUANTUM
  PROVE  OneEpoch(c)'
  <2> USE <1>Land
  <2>1. /\ pc \in [CPUS -> Locations] /\ ticksLeft \in [Procs -> Int] /\ active \in {0, 1}
    BY Zenon DEF BaseInv, TypeOK
  <2>2. pc'[c] = "sched"
    BY <2>1, Zenon DEF Leave, Goto
  <2>3. \A x \in Procs : ticksLeft'[x] = ticksLeft[x] \/ (x = cproc[c] /\ ticksLeft'[x] = PROC_QUANTUM)
    BY <2>1, Zenon
  <2>4. QuantaInRange' /\ \A p \in Procs : state'[p] = "EMBRYO" => ticksLeft'[p] = PROC_QUANTUM
    BY <2>3, <1>RangeFrame, Zenon
  <2>5. QuantaAtCpu(c)'
    BY <2>2, Zenon DEF QuantaAtCpu, Charging
  <2>6. ASSUME NEW r \in Queues, NEW x \in Procs, Contains(queue'[r], x)
        PROVE  QuantaInLevel(c, r, x)'
    <3>1. CASE x = cproc[c]
      BY <2>1, <2>2, <2>6, <3>1 DEF QuantaInLevel, FreshSet
    <3>2. CASE x # cproc[c]
      <4>1. QuantaInLevel(c, r, x) /\ levelTicks[r] > 0 /\ ticksLeft'[x] = ticksLeft[x]
        BY <2>3, <2>6, <3>2, Zenon DEF OneEpoch
      <4> QED BY <2>2, <3>2, <4>1, Zenon DEF QuantaInLevel, FreshSet
    <3> QED BY <3>1, <3>2, Zenon
  <2> QED BY <2>4, <2>5, <2>6, Zenon DEF OneEpoch
<1>Requeue.
  ASSUME Requeue(c)
  PROVE  OneEpoch(c)'
  <2> USE <1>Requeue
  <2> DEFINE p == cproc[c]
             q == cqueue[c]
             full == [ticksLeft EXCEPT ![p] = PROC_QUANTUM]
  <2>0. ticksLeft \in [Procs -> Int] /\ defaultLevel \in [Procs -> Levels] /\ Distinct(queue)
    BY Zenon DEF BaseInv, TypeOK, OneInv, Placed
  <2>1. /\ pc[c] = "switch" /\ p \in Procs /\ q \in Queues /\ q[1] = active /\ levelTicks[q] > 0 /\ Leave(c)
        /\ UNCHANGED <<state, defaultLevel, levelTicks, active, reg, swapLevel>>
        /\ \/ state[p] = "ZOMBIE" /\ queue' = queue /\ ticksLeft' \in {ticksLeft, full}
           \/ \E nq \in Queues :
                /\ state[p] # "ZOMBIE"
                /\ \E i \in 1..Len(queue[q]) : Shifted(q, i, p, nq)
                /\ PlacedAt(nq, next_start(p, q[2]), defaultLevel[p])
                /\ ticksLeft' = IF ticksLeft[p] <= 0 \/ nq[1] # active THEN full ELSE ticksLeft
    BY RequeueEffect, Zenon
  <2>2. \A r \in Queues : \A x \in Procs : Contains(queue[r], x) => levelTicks[r] > 0
    BY <2>1, Zenon DEF OneEpoch, QuantaInLevel
  <2>3. CASE state[p] = "ZOMBIE" /\ queue' = queue /\ ticksLeft' \in {ticksLeft, full}
    <3>1. \A r \in Queues : ~Contains(queue'[r], p)
      BY <2>1, <2>3, Zenon DEF OneInv, Placed, Schedulable
    <3> QED BY <2>1, <2>2, <2>3, <3>1, <1>Land, Zenon
  <2>4. ASSUME NEW nq \in Queues, NEW i \in 1..Len(queue[q]), Shifted(q, i, p, nq),
               PlacedAt(nq, next_start(p, q[2]), defaultLevel[p]),
               ticksLeft' = IF ticksLeft[p] <= 0 \/ nq[1] # active THEN full ELSE ticksLeft
        PROVE  OneEpoch(c)'
    <3>1. Relocated(p, nq) /\ Contains(queue[q], p)
      BY <2>0, <2>1, <2>4, ShiftedFacts, Zenon
    <3>2. defaultLevel[p] <= q[2] /\ defaultLevel[p] \in Nat /\ q[2] \in Nat /\ nq[2] \in Nat
      BY <2>1, <3>1, InLevel, LevelTypes, Zenon
    <3>3. q[2] <= next_start(p, q[2])
      BY <3>2 DEF next_start
    <3>4. next_start(p, q[2]) \in Nat
      BY <3>2 DEF next_start
    <3>5. defaultLevel[p] <= nq[2] /\ levelTicks[nq] > 0 /\ (nq[1] # active => nq[2] = defaultLevel[p])
      BY <2>4, <3>2, <3>3, <3>4 DEF PlacedAt
    <3>6. ticksLeft'[p] > 0 /\ (nq[1] # active => ticksLeft'[p] = PROC_QUANTUM) /\ ticksLeft' \in {ticksLeft, full}
      <4>1. full[p] = PROC_QUANTUM /\ ticksLeft[p] \in Int
        BY <2>0, <2>1, Zenon
      <4> HIDE DEF full
      <4>2. CASE ticksLeft[p] <= 0 \/ nq[1] # active
        BY <2>4, <4>1, <4>2, Quanta, Zenon
      <4>3. CASE ~(ticksLeft[p] <= 0 \/ nq[1] # active)
        BY <2>4, <4>1, <4>3
      <4> QED BY <4>2, <4>3, Zenon
    <3>7. \A r \in Queues : Contains(queue'[r], p) =>
             /\ defaultLevel[p] <= r[2] /\ ticksLeft'[p] > 0 /\ levelTicks[r] > 0
             /\ r[1] # active => r[2] = defaultLevel[p] /\ ticksLeft'[p] = PROC_QUANTUM
      BY <3>1, <3>5, <3>6, Zenon DEF Relocated
    <3>8. \A x \in Procs \ {p} : \A r \in Queues : Contains(queue'[r], x) => Contains(queue[r], x) /\ levelTicks[r] > 0
      BY <2>2, <3>1, Zenon DEF Relocated
    <3> QED BY <2>1, <3>6, <3>7, <3>8, <1>Land, Zenon
  <2> QED BY <2>1, <2>3, <2>4, Zenon
<1>MigrateLast.
  ASSUME MigrateLast(c)
  PROVE  OneEpoch(c)'
  <2> USE <1>MigrateLast
  <2> DEFINE p == cproc[c]
             q == cqueue[c]
  <2>0. ticksLeft \in [Procs -> Int] /\ defaultLevel \in [Procs -> Levels] /\ Distinct(queue)
    BY Zenon DEF BaseInv, TypeOK, OneInv, Placed
  <2>1. /\ pc[c] = "migrate" /\ p \in Procs /\ q \in Queues /\ q[1] = active /\ queue[q] = << >>
        /\ ~In(queue, p) /\ Leave(c)
        /\ UNCHANGED <<state, ticksLeft, defaultLevel, levelTicks, active, reg, swapLevel>>
        /\ \/ state[p] = "ZOMBIE" /\ queue' = queue
           \/ /\ state[p] # "ZOMBIE"
              /\ \E nq \in Queues : queue' = enqueue_proc(queue, p, nq) /\ PlacedAt(nq, q[2] + 1, defaultLevel[p])
    BY MigrateLastEffect, Zenon
  <2>2. \A r \in Queues : \A x \in Procs : Contains(queue[r], x) => levelTicks[r] > 0
    <3>1. \A x \in Procs : ~Contains(queue[q], x)
      BY <2>1 DEF Contains
    <3> QED BY <3>1, Zenon DEF OneEpoch, QuantaInLevel
  <2>3. CASE state[p] = "ZOMBIE" /\ queue' = queue
    <3>1. \A r \in Queues : ~Contains(queue'[r], p)
      BY <2>1, <2>3, Zenon DEF In
    <3> QED BY <2>1, <2>2, <2>3, <3>1, <1>Land, Zenon
  <2>4. ASSUME NEW nq \in Queues, state[p] # "ZOMBIE", queue' = enqueue_proc(queue, p, nq),
               PlacedAt(nq, q[2] + 1, defaultLevel[p])
        PROVE  OneEpoch(c)'
    <3>1. Relocated(p, nq)
      BY <2>0, <2>1, <2>4, JoinedFacts, Zenon
    <3>2. ticksLeft[p] = PROC_QUANTUM /\ defaultLevel[p] <= q[2]
      BY <2>1, <2>4, Zenon DEF OneEpoch, QuantaAtCpu
    <3>3. defaultLevel[p] \in Nat /\ q[2] \in Nat /\ nq[2] \in Nat
      BY <2>1, LevelTypes, Zenon
    <3>4. defaultLevel[p] <= nq[2] /\ levelTicks[nq] > 0 /\ (nq[1] # active => nq[2] = defaultLevel[p])
      BY <2>4, <3>2, <3>3 DEF PlacedAt
    <3>5. \A r \in Queues : Contains(queue'[r], p) =>
             /\ defaultLevel[p] <= r[2] /\ ticksLeft'[p] > 0 /\ levelTicks[r] > 0
             /\ r[1] # active => r[2] = defaultLevel[p] /\ ticksLeft'[p] = PROC_QUANTUM
      BY <2>1, <3>1, <3>2, <3>4, Quanta, Zenon DEF Relocated
    <3>6. \A x \in Procs \ {p} : \A r \in Queues : Contains(queue'[r], x) => Contains(queue[r], x) /\ levelTicks[r] > 0
      BY <2>2, <3>1, Zenon DEF Relocated
    <3> QED BY <2>1, <3>5, <3>6, <1>Land, Zenon
  <2> QED BY <2>1, <2>3, <2>4, Zenon
<1>MigrateMove.
  ASSUME MigrateMove(c)
  PROVE  OneEpoch(c)'
  <2> USE <1>MigrateMove
  <2> DEFINE p == cproc[c]
             q == cqueue[c]
  <2>0. /\ ticksLeft \in [Procs -> Int] /\ defaultLevel \in [Procs -> Levels] /\ Distinct(queue)
        /\ queue \in [Queues -> Seq(Procs)]
    BY Zenon DEF BaseInv, TypeOK, OneInv, Placed
  <2>1. /\ pc[c] = "migrate" /\ p \in Procs /\ q \in Queues /\ q[1] = active
        /\ UNCHANGED <<state, defaultLevel, levelTicks, active, lock, pc, cproc, cqueue, reg, swapLevel>>
    BY MigrateMoveEffect, Zenon
  <2>2. PICK np \in Procs :
           /\ ticksLeft' = [ticksLeft EXCEPT ![np] = PROC_QUANTUM]
           /\ \/ np = p /\ Taken(q, 1, np)
              \/ /\ np # p
                 /\ \E nq \in Queues : Shifted(q, 1, np, nq) /\ PlacedAt(nq, q[2] + 1, defaultLevel[np])
    BY MigrateMoveEffect, Zenon
  <2>3. ticksLeft'[np] = PROC_QUANTUM /\ \A x \in Procs \ {np} : ticksLeft'[x] = ticksLeft[x]
    BY <2>0, <2>2, Zenon
  <2>4. QuantaInRange' /\ \A x \in Procs : state'[x] = "EMBRYO" => ticksLeft'[x] = PROC_QUANTUM
    BY <2>1, <2>3, <1>RangeFrame, Zenon
  <2>5. \A x \in Procs \ {np} : \A r \in Queues : Contains(queue'[r], x) <=> Contains(queue[r], x)
    <3>1. CASE Taken(q, 1, np)
      BY <2>0, <3>1, TakenFacts, Zenon DEF Removed
    <3>2. CASE \E nq \in Queues : Shifted(q, 1, np, nq)
      BY <2>0, <3>2, ShiftedFacts, Zenon DEF Relocated
    <3> QED BY <2>2, <3>1, <3>2, Zenon
  <2>6. \A r \in Queues : Contains(queue'[r], np) =>
          /\ defaultLevel[np] <= r[2] /\ levelTicks[r] > 0
          /\ r[1] # active => r[2] = defaultLevel[np]
    <3>1. CASE Taken(q, 1, np)
      BY <2>0, <3>1, TakenFacts, Zenon DEF Removed, In
    <3>2. ASSUME NEW nq \in Queues, Shifted(q, 1, np, nq), PlacedAt(nq, q[2] + 1, defaultLevel[np])
          PROVE  \A r \in Queues : Contains(queue'[r], np) =>
                   /\ defaultLevel[np] <= r[2] /\ levelTicks[r] > 0
                   /\ r[1] # active => r[2] = defaultLevel[np]
      <4>1. Relocated(np, nq) /\ Contains(queue[q], np)
        BY <2>0, <2>1, <3>2, ShiftedFacts, Zenon
      <4>2. defaultLevel[np] <= q[2] /\ defaultLevel[np] \in Nat /\ q[2] \in Nat /\ nq[2] \in Nat
        BY <2>1, <4>1, InLevel, LevelTypes, Zenon
      <4>3. defaultLevel[np] <= nq[2] /\ levelTicks[nq] > 0 /\ (nq[1] # active => nq[2] = defaultLevel[np])
        BY <3>2, <4>2 DEF PlacedAt
      <4> QED BY <4>1, <4>3, Zenon DEF Relocated
    <3> QED BY <2>2, <3>1, <3>2, Zenon
  <2>7. QuantaAtCpu(c)'
    <3>1. In(queue, p) => In(queue', p) \/ p = np
      BY <2>1, <2>5, Zenon DEF In
    <3>2. /\ levelTicks[q] = 0
          /\ state[p] # "ZOMBIE" => defaultLevel[p] <= q[2] /\ (In(queue, p) \/ ticksLeft[p] = PROC_QUANTUM)
      BY <2>1, Zenon DEF OneEpoch, QuantaAtCpu
    <3>3. state[p] # "ZOMBIE" => In(queue', p) \/ ticksLeft'[p] = PROC_QUANTUM
      BY <2>1, <2>3, <3>1, <3>2, Zenon
    <3> QED BY <2>1, <3>2, <3>3, Zenon DEF QuantaAtCpu, Charging
  <2>8. ASSUME NEW r \in Queues, NEW x \in Procs, Contains(queue'[r], x)
        PROVE  QuantaInLevel(c, r, x)'
    <3>1. active \in {0, 1} /\ r[1] \in {0, 1}
      BY LevelTypes, Zenon DEF BaseInv, TypeOK
    <3>2. CASE x = np
      <4>1. /\ defaultLevel'[x] <= r[2] /\ levelTicks'[r] > 0 /\ ticksLeft'[x] = PROC_QUANTUM
            /\ r[1] # active => r[2] = defaultLevel'[x]
        BY <2>1, <2>3, <2>6, <2>8, <3>2, Zenon
      <4>2. FreshSet(c)' # active
        BY <2>1, <3>1 DEF FreshSet
      <4> QED BY <4>1, <4>2, <2>1, Quanta, Zenon DEF QuantaInLevel
    <3>3. CASE x # np
      <4>1. QuantaInLevel(c, r, x) /\ ticksLeft'[x] = ticksLeft[x]
        BY <2>3, <2>5, <2>8, <3>3, Zenon DEF OneEpoch
      <4> QED BY <2>1, <4>1, Zenon DEF QuantaInLevel, FreshSet
    <3> QED BY <3>2, <3>3, Zenon
  <2> QED BY <2>4, <2>7, <2>8, Zenon DEF OneEpoch
<1>Deplete.
  ASSUME Deplete(c)
  PROVE  OneEpoch(c)'
  <2> USE <1>Deplete
  <2> DEFINE p == cproc[c]
             q == cqueue[c]
  <2>1. /\ pc[c] = "switch" /\ pc'[c] = "migrate" /\ levelTicks[q] <= 0 /\ p \in Procs /\ q \in Queues
        /\ UNCHANGED <<procVars, levelVars, lock, cproc, cqueue, reg, swapLevel>>
    BY SwitchFacts, Zenon DEF Deplete, Goto, BaseInv, TypeOK
  <2>2. levelTicks[q] = 0
    <3>1. levelTicks[q] \in 0..LEVEL_QUANTUM
      BY <2>1, Zenon DEF OneEpoch, QuantaInRange
    <3> QED BY <2>1, <3>1, Quanta
  <2>3. state[p] # "ZOMBIE" => In(queue, p) /\ defaultLevel[p] <= q[2]
    <3> SUFFICES ASSUME state[p] # "ZOMBIE" PROVE In(queue, p) /\ defaultLevel[p] <= q[2]
      BY Zenon
    <3>1. Contains(queue[q], p)
      BY <2>1, Zenon DEF OneInv, AtCpu
    <3> QED BY <2>1, <3>1, Zenon DEF In, OneEpoch, QuantaInLevel
  <2>4. QuantaInRange' /\ \A x \in Procs : state'[x] = "EMBRYO" => ticksLeft'[x] = PROC_QUANTUM
    BY <2>1, <1>RangeFrame, Zenon DEF procVars, levelVars
  <2>5. QuantaAtCpu(c)'
    BY <2>1, <2>2, <2>3, Zenon DEF QuantaAtCpu, Charging, In, procVars, levelVars
  <2>6. \A r \in Queues : \A x \in Procs : Contains(queue'[r], x) => QuantaInLevel(c, r, x)'
    BY <2>1 DEF OneEpoch, QuantaInLevel, FreshSet, Ending, procVars, levelVars
  <2> QED BY <2>4, <2>5, <2>6, Zenon DEF OneEpoch
<1>SwapSets.
  ASSUME SwapSets(c)
  PROVE  OneEpoch(c)'
  <2> USE <1>SwapSets
  <2>0. levelTicks \in [Queues -> Int] /\ active \in {0, 1} /\ pc \in [CPUS -> Locations]
    BY Zenon DEF BaseInv, TypeOK
  <2>1. /\ pc[c] = "sched" /\ pc'[c] = "swap" /\ active' = 1 - active /\ swapLevel' = 0
        /\ levelTicks' = [levelTicks EXCEPT ![<<active, 0>>] = LEVEL_QUANTUM]
        /\ UNCHANGED <<procVars, queue, cproc, cqueue, reg>>
    BY <2>0, Zenon DEF SwapSets, Goto
  <2>2. \A q \in Queues : levelTicks'[q] = levelTicks[q] \/ levelTicks'[q] = LEVEL_QUANTUM
    BY <2>0, <2>1, Zenon
  <2>3. QuantaInRange' /\ \A x \in Procs : state'[x] = "EMBRYO" => ticksLeft'[x] = PROC_QUANTUM
    BY <2>1, <2>2, <1>RangeFrame, Zenon DEF procVars
  <2>4. QuantaAtCpu(c)'
    <3>1. 0..(swapLevel' - 1) = {}
      BY <2>1
    <3>2. pc'[c] \notin Charging
      BY <2>1, Zenon DEF Charging
    <3> QED BY <2>1, <3>1, <3>2, Zenon DEF QuantaAtCpu
  <2>5. ASSUME NEW r \in Queues, NEW x \in Procs, Contains(queue'[r], x)
        PROVE  QuantaInLevel(c, r, x)'
    <3>1. QuantaInLevel(c, r, x)
      BY <2>1, <2>5, Zenon DEF OneEpoch
    <3>2. pc[c] \notin Ending /\ pc[c] # "swap"
      BY <2>1, Zenon DEF Ending
    <3>3. levelTicks'[r] > 0
      BY <2>2, <3>1, <3>2, Quanta, Zenon DEF QuantaInLevel
    <3> QED BY <2>0, <2>1, <3>1, <3>2, <3>3, Zenon DEF QuantaInLevel, FreshSet, procVars
  <2> QED BY <2>3, <2>4, <2>5, Zenon DEF OneEpoch
<1>SwapMove.
  ASSUME SwapMove(c)
  PROVE  OneEpoch(c)'
  <2> USE <1>SwapMove
  <2>0. /\ ticksLeft \in [Procs -> Int] /\ defaultLevel \in [Procs -> Levels] /\ Distinct(queue)
        /\ queue \in [Queues -> Seq(Procs)] /\ active \in {0, 1} /\ swapLevel \in Levels /\ pc[c] = "swap"
    BY Zenon DEF BaseInv, TypeOK, OneInv, Placed, SwapMove
  <2>1. PICK p \in Procs :
          /\ Shifted(<<1 - active, swapLevel>>, 1, p, <<active, defaultLevel[p]>>)
          /\ ticksLeft' = [ticksLeft EXCEPT ![p] = PROC_QUANTUM]
          /\ UNCHANGED <<state, defaultLevel, levelTicks, active, lock, pc, cproc, cqueue, reg, swapLevel>>
    BY SwapMoveEffect, Zenon
  <2>2. ticksLeft'[p] = PROC_QUANTUM /\ \A x \in Procs \ {p} : ticksLeft'[x] = ticksLeft[x]
    BY <2>0, <2>1, Zenon
  <2>3. Relocated(p, <<active, defaultLevel[p]>>)
    BY <2>0, <2>1, ShiftedFacts, ZenonT(30)
  <2>4. levelTicks[<<active, defaultLevel[p]>>] > 0
    BY <2>0, Quanta, Zenon DEF OneInv, FreshLevels
  <2>5. QuantaInRange' /\ \A x \in Procs : state'[x] = "EMBRYO" => ticksLeft'[x] = PROC_QUANTUM
    BY <2>1, <2>2, <1>RangeFrame, Zenon
  <2>6. QuantaAtCpu(c)'
    <3>0. \A k \in 0..(swapLevel - 1) : queue[<<1 - active, k>>] = << >>
      <4>1. QuantaAtCpu(c)
        BY Zenon DEF OneEpoch
      <4> QED BY <2>0, <4>1, Zenon DEF QuantaAtCpu
    <3>1. ASSUME NEW k \in 0..(swapLevel - 1)
          PROVE  queue'[<<1 - active, k>>] = << >>
      <4>0. k \in Levels /\ 1 - active \in {0, 1}
        BY <2>0, ConstantsAssumption DEF ConstantsAssumption, Levels
      <4>1. <<1 - active, k>> \in Queues
        BY <4>0, Zenon DEF Queues
      <4>2. queue[<<1 - active, k>>] = << >>
        BY <3>0, Zenon
      <4>3. <<1 - active, k>> # <<1 - active, swapLevel>> /\ <<1 - active, k>> # <<active, defaultLevel[p]>>
        BY <2>0 DEF Levels
      <4> QED BY <2>0, <2>1, <4>1, <4>2, <4>3, Zenon DEF Shifted, unqueue_proc, enqueue_proc
    <3> QED BY <2>0, <2>1, <3>1, Zenon DEF QuantaAtCpu, Charging
  <2>7. ASSUME NEW r \in Queues, NEW x \in Procs, Contains(queue'[r], x)
        PROVE  QuantaInLevel(c, r, x)'
    <3>1. CASE x = p
      <4>1. r = <<active, defaultLevel[p]>> /\ defaultLevel[p] \in Nat
        BY <2>0, <2>3, <2>7, <3>1 DEF Relocated, Levels
      <4> QED BY <2>0, <2>1, <2>2, <2>4, <3>1, <4>1, Quanta DEF QuantaInLevel, FreshSet
    <3>2. CASE x # p
      <4>1. QuantaInLevel(c, r, x) /\ ticksLeft'[x] = ticksLeft[x]
        BY <2>2, <2>3, <2>7, <3>2, Zenon DEF OneEpoch, Relocated
      <4> QED BY <2>1, <4>1, Zenon DEF QuantaInLevel, FreshSet
    <3> QED BY <3>1, <3>2, Zenon
  <2> QED BY <2>5, <2>6, <2>7, Zenon DEF OneEpoch
<1>SwapNext.
  ASSUME SwapNext(c)
  PROVE  OneEpoch(c)'
  <2> USE <1>SwapNext
  <2>0. /\ levelTicks \in [Queues -> Int] /\ active \in {0, 1} /\ pc \in [CPUS -> Locations] /\ swapLevel \in Levels
        /\ LEVELS \in Nat
    BY ConstantsAssumption, Zenon DEF BaseInv, TypeOK, ConstantsAssumption
  <2>1. /\ pc[c] = "swap" /\ queue[<<1 - active, swapLevel>>] = << >>
        /\ UNCHANGED <<procVars, queue, active, cproc, cqueue, reg>>
    BY Zenon DEF SwapNext
  <2>2. \A q \in Queues : levelTicks'[q] = levelTicks[q] \/ levelTicks'[q] = LEVEL_QUANTUM
    BY <2>0, Zenon DEF SwapNext
  <2>3. QuantaInRange' /\ \A x \in Procs : state'[x] = "EMBRYO" => ticksLeft'[x] = PROC_QUANTUM
    BY <2>1, <2>2, <1>RangeFrame, Zenon DEF procVars
  <2>4. \A r \in Queues : \A x \in Procs : Contains(queue'[r], x) =>
          QuantaInLevel(c, r, x) /\ levelTicks'[r] > 0 /\ pc[c] \notin Ending
    <3>1. pc[c] \notin Ending
      BY <2>1, Zenon DEF Ending
    <3> QED BY <2>1, <2>2, <3>1, Quanta, Zenon DEF OneEpoch, QuantaInLevel
  <2>5. CASE swapLevel + 1 < LEVELS
    <3>1. pc' = pc /\ swapLevel' = swapLevel + 1
      BY <2>5, Zenon DEF SwapNext
    <3>2. \A k \in 0..(swapLevel' - 1) : k = swapLevel \/ k \in 0..(swapLevel - 1)
      BY <2>0, <3>1 DEF Levels
    <3>3. QuantaAtCpu(c)'
      BY <2>1, <3>1, <3>2, Zenon DEF OneEpoch, QuantaAtCpu, Charging
    <3>4. \A r \in Queues : \A x \in Procs : Contains(queue'[r], x) => QuantaInLevel(c, r, x)'
      BY <2>1, <2>4, <3>1, Zenon DEF QuantaInLevel, FreshSet, procVars
    <3> QED BY <2>3, <3>3, <3>4, Zenon DEF OneEpoch
  <2>6. CASE ~(swapLevel + 1 < LEVELS)
    <3>1. pc'[c] = "sched"
      BY <2>0, <2>6, Zenon DEF SwapNext, Goto
    <3>2. QuantaAtCpu(c)'
      BY <3>1, Zenon DEF QuantaAtCpu, Charging
    <3>3. swapLevel + 1 >= LEVELS
      BY <2>0, <2>6 DEF Levels
    <3>4. \A k \in Levels : queue[<<1 - active, k>>] = << >>
      BY <3>3, SwapEnd, Zenon
    <3>5. ASSUME NEW r \in Queues, NEW x \in Procs, Contains(queue'[r], x)
          PROVE  QuantaInLevel(c, r, x)'
      <4>1. r = <<r[1], r[2]>> /\ r[1] \in {0, 1} /\ r[2] \in Levels
        BY DEF Queues
      <4>2. queue[r] # << >>
        BY <2>1, <3>5 DEF Contains
      <4>3. r[1] # 1 - active
        BY <3>4, <4>1, <4>2, Zenon
      <4> QED BY <2>1, <2>4, <3>1, <3>5, <4>3, Zenon DEF QuantaInLevel, FreshSet, procVars
    <3> QED BY <2>3, <3>2, <3>5, Zenon DEF OneEpoch
  <2> QED BY <2>5, <2>6, Zenon
<1>Dispatch.
  ASSUME Dispatch(c)
  PROVE  OneEpoch(c)'
  <2> USE <1>Dispatch
  <2>0. /\ queue \in [Queues -> Seq(Procs)] /\ active \in {0, 1} /\ pc \in [CPUS -> Locations]
        /\ cproc \in [CPUS -> Procs \cup {NULL}] /\ cqueue \in [CPUS -> Queues \cup {NULL}]
        /\ state \in [Procs -> States]
    BY Zenon DEF BaseInv, TypeOK
  <2>1. /\ pc[c] = "sched" /\ UNCHANGED <<ticksLeft, defaultLevel, levelVars, reg>>
    BY Zenon DEF Dispatch
  <2>2. PICK k \in Levels : \E i \in 1..Len(queue[<<active, k>>]) :
          /\ First(k, i)
          /\ LET p == queue[<<active, k>>][i] IN
               /\ cproc' = [cproc EXCEPT ![c] = p]
               /\ cqueue' = [cqueue EXCEPT ![c] = <<active, k>>]
               /\ state' = [state EXCEPT ![p] = "RUNNING"]
               /\ Goto(c, IF kpc[p] = "wait" THEN "wait" ELSE "run")
    BY Zenon DEF Dispatch
  <2>3. PICK i \in 1..Len(queue[<<active, k>>]) :
          /\ First(k, i)
          /\ LET p == queue[<<active, k>>][i] IN
               /\ cproc' = [cproc EXCEPT ![c] = p]
               /\ cqueue' = [cqueue EXCEPT ![c] = <<active, k>>]
               /\ state' = [state EXCEPT ![p] = "RUNNING"]
               /\ Goto(c, IF kpc[p] = "wait" THEN "wait" ELSE "run")
    BY <2>2, Zenon
  <2> DEFINE p == queue[<<active, k>>][i]
  <2>4. levelTicks[<<active, k>>] > 0 /\ ticksLeft[p] > 0
    BY <2>3, Zenon DEF First, Eligible
  <2>5. <<active, k>> \in Queues
    BY <2>0, Zenon DEF Queues
  <2>6. p \in Procs
    BY <2>0, <2>5, QueueTypes, Zenon
  <2>7. /\ cproc'[c] = p /\ cqueue'[c] = <<active, k>> /\ pc'[c] \in {"wait", "run"}
        /\ \A x \in Procs : state'[x] = "EMBRYO" => state[x] = "EMBRYO"
    BY <2>0, <2>3, <2>6, Zenon DEF Goto
  <2> HIDE DEF p
  <2>8. QuantaInRange' /\ \A x \in Procs : state'[x] = "EMBRYO" => ticksLeft'[x] = PROC_QUANTUM
    BY <2>1, <2>7, <1>RangeFrame, Zenon DEF levelVars
  <2>9. QuantaAtCpu(c)'
    BY <2>1, <2>4, <2>7, Zenon DEF QuantaAtCpu, levelVars
  <2>10. \A r \in Queues : \A x \in Procs : Contains(queue'[r], x) => QuantaInLevel(c, r, x)'
    BY <2>1, <2>7, Zenon DEF OneEpoch, QuantaInLevel, FreshSet, Ending, levelVars
  <2> QED BY <2>8, <2>9, <2>10, Zenon DEF OneEpoch
<1>ChargeStore.
  ASSUME ChargeStore(c)
  PROVE  OneEpoch(c)'
  <2> USE <1>ChargeStore
  <2> DEFINE p == cproc[c]
             q == cqueue[c]
  <2>0. /\ ticksLeft \in [Procs -> Int] /\ levelTicks \in [Queues -> Int] /\ pc \in [CPUS -> Locations]
        /\ active \in {0, 1}
    BY Zenon DEF BaseInv, TypeOK
  <2>1. pc[c] = "charge" /\ pc[c] \in OnProc
    BY Zenon DEF ChargeStore, OnProc
  <2>2. p \in Procs /\ q \in Queues /\ state[p] = "RUNNING" /\ q[1] = active /\ Contains(queue[q], p)
    BY <2>1, OnProcFacts, Zenon DEF OneInv, AtCpu
  <2>3. ticksLeft[p] > 0 /\ levelTicks[q] > 0 /\ reg[c] = <<ticksLeft[p], levelTicks[q]>>
    BY <2>1, Zenon DEF OneEpoch, QuantaAtCpu, Charging
  <2>4. /\ ticksLeft' = [ticksLeft EXCEPT ![p] = ticksLeft[p] - 1]
        /\ levelTicks' = [levelTicks EXCEPT ![q] = levelTicks[q] - 1]
        /\ pc'[c] = IF ticksLeft[p] - 1 <= 0 \/ levelTicks[q] - 1 <= 0 THEN "yield" ELSE "run"
        /\ UNCHANGED <<state, defaultLevel, queue, active, cproc, cqueue>>
    <3>1. reg[c][1] = ticksLeft[p] /\ reg[c][2] = levelTicks[q]
      BY <2>3
    <3> QED BY <2>0, <3>1, Zenon DEF ChargeStore, Goto, Depleted
  <2>5. /\ ticksLeft'[p] = ticksLeft[p] - 1 /\ levelTicks'[q] = levelTicks[q] - 1
        /\ \A x \in Procs \ {p} : ticksLeft'[x] = ticksLeft[x]
        /\ \A r \in Queues \ {q} : levelTicks'[r] = levelTicks[r]
    BY <2>0, <2>2, <2>4, Zenon
  <2>6. ticksLeft'[p] \in 0..PROC_QUANTUM /\ levelTicks'[q] \in 0..LEVEL_QUANTUM
    <3>1. ticksLeft[p] \in 0..PROC_QUANTUM /\ levelTicks[q] \in 0..LEVEL_QUANTUM
      BY <2>2, Zenon DEF OneEpoch, QuantaInRange
    <3> QED BY <2>3, <2>5, <3>1, Quanta
  <2>7. QuantaInRange'
    BY <2>5, <2>6, Zenon DEF OneEpoch, QuantaInRange
  <2>8. \A x \in Procs : state'[x] = "EMBRYO" => ticksLeft'[x] = PROC_QUANTUM
    BY <2>2, <2>4, <2>5, Zenon DEF OneEpoch
  <2>9. \/ pc'[c] = "yield"
        \/ pc'[c] = "run" /\ ticksLeft'[p] > 0 /\ levelTicks'[q] > 0
    <3>1. ticksLeft[p] \in Int /\ levelTicks[q] \in Int
      BY <2>0, <2>2, Zenon
    <3>2. CASE ticksLeft[p] - 1 <= 0 \/ levelTicks[q] - 1 <= 0
      BY <2>4, <3>2, Zenon
    <3>3. CASE ~(ticksLeft[p] - 1 <= 0 \/ levelTicks[q] - 1 <= 0)
      BY <2>4, <2>5, <3>1, <3>3
    <3> QED BY <3>2, <3>3, Zenon
  <2>10. QuantaAtCpu(c)'
    BY <2>4, <2>9, Zenon DEF QuantaAtCpu, Charging
  <2>11. ASSUME NEW r \in Queues, NEW x \in Procs, Contains(queue'[r], x)
         PROVE  QuantaInLevel(c, r, x)'
    <3>1. Contains(queue[r], x) /\ QuantaInLevel(c, r, x)
      BY <2>4, <2>11, InLevel, Zenon
    <3>2. pc[c] \notin Ending
      BY <2>1, Zenon DEF Ending
    <3>3. ticksLeft'[x] > 0 \/ (x = p /\ pc'[c] = "yield")
      BY <2>5, <2>9, <3>1, <3>2, Zenon DEF QuantaInLevel
    <3>4. levelTicks'[r] > 0 \/ (r = q /\ pc'[c] = "yield")
      BY <2>5, <2>9, <3>1, <3>2, Zenon DEF QuantaInLevel
    <3>5. r[1] = 1 - active => x # p
      <4>1. x = p => r = q
        <5>1. Distinct(queue)
          BY Zenon DEF OneInv, Placed
        <5>2. PICK i \in 1..Len(queue[q]) : queue[q][i] = p
          BY <2>2, Zenon DEF Contains
        <5>3. PICK j \in 1..Len(queue[r]) : queue[r][j] = x
          BY <3>1, Zenon DEF Contains
        <5>4. queue[q][i] = queue[r][j] => q = r
          BY <2>2, <2>11, <5>1, Zenon DEF Distinct
        <5> QED BY <5>2, <5>3, <5>4, Zenon
      <4> QED BY <2>0, <2>2, <4>1
    <3>6. FreshSet(c) = 1 - active /\ FreshSet(c)' = 1 - active
      BY <2>1, <2>4, <2>9, Zenon DEF FreshSet
    <3>7. r[1] = 1 - active => r[2] = defaultLevel[x] /\ ticksLeft'[x] = PROC_QUANTUM
      BY <2>5, <3>1, <3>5, <3>6, Zenon DEF QuantaInLevel
    <3> QED BY <2>4, <3>1, <3>3, <3>4, <3>6, <3>7, Zenon DEF QuantaInLevel, Ending
  <2> QED BY <2>7, <2>8, <2>10, <2>11, Zenon DEF OneEpoch
<1>allocproc.
  ASSUME allocproc(c)
  PROVE  OneEpoch(c)'
  <2> USE <1>allocproc
  <2>0. /\ ticksLeft \in [Procs -> Int] /\ state \in [Procs -> States] /\ defaultLevel \in [Procs -> Levels]
    BY Zenon DEF BaseInv, TypeOK
  <2>1. pc[c] = "run" /\ pc[c] \in OnProc /\ UNCHANGED <<levelVars, cpuVars>>
    BY Zenon DEF allocproc, InUser, OnProc
  <2>2. PICK np \in Procs :
          /\ state[np] = "UNUSED"
          /\ state' = [state EXCEPT ![np] = "EMBRYO"]
          /\ ticksLeft' = [ticksLeft EXCEPT ![np] = PROC_QUANTUM]
          /\ defaultLevel' = [defaultLevel EXCEPT ![np] = STARTING_LEVEL]
    BY Zenon DEF allocproc
  <2>3. /\ ticksLeft'[np] = PROC_QUANTUM
        /\ \A x \in Procs \ {np} : ticksLeft'[x] = ticksLeft[x] /\ defaultLevel'[x] = defaultLevel[x] /\ state'[x] = state[x]
    BY <2>0, <2>2, Zenon
  <2>4. cproc[c] \in Procs /\ cproc[c] # np
    BY <2>1, <2>2, OnProcFacts, Zenon
  <2>5. \A q \in Queues : ~Contains(queue[q], np)
    BY <2>2, Zenon DEF OneInv, Placed, Schedulable
  <2>6. QuantaInRange' /\ \A x \in Procs : state'[x] = "EMBRYO" => ticksLeft'[x] = PROC_QUANTUM
    BY <2>1, <2>3, Quanta DEF OneEpoch, QuantaInRange, levelVars
  <2>7. QuantaAtCpu(c)'
    BY <2>1, <2>3, <2>4, Zenon DEF OneEpoch, QuantaAtCpu, levelVars, cpuVars
  <2>8. ASSUME NEW r \in Queues, NEW x \in Procs, Contains(queue'[r], x)
        PROVE  QuantaInLevel(c, r, x)'
    <3>1. Contains(queue[r], x) /\ QuantaInLevel(c, r, x) /\ x # np
      BY <2>1, <2>5, <2>8, InLevel, Zenon DEF levelVars
    <3> QED BY <2>1, <2>3, <3>1, Zenon DEF QuantaInLevel, FreshSet, levelVars, cpuVars
  <2> QED BY <2>6, <2>7, <2>8, Zenon DEF OneEpoch
<1>priofork.
  ASSUME NEW level \in Levels, priofork(c, level)
  PROVE  OneEpoch(c)'
  <2> USE <1>priofork
  <2>0. /\ state \in [Procs -> States] /\ defaultLevel \in [Procs -> Levels] /\ active \in {0, 1} /\ level \in Nat
        /\ Distinct(queue)
    BY DEF BaseInv, TypeOK, Levels, OneInv, Placed
  <2>1. PICK np \in Procs, nq \in Queues :
          /\ pc[c] = "run" /\ lock = NULL /\ cproc[c] \in Procs /\ state[cproc[c]] = "RUNNING"
          /\ state[np] = "EMBRYO" /\ ~In(queue, np) /\ queue' = enqueue_proc(queue, np, nq)
          /\ state' = [state EXCEPT ![np] = "RUNNABLE"]
          /\ defaultLevel' = [defaultLevel EXCEPT ![np] = level]
          /\ PlacedAt(nq, level, level)
          /\ UNCHANGED <<ticksLeft, levelTicks, active, cpuVars>>
    BY prioforkEffect, Zenon
  <2>2. /\ defaultLevel'[np] = level
        /\ \A x \in Procs \ {np} : defaultLevel'[x] = defaultLevel[x]
        /\ \A x \in Procs : state'[x] = "EMBRYO" => state[x] = "EMBRYO"
    BY <2>0, <2>1, Zenon
  <2>3. Relocated(np, nq)
    BY <2>0, <2>1, JoinedFacts, Zenon
  <2>4. ticksLeft[np] = PROC_QUANTUM
    BY <2>1, Zenon DEF OneEpoch
  <2>5. QuantaInRange' /\ \A x \in Procs : state'[x] = "EMBRYO" => ticksLeft'[x] = PROC_QUANTUM
    BY <2>1, <2>2, <1>RangeFrame, Zenon
  <2>6. QuantaAtCpu(c)'
    BY <2>1, Zenon DEF OneEpoch, QuantaAtCpu, cpuVars
  <2>7. ASSUME NEW r \in Queues, NEW x \in Procs, Contains(queue'[r], x)
        PROVE  QuantaInLevel(c, r, x)'
    <3>1. CASE x = np
      <4>1. r = nq
        BY <2>3, <2>7, <3>1, Zenon DEF Relocated
      <4>2. nq[2] \in Nat
        BY LevelTypes, Zenon
      <4>3. level <= nq[2] /\ levelTicks[nq] > 0 /\ (nq[1] # active => nq[2] = level)
        BY <2>0, <2>1, <4>2 DEF PlacedAt
      <4>4. FreshSet(c)' # active
        BY <2>0, <2>1 DEF FreshSet, cpuVars
      <4> QED BY <2>1, <2>2, <2>4, <3>1, <4>1, <4>3, <4>4, Quanta, Zenon DEF QuantaInLevel
    <3>2. CASE x # np
      <4>1. QuantaInLevel(c, r, x)
        BY <2>3, <2>7, <3>2, InLevel, Zenon DEF Relocated
      <4> QED BY <2>1, <2>2, <3>2, <4>1, Zenon DEF QuantaInLevel, FreshSet, cpuVars
    <3> QED BY <3>1, <3>2, Zenon
  <2> QED BY <2>5, <2>6, <2>7, Zenon DEF OneEpoch
<1>exit.
  ASSUME exit(c)
  PROVE  OneEpoch(c)'
  <2> USE <1>exit
  <2> DEFINE p == cproc[c]
             q == cqueue[c]
  <2>0. queue \in [Queues -> Seq(Procs)] /\ Distinct(queue) /\ pc \in [CPUS -> Locations]
    BY Zenon DEF BaseInv, TypeOK, OneInv, Placed
  <2>1. /\ pc[c] = "run" /\ p \in Procs /\ q \in Queues /\ pc' = [pc EXCEPT ![c] = "switch"]
        /\ \E i : Taken(q, i, p)
        /\ UNCHANGED <<ticksLeft, defaultLevel, levelTicks, active, cproc, cqueue, reg, swapLevel>>
    BY exitEffect, Zenon
  <2>2. \A r \in Procs : state'[r] = "EMBRYO" => state[r] = "EMBRYO"
    BY exitEffect, Zenon
  <2>3. Removed(p)
    BY <2>0, <2>1, TakenFacts, Zenon
  <2>4. QuantaInRange' /\ \A x \in Procs : state'[x] = "EMBRYO" => ticksLeft'[x] = PROC_QUANTUM
    BY <2>1, <2>2, <1>RangeFrame, Zenon
  <2>5. pc'[c] = "switch"
    BY <2>0, <2>1, Zenon
  <2>6. QuantaAtCpu(c)'
    BY <2>5, Zenon DEF QuantaAtCpu, Charging
  <2>7. ASSUME NEW r \in Queues, NEW x \in Procs, Contains(queue'[r], x)
        PROVE  QuantaInLevel(c, r, x)'
    <3>1. QuantaInLevel(c, r, x)
      BY <2>3, <2>7, InLevel, Zenon DEF Removed, In
    <3> QED BY <2>1, <2>5, <3>1, Zenon DEF QuantaInLevel, FreshSet, Ending
  <2> QED BY <2>4, <2>6, <2>7, Zenon DEF OneEpoch
<1>Clock.
  ASSUME TimerInterrupt(c) \/ TimerIdle(c) \/ TimerKilled(c) \/ ChargeLoad(c)
  PROVE  OneEpoch(c)'
  BY <1>Clock, ClockCalm, <1>Calm, Zenon
<1>Process.
  ASSUME NEW ch, NEW t \in Procs,
         \/ yield(c) \/ ForkFail(c) \/ StartExit(c) \/ wait(c) \/ SyscallReturn(c)
         \/ sleep(c, ch) \/ wakeup(c, ch) \/ kill(c, t)
  PROVE  OneEpoch(c)'
  BY <1>Process, ProcessCalm, <1>Calm, Zenon
<1>1. CASE UNCHANGED vars
  <2>1. QuantaInRange' /\ QuantaAtCpu(c)'
    BY <1>1, Zenon DEF vars, OneEpoch, QuantaInRange, QuantaAtCpu, In
  <2>2. \A q \in Queues : \A p \in Procs : Contains(queue'[q], p) => QuantaInLevel(c, q, p)'
    BY <1>1 DEF vars, OneEpoch, QuantaInLevel, FreshSet
  <2> QED BY <1>1, <2>1, <2>2, Zenon DEF vars, OneEpoch
<1>2. CASE Next
  <2>1. SchedulerStep(c) \/ ClockStep(c) \/ ProcessStep(c) \/ UNCHANGED vars
    BY <1>2, Zenon DEF Next, Only, Frozen
  <2>2. CASE SchedulerStep(c)
    BY <2>2, <1>Dispatch, <1>SwapSets, <1>SwapMove, <1>SwapNext, <1>Requeue,
       RequeuePanicOne, <1>Deplete, <1>MigrateMove, <1>MigrateLast, Zenon DEF SchedulerStep
  <2>3. CASE ClockStep(c)
    BY <2>3, <1>Clock, <1>ChargeStore, Zenon DEF ClockStep
  <2>4. CASE ProcessStep(c)
    <3>1. initproc \in Procs
      BY ConstantsAssumption DEF ConstantsAssumption, Procs, initproc
    <3>2. (yield(c) \/ ForkFail(c) \/ StartExit(c) \/ wait(c) \/ SyscallReturn(c)) => OneEpoch(c)'
      BY <3>1, <1>Process, Zenon
    <3>3. \A ch \in Chans : sleep(c, ch) \/ wakeup(c, ch) => OneEpoch(c)'
      BY <3>1, <1>Process, Zenon
    <3>4. \A t \in Procs : kill(c, t) => OneEpoch(c)'
      BY <1>Process, Zenon
    <3> QED BY <2>4, <3>2, <3>3, <3>4, <1>allocproc, <1>exit, <1>priofork, Zenon DEF ProcessStep
  <2> QED BY <1>1, <2>1, <2>2, <2>3, <2>4, Zenon
<1> QED BY <1>1, <1>2, Zenon

\* The epoch invariant on one CPU.  In particular a quantum is never negative
\* nor more than full, and only the process that gives up the CPU, or its
\* level, may have none left.
THEOREM EpochInductive ==
  ASSUME \A c, d \in CPUS : c = d
  PROVE  Spec => [](UniInv /\ EpochInv)
<1>1. Init => EpochInv
  BY TheCpu, InitEpoch, Zenon
<1>2. UniInv /\ EpochInv /\ [Next]_vars => EpochInv'
  BY TheCpu, EpochNext, Zenon
<1> QED BY <1>1, <1>2, UniInductive, PTL DEF Spec

-----------------------------------------------------------------------------
(* What an epoch promises *)

\* Only SwapSets changes the roles of the sets, only the last SwapNext leaves
\* the loop of the set swap.
LEMMA SwapSteps ==
  ASSUME NEW c \in CPUS, Only(c), BaseInv, OneInv(c), [Next]_vars
  PROVE  /\ active' # active => SwapSets(c)
         /\ pc[c] = "swap" /\ pc'[c] = "sched" => SwapNext(c)
<1>0. pc \in [CPUS -> Locations]
  BY Zenon DEF BaseInv, TypeOK
<1>1. CASE UNCHANGED vars
  BY <1>1, Zenon DEF vars
<1>2. CASE SchedulerStep(c)
  <2>1. CASE SwapMove(c)
    BY <2>1, SwapMoveEffect, Zenon
  <2>2. CASE MigrateMove(c)
    BY <2>2, MigrateMoveEffect, Zenon
  <2>3. CASE Requeue(c) \/ MigrateLast(c)
    BY <2>3, RequeueEffect, MigrateLastEffect, Zenon
  <2>4. CASE Dispatch(c) \/ Deplete(c) \/ SwapNext(c)
    BY <2>4, Zenon DEF Dispatch, Deplete, SwapNext, levelVars
  <2>5. CASE SwapSets(c)
    BY <2>5, Zenon DEF SwapSets
  <2> QED BY <1>2, <2>1, <2>2, <2>3, <2>4, <2>5, RequeuePanicOne, Zenon DEF SchedulerStep
<1>3. CASE ClockStep(c)
  BY <1>0, <1>3, Zenon DEF ClockStep, TimerInterrupt, TimerIdle, TimerKilled, ChargeLoad, ChargeStore, Panic, Goto, levelVars
<1>4. CASE ProcessStep(c)
  <2>1. pc[c] # "swap"
    BY <1>4, Zenon DEF ProcessStep, yield, allocproc, ForkFail, StartExit, exit, wait, SyscallReturn, priofork, sleep,
                wakeup, kill, InUser
  <2>2. active' = active
    BY <1>4, Zenon DEF ProcessStep, yield, allocproc, ForkFail, StartExit, exit, wait, SyscallReturn, priofork, sleep,
                wakeup, kill, Panic, levelVars
  <2> QED BY <2>1, <2>2, Zenon
<1> QED BY <1>1, <1>2, <1>3, <1>4, Zenon DEF Next, Only, Frozen

\* A RUNNABLE process of the active set, and its level, have quantum left, so
\* that the search of scheduler() does not pass over it.
LEMMA IdleSwap ==
  ASSUME NEW c \in CPUS, Only(c), BaseInv, OneInv(c), OneEpoch(c), [Next]_vars, active' # active,
         NEW k \in Levels, NEW i \in 1..Len(queue[<<active, k>>])
  PROVE  state[queue[<<active, k>>][i]] # "RUNNABLE"
<1>1. active \in {0, 1} /\ queue \in [Queues -> Seq(Procs)]
  BY Zenon DEF BaseInv, TypeOK
<1>2. SwapSets(c)
  BY SwapSteps, Zenon
<1>3. pc[c] = "sched" /\ ~Eligible(k, i)
  BY <1>2, Zenon DEF SwapSets, NothingEligible
<1>4. <<active, k>> \in Queues
  BY <1>1, Zenon DEF Queues
<1>5. queue[<<active, k>>][i] \in Procs /\ Contains(queue[<<active, k>>], queue[<<active, k>>][i])
  BY <1>1, <1>4, QueueTypes, Zenon DEF Contains
<1>6. QuantaInLevel(c, <<active, k>>, queue[<<active, k>>][i])
  BY <1>4, <1>5, InLevel, Zenon
<1>7. ticksLeft[queue[<<active, k>>][i]] > 0 /\ levelTicks[<<active, k>>] > 0
  BY <1>3, <1>6, Zenon DEF QuantaInLevel, Ending
<1> QED BY <1>3, <1>7, Zenon DEF Eligible

\* The sets are swapped only when no process of the active set is RUNNABLE:
\* a process that is RUNNABLE there, and its level, have quantum left, so that
\* the search of scheduler() does not pass over it.
THEOREM SwapsOnlyWhenIdle ==
  ASSUME \A c, d \in CPUS : c = d
  PROVE  Spec => SwapOnlyWhenIdle
<1> DEFINE Idle == active' # active =>
                     \A k \in Levels : \A i \in 1..Len(queue[<<active, k>>]) :
                       state[queue[<<active, k>>][i]] # "RUNNABLE"
<1>1. UniInv /\ EpochInv /\ [Next]_vars => Idle
  BY TheCpu, IdleSwap, Zenon
<1>2. SwapOnlyWhenIdle <=> [][Idle]_vars
  BY PTL DEF SwapOnlyWhenIdle
<1> QED BY <1>1, <1>2, EpochInductive, PTL DEF Spec

LEMMA FreshSwap ==
  ASSUME NEW c \in CPUS, Only(c), BaseInv, OneInv(c), OneEpoch(c), [Next]_vars,
         pc[c] = "swap", pc'[c] = "sched"
  PROVE  FreshEpoch'
<1>1. /\ active \in {0, 1} /\ queue \in [Queues -> Seq(Procs)] /\ swapLevel \in Levels
      /\ LEVELS \in Nat
  BY ConstantsAssumption, Zenon DEF BaseInv, TypeOK, ConstantsAssumption
<1>2. SwapNext(c)
  BY SwapSteps, Zenon
<1>3. swapLevel + 1 >= LEVELS
  <2>1. ~(swapLevel + 1 < LEVELS)
    BY <1>2, Zenon DEF SwapNext
  <2> QED BY <1>1, <2>1 DEF Levels
<1>4. UNCHANGED <<queue, levelTicks, active, defaultLevel, ticksLeft>>
  <2>1. ~(swapLevel + 1 < LEVELS)
    BY <1>2, Zenon DEF SwapNext
  <2> QED BY <1>2, <2>1, Zenon DEF SwapNext, procVars
<1>5. \A k \in Levels : queue[<<1 - active, k>>] = << >>
  BY <1>2, <1>3, SwapEnd, Zenon
<1>6. ASSUME NEW q \in Queues PROVE levelTicks[q] = LEVEL_QUANTUM
  <2>1. q = <<q[1], q[2]>> /\ (q[1] = active \/ q[1] = 1 - active) /\ q[2] \in Levels
    BY <1>1, LevelTypes
  <2>2. q[2] <= swapLevel
    BY <1>1, <1>3, <2>1 DEF Levels
  <2>3. FreshLevels(c)
    BY Zenon DEF OneInv
  <2> QED BY <2>1, <2>2, <2>3, Zenon DEF FreshLevels
<1>7. ASSUME NEW q \in Queues, NEW i \in 1..Len(queue[q])
      PROVE  q = <<active, defaultLevel[queue[q][i]]>> /\ ticksLeft[queue[q][i]] = PROC_QUANTUM
  <2>1. q = <<q[1], q[2]>> /\ (q[1] = active \/ q[1] = 1 - active) /\ q[2] \in Levels
    BY <1>1, LevelTypes
  <2>2. queue[q] # << >>
    OBVIOUS
  <2>3. q[1] = active
    BY <1>5, <2>1, <2>2, Zenon
  <2>4. queue[q][i] \in Procs /\ Contains(queue[q], queue[q][i])
    BY <1>1, QueueTypes, Zenon DEF Contains
  <2>5. QuantaInLevel(c, q, queue[q][i])
    BY <2>4, InLevel, Zenon
  <2> QED BY <2>1, <2>3, <2>5, Zenon DEF QuantaInLevel, FreshSet
<1> QED BY <1>4, <1>6, <1>7 DEF FreshEpoch

\* A set swap leaves every process in the active set, at its default level and
\* with a full quantum, and every level with a full quantum.
THEOREM SwapStartsNewEpoch ==
  ASSUME \A c, d \in CPUS : c = d
  PROVE  Spec => SwapStartsEpoch
<1> DEFINE Afresh == \A c \in CPUS : pc[c] = "swap" /\ pc'[c] = "sched" => FreshEpoch'
<1>1. UniInv /\ EpochInv /\ [Next]_vars => Afresh
  <2>1. \A c \in CPUS : c = BootCpu
    BY TheCpu, Zenon
  <2> QED BY <2>1, TheCpu, FreshSwap, Zenon
<1>2. SwapStartsEpoch <=> [][Afresh]_vars
  BY PTL DEF SwapStartsEpoch
<1> QED BY <1>1, <1>2, EpochInductive, PTL DEF Spec

LEMMA StairsFrame ==
  ASSUME BaseInv, Distinct(queue), NEW p \in Procs,
         \A x \in Procs \ {p} : \A r \in Queues : Contains(queue'[r], x) => Contains(queue[r], x),
         \A k, l \in Levels : Contains(queue[<<active, k>>], p) /\ Contains(queue'[<<active, l>>], p) => k <= l
  PROVE  \A k, l \in Levels : \A x \in Procs :
           Contains(queue[<<active, k>>], x) /\ Contains(queue'[<<active, l>>], x) => k <= l
<1> SUFFICES ASSUME NEW k \in Levels, NEW l \in Levels, NEW x \in Procs \ {p},
                    Contains(queue[<<active, k>>], x), Contains(queue'[<<active, l>>], x)
             PROVE  k <= l
  BY Zenon
<1>1. <<active, k>> \in Queues /\ <<active, l>> \in Queues /\ k \in Nat
  BY DEF BaseInv, TypeOK, Queues, Levels
<1>2. Contains(queue[<<active, l>>], x)
  BY <1>1, Zenon
<1>3. <<active, k>> = <<active, l>>
  BY <1>1, <1>2 DEF Distinct, Contains
<1> QED BY <1>1, <1>3

\* Within an epoch no step moves a process up.
LEMMA StepsDown ==
  ASSUME NEW c \in CPUS, Only(c), BaseInv, OneInv(c), [Next]_vars, active' = active
  PROVE  \A k, l \in Levels : \A p \in Procs :
           Contains(queue[<<active, k>>], p) /\ Contains(queue'[<<active, l>>], p) => k <= l
<1> DEFINE q == cqueue[c]
<1>1. /\ active \in {0, 1} /\ Distinct(queue) /\ queue \in [Queues -> Seq(Procs)]
      /\ \A k \in Levels : k \in Nat /\ <<active, k>> \in Queues
  BY DEF BaseInv, TypeOK, OneInv, Placed, Levels, Queues
<1> DEFINE Lower(p) == \A k, l \in Levels :
             Contains(queue[<<active, k>>], p) /\ Contains(queue'[<<active, l>>], p) => k <= l
<1>2. ASSUME NEW p \in Procs, NEW nq \in Queues, Relocated(p, nq), Lower(p)
      PROVE  \A x \in Procs : Lower(x)
  BY <1>1, <1>2, StairsFrame, Zenon DEF Relocated
<1>3. CASE queue' = queue
  <2> SUFFICES ASSUME NEW p \in Procs, NEW k \in Levels, NEW l \in Levels,
                      Contains(queue[<<active, k>>], p), Contains(queue[<<active, l>>], p)
               PROVE  k <= l
    BY <1>3, Zenon
  <2>1. <<active, k>> = <<active, l>>
    BY <1>1 DEF Distinct, Contains
  <2> QED BY <1>1, <2>1
<1>4. CASE SwapMove(c)
  <2>1. PICK p \in Procs : Shifted(<<1 - active, swapLevel>>, 1, p, <<active, defaultLevel[p]>>)
    BY <1>4, SwapMoveEffect, Zenon
  <2>2. /\ Relocated(p, <<active, defaultLevel[p]>>) /\ <<active, defaultLevel[p]>> \in Queues
        /\ \A r \in Queues : Contains(queue[r], p) <=> r = <<1 - active, swapLevel>>
    <3>1. <<active, defaultLevel[p]>> \in Queues
      BY <2>1, Zenon DEF Shifted
    <3>2. Relocated(p, <<active, defaultLevel[p]>>)
      BY <1>1, <2>1, ShiftedFacts, Zenon
    <3>3. \A r \in Queues : Contains(queue[r], p) <=> r = <<1 - active, swapLevel>>
      BY <1>1, <2>1, ShiftedFacts
    <3> QED BY <3>1, <3>2, <3>3, Zenon
  <2>3. \A k \in Levels : ~Contains(queue[<<active, k>>], p)
    <3>1. \A k \in Levels : <<active, k>> # <<1 - active, swapLevel>>
      BY <1>1
    <3> QED BY <1>1, <2>2, <3>1, Zenon
  <2>4. Lower(p)
    BY <2>3, Zenon
  <2> QED BY <1>2, <2>2, <2>4, Zenon
<1>5. CASE Requeue(c)
  <2>1. CASE queue' = queue
    BY <1>3, <2>1, Zenon
  <2>2. CASE queue' # queue
    <3>1. PICK nq \in Queues, i \in 1..Len(queue[q]) :
            /\ Shifted(q, i, cproc[c], nq) /\ PlacedAt(nq, next_start(cproc[c], q[2]), defaultLevel[cproc[c]])
            /\ cproc[c] \in Procs /\ q \in Queues
      BY <1>5, <2>2, RequeueEffect, Zenon
    <3>2. /\ Relocated(cproc[c], nq)
          /\ \A r \in Queues : Contains(queue[r], cproc[c]) <=> r = q
      BY <1>1, <3>1, ShiftedFacts, Zenon
    <3>3. q[2] \in Nat /\ nq[2] \in Nat
      BY <3>1, LevelTypes, Zenon
    <3>4. nq[1] = active => q[2] <= nq[2]
      BY <3>1, <3>3 DEF PlacedAt, next_start
    <3>5. Lower(cproc[c])
      BY <1>1, <3>2, <3>4 DEF Relocated
    <3> QED BY <1>2, <3>1, <3>2, <3>5, Zenon
  <2> QED BY <2>1, <2>2, Zenon
<1>6. CASE MigrateMove(c)
  <2>0. q \in Queues /\ q[2] \in Nat
    BY <1>6, MigrateMoveEffect, LevelTypes, Zenon
  <2>1. PICK np \in Procs :
          \/ Taken(q, 1, np)
          \/ \E nq \in Queues : Shifted(q, 1, np, nq) /\ PlacedAt(nq, q[2] + 1, defaultLevel[np])
    BY <1>6, MigrateMoveEffect, Zenon
  <2>2. CASE Taken(q, 1, np)
    <3>1. Removed(np)
      BY <1>1, <2>2, TakenFacts, Zenon
    <3> QED BY <1>1, <3>1, StairsFrame, Zenon DEF Removed, In
  <2>3. ASSUME NEW nq \in Queues, Shifted(q, 1, np, nq), PlacedAt(nq, q[2] + 1, defaultLevel[np])
        PROVE  \A x \in Procs : Lower(x)
    <3>1. /\ Relocated(np, nq) /\ nq[2] \in Nat
          /\ \A r \in Queues : Contains(queue[r], np) <=> r = q
      BY <1>1, <2>3, ShiftedFacts, LevelTypes, Zenon
    <3>2. nq[1] = active => q[2] <= nq[2]
      BY <2>0, <2>3, <3>1 DEF PlacedAt
    <3>3. Lower(np)
      BY <1>1, <3>1, <3>2 DEF Relocated
    <3> QED BY <1>2, <3>1, <3>3, Zenon
  <2> QED BY <2>1, <2>2, <2>3, Zenon
<1>7. CASE MigrateLast(c)
  <2>1. CASE queue' = queue
    BY <1>3, <2>1, Zenon
  <2>2. CASE queue' # queue
    <3>1. PICK nq \in Queues : queue' = enqueue_proc(queue, cproc[c], nq) /\ ~In(queue, cproc[c]) /\ cproc[c] \in Procs
      BY <1>7, <2>2, MigrateLastEffect, Zenon
    <3>2. Relocated(cproc[c], nq) /\ Lower(cproc[c])
      BY <1>1, <3>1, JoinedFacts, Zenon DEF In
    <3> QED BY <1>2, <3>1, <3>2, Zenon
  <2> QED BY <2>1, <2>2, Zenon
<1>8. CASE exit(c)
  <2>1. PICK i : Taken(q, i, cproc[c]) /\ cproc[c] \in Procs
    BY <1>8, exitEffect, Zenon
  <2>2. Removed(cproc[c])
    BY <1>1, <2>1, TakenFacts, Zenon
  <2> QED BY <1>1, <2>1, <2>2, StairsFrame, Zenon DEF Removed, In
<1>9. ASSUME NEW level \in Levels, priofork(c, level) PROVE \A x \in Procs : Lower(x)
  <2>1. PICK np \in Procs, nq \in Queues : ~In(queue, np) /\ queue' = enqueue_proc(queue, np, nq)
    BY <1>9, prioforkEffect
  <2>2. Relocated(np, nq) /\ Lower(np)
    BY <1>1, <2>1, JoinedFacts, Zenon DEF In
  <2> QED BY <1>2, <2>2, Zenon
<1>10. \/ queue' = queue \/ SwapMove(c) \/ Requeue(c) \/ MigrateMove(c) \/ MigrateLast(c) \/ exit(c)
       \/ \E level \in Levels : priofork(c, level)
  BY QueueSteps, Zenon
<1> QED BY <1>3, <1>4, <1>5, <1>6, <1>7, <1>8, <1>9, <1>10, Zenon

\* Within an epoch a process only goes down the staircase.
THEOREM OnlyDown ==
  ASSUME \A c, d \in CPUS : c = d
  PROVE  Spec => DownTheStairs
<1> DEFINE Down == active' = active =>
                     \A k, l \in Levels : \A p \in Procs :
                       Contains(queue[<<active, k>>], p) /\ Contains(queue'[<<active, l>>], p) => k <= l
<1>1. UniInv /\ [Next]_vars => Down
  BY TheCpu, StepsDown, Zenon
<1>2. DownTheStairs <=> [][Down]_vars
  BY PTL DEF DownTheStairs
<1> QED BY <1>1, <1>2, UniInductive, PTL DEF Spec
=============================================================================
