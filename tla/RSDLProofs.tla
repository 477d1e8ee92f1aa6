----------------------------- MODULE RSDLProofs -----------------------------
(*****************************************************************************)
(* What holds on any number of CPUs, for any number of processes and levels  *)
(* and any quanta: types, one CPU per process, and that fork, exit, wait and *)
(* kill orphan nobody and lose no wakeup of wait().                          *)
(*****************************************************************************)
EXTENDS RSDL, FunctionTheorems, TLAPS

-----------------------------------------------------------------------------
(* Types *)

LEMMA WithoutSeq ==
  ASSUME NEW S, NEW s \in Seq(S), NEW i \in 1..Len(s)
  PROVE  /\ Without(s, i) \in Seq(S)
         /\ Len(Without(s, i)) = Len(s) - 1
         /\ \A j \in 1..(Len(s) - 1) :
              Without(s, i)[j] = IF j < i THEN s[j] ELSE s[j + 1]
BY DEF Without

LEMMA QueueTypes ==
  ASSUME NEW Q \in [Queues -> Seq(Procs)], NEW q \in Queues
  PROVE  /\ \A i \in 1..Len(Q[q]) : /\ unqueue_proc(Q, q, i) \in [Queues -> Seq(Procs)]
                                    /\ Q[q][i] \in Procs
         /\ \A p \in Procs : enqueue_proc(Q, p, q) \in [Queues -> Seq(Procs)]
         /\ Q[q] # << >> => 1 \in 1..Len(Q[q])
BY WithoutSeq DEF unqueue_proc, enqueue_proc

LEMMA NullDistinct == NULL \notin Procs /\ NULL \notin CPUS /\ NULL \notin Queues
BY ConstantsAssumption, Zenon DEF ConstantsAssumption

LEMMA QuantaInt == PROC_QUANTUM \in Int /\ LEVEL_QUANTUM \in Int
BY ConstantsAssumption DEF ConstantsAssumption

LEMMA NextLevel == \A k \in Levels : k + 1 < LEVELS => k + 1 \in Levels
BY ConstantsAssumption DEF ConstantsAssumption, Levels

LEMMA ZeroLevel == 0 \in Levels
BY ConstantsAssumption DEF ConstantsAssumption, Levels

LEMMA PcClasses ==
  /\ "run" \in OnProc /\ "timer" \in OnProc /\ "charge" \in OnProc /\ "yield" \in OnProc
  /\ "wait" \in OnProc /\ "sched" \notin OnProc /\ "switch" \notin OnProc
  /\ "migrate" \notin OnProc /\ "swap" \notin OnProc
  /\ "wait" \in Holding /\ "switch" \in Holding /\ "migrate" \in Holding /\ "swap" \in Holding
  /\ "run" \notin Holding /\ "timer" \notin Holding /\ "charge" \notin Holding
  /\ "yield" \notin Holding /\ "sched" \notin Holding
  /\ \A l \in Panics : /\ l \notin OnProc /\ l \notin Holding
                       /\ l \notin {"sched", "swap", "switch", "migrate"}
  /\ "No free level" \in Panics /\ "init exiting" \in Panics
  /\ "unqueue of node not belonging to level" \in Panics
BY Zenon DEF OnProc, Holding, Panics, QueuePanics

-----------------------------------------------------------------------------
(* One CPU per process *)

BaseInv == TypeOK /\ CpuInv /\ ForkInv

\* The facts about CPU c that its own step starts from.
LEMMA OnProcFacts ==
  ASSUME BaseInv, NEW c \in CPUS, pc[c] \in OnProc
  PROVE  cproc[c] \in Procs /\ cqueue[c] \in Queues /\ state[cproc[c]] = "RUNNING"
BY Zenon DEF BaseInv, CpuInv, CpuLocal

LEMMA LockFreeFacts ==
  ASSUME BaseInv, lock = NULL, NEW d \in CPUS
  PROVE  pc[d] \notin Holding /\ (cproc[d] # NULL => state[cproc[d]] = "RUNNING")
<1>1. pc[d] \in OnProc \cup Holding \cup {"sched"} \cup Panics
  BY Zenon DEF BaseInv, TypeOK, Locations
<1>2. CpuLocal(d) /\ d # NULL
  BY NullDistinct, Zenon DEF BaseInv, CpuInv
<1> QED BY <1>1, <1>2, Zenon DEF CpuLocal

\* The same for a step after which no new process is inside priofork().
LEMMA ForkFacts ==
  ASSUME BaseInv
  PROVE  /\ \A r \in Procs : kpc[r] = "fork" =>
              /\ state[r] \in {"RUNNABLE", "RUNNING"}
              /\ child[r] \in Procs
              /\ state[child[r]] = "EMBRYO"
         /\ \A r, s \in Procs : kpc[r] = "fork" /\ kpc[s] = "fork" /\ child[r] = child[s] => r = s
BY Zenon DEF BaseInv, ForkInv

LEMMA Wakeup1Facts ==
  ASSUME NEW st \in [Procs -> States], NEW ch
  PROVE  /\ wakeup1(st, ch) \in [Procs -> States]
         /\ \A r \in Procs : \/ wakeup1(st, ch)[r] = st[r]
                             \/ st[r] = "SLEEPING" /\ wakeup1(st, ch)[r] = "RUNNABLE"
BY Zenon DEF wakeup1, States

LEMMA SwitchFacts ==
  ASSUME BaseInv, NEW c \in CPUS, pc[c] \in {"switch", "migrate"}
  PROVE  /\ cproc[c] \in Procs /\ cqueue[c] \in Queues /\ lock = c /\ pc[c] \in Holding
         /\ state[cproc[c]] # "RUNNING"
BY PcClasses, ZenonT(30) DEF BaseInv, CpuInv, CpuLocal

\* What a step of CPU c does to the CPUs: it keeps c's own part of CpuInv,
\* takes or gives back the lock properly, and changes who is RUNNING only for
\* the process c leaves or picks.
CpuEffect(c) ==
  /\ \A d \in CPUS \ {c} : pc'[d] = pc[d] /\ cproc'[d] = cproc[d] /\ cqueue'[d] = cqueue[d]
  /\ \A p \in Procs : p # cproc[c] /\ p # cproc'[c] =>
       (state'[p] = "RUNNING" <=> state[p] = "RUNNING")
  /\ CpuLocal(c)'
  /\ lock' = lock \/ (lock = NULL /\ lock' = c) \/ (lock = c /\ lock' = NULL)
  /\ lock' = c => pc'[c] \in Holding \cup Panics
  /\ cproc'[c] = cproc[c] \/ \A d \in CPUS : cproc'[c] # NULL => cproc[d] # cproc'[c]
  /\ \A p \in Procs : p = cproc[c] \/ p = cproc'[c] =>
       (state'[p] = "RUNNING" => cproc'[c] = p /\ pc'[c] \in OnProc \cup Panics)

LEMMA BaseInit == ASSUME Init PROVE BaseInv
<1> USE DEF Init
<1>1. TypeOK
  <2>1. queue \in [Queues -> Seq(Procs)]
    <3>1. initproc \in Procs
      BY ConstantsAssumption DEF ConstantsAssumption, Procs, initproc
    <3>2. <<initproc>> \in Seq(Procs) /\ << >> \in Seq(Procs)
      BY <3>1
    <3> QED BY <3>2, Zenon
  <2>2. /\ 0 \in Levels /\ STARTING_LEVEL \in Levels
        /\ PROC_QUANTUM \in Int /\ LEVEL_QUANTUM \in Int
    BY ConstantsAssumption DEF ConstantsAssumption, Levels
  <2>4. state \in [Procs -> States] /\ kpc \in [Procs -> Places] /\ pc \in [CPUS -> Locations]
    BY Zenon DEF States, Places, Locations
  <2>5. /\ ticksLeft \in [Procs -> Int] /\ defaultLevel \in [Procs -> Levels]
        /\ levelTicks \in [Queues -> Int] /\ swapLevel \in Levels
    BY <2>2
  <2>6. /\ parent \in [Procs -> Procs \cup {NULL}] /\ child \in [Procs -> Procs \cup {NULL}]
        /\ chan \in [Procs -> Procs \cup Chans \cup {NULL}] /\ killed \in [Procs -> BOOLEAN]
    BY Zenon
  <2>7. /\ active \in {0, 1} /\ lock \in CPUS \cup {NULL}
        /\ cproc \in [CPUS -> Procs \cup {NULL}] /\ cqueue \in [CPUS -> Queues \cup {NULL}]
        /\ reg \in [CPUS -> Int \X Int]
    OBVIOUS
  <2> HIDE DEF Init
  <2> QED BY <2>1, <2>4, <2>5, <2>6, <2>7, Zenon DEF TypeOK
<1>2. CpuInv
  <2>1. \A c \in CPUS : pc[c] = "sched" /\ cproc[c] = NULL
    BY Zenon
  <2>2. \A p \in Procs : state[p] # "RUNNING"
    BY Zenon
  <2> QED BY <2>1, <2>2, PcClasses, Zenon DEF CpuInv, CpuLocal
<1>3. ForkInv
  BY Zenon DEF ForkInv
<1> QED BY <1>1, <1>2, <1>3, Zenon DEF BaseInv

LEMMA BaseNext == ASSUME BaseInv, [Next]_vars PROVE BaseInv'
<1>CpuStep.
  ASSUME TypeOK, TypeOK', CpuInv, NEW c \in CPUS, CpuEffect(c)
  PROVE  CpuInv'
  <2> USE <1>CpuStep
  <2> USE DEF CpuEffect
  <2>0. \A d, e \in CPUS : cproc[d] # NULL /\ cproc[d] = cproc[e] => d = e
    BY Zenon DEF CpuInv
  <2>1. (lock # NULL => pc[lock] \in Holding \cup Panics)'
    BY NullDistinct, Zenon DEF TypeOK, CpuInv
  <2>2. ASSUME NEW d \in CPUS PROVE CpuLocal(d)'
    <3>1. CASE d = c
      BY <3>1, Zenon
    <3>2. CASE d # c
      <4>1. CpuLocal(d) /\ pc'[d] = pc[d] /\ cproc'[d] = cproc[d] /\ cqueue'[d] = cqueue[d]
        BY <3>2, Zenon DEF CpuInv
      <4>2. ASSUME cproc[d] # NULL
            PROVE  /\ cproc[d] \in Procs
                   /\ state'[cproc[d]] = "RUNNING" <=> state[cproc[d]] = "RUNNING"
        <5>1. cproc[d] \in Procs
          BY <4>2 DEF TypeOK
        <5>2. cproc[d] # cproc[c]
          BY <2>0, <3>2, <4>2, Zenon
        <5>3. cproc[d] # cproc'[c]
          BY <4>2, <5>2, Zenon
        <5> QED BY <5>1, <5>2, <5>3, Zenon
      <4>3. lock = d <=> lock' = d
        BY <3>2, NullDistinct, Zenon
      <4> QED BY <4>1, <4>2, <4>3, NullDistinct, PcClasses, Zenon DEF CpuLocal
    <3> QED BY <3>1, <3>2, Zenon
  <2>3. ASSUME NEW d \in CPUS, NEW e \in CPUS, cproc'[d] # NULL, cproc'[d] = cproc'[e]
        PROVE  d = e
    <3>1. CASE d # c /\ e # c
      <4>1. cproc'[d] = cproc[d] /\ cproc'[e] = cproc[e]
        BY <3>1, Zenon
      <4> QED BY <4>1, <2>0, <2>3
    <3>2. CASE cproc'[c] = cproc[c]
      <4>1. cproc[d] = cproc'[d] /\ cproc[e] = cproc'[e]
        BY <3>2, Zenon
      <4> QED BY <4>1, <2>0, <2>3, Zenon
    <3>3. CASE cproc'[c] # cproc[c] /\ (d = c \/ e = c)
      BY <3>3, <2>3
    <3> QED BY <3>1, <3>2, <3>3, Zenon
  <2>4. ASSUME NEW p \in Procs, state'[p] = "RUNNING"
        PROVE  \E d \in CPUS : cproc'[d] = p /\ pc'[d] \in OnProc \cup Panics
    <3>1. CASE p = cproc[c] \/ p = cproc'[c]
      BY <3>1, <2>4, Zenon
    <3>2. CASE p # cproc[c] /\ p # cproc'[c]
      <4>1. PICK d \in CPUS : cproc[d] = p /\ pc[d] \in OnProc \cup Panics
        BY <3>2, <2>4, Zenon DEF CpuInv
      <4>2. d # c
        BY <4>1, <3>2, Zenon
      <4> QED BY <4>1, <4>2, Zenon
    <3> QED BY <3>1, <3>2, Zenon
  <2> QED BY <2>1, <2>2, <2>3, <2>4, Zenon DEF CpuInv
\* Lemmas on the four ways a step changes the CPUs.
<1>GiveUp.
  ASSUME NEW c \in CPUS, pc[c] \in OnProc, cproc[c] \in Procs, cqueue[c] \in Queues,
         lock \in {NULL, c}, lock' = c, pc'[c] = "switch", \A d \in CPUS \ {c} : pc'[d] = pc[d],
         cproc' = cproc, cqueue' = cqueue, state'[cproc[c]] # "RUNNING",
         \A p \in Procs \ {cproc[c]} : state'[p] = "RUNNING" <=> state[p] = "RUNNING"
  PROVE  CpuEffect(c)
  BY <1>GiveUp, NullDistinct, PcClasses, Zenon DEF CpuEffect, CpuLocal
<1>KeepRunning.
  ASSUME NEW c \in CPUS, pc[c] \in OnProc, cproc[c] \in Procs, cqueue[c] \in Queues,
         state[cproc[c]] = "RUNNING", lock' = lock \/ (lock = c /\ lock' = NULL), lock' # c,
         pc'[c] \in OnProc \ Holding, \A d \in CPUS \ {c} : pc'[d] = pc[d], cproc' = cproc,
         cqueue' = cqueue, \A p \in Procs : state'[p] = "RUNNING" <=> state[p] = "RUNNING"
  PROVE  CpuEffect(c)
  BY <1>KeepRunning, NullDistinct, PcClasses, Zenon DEF CpuEffect, CpuLocal
<1>CpuFrame.
  ASSUME NEW c \in CPUS, pc' = pc, cproc' = cproc, cqueue' = cqueue, lock' = lock,
         \A p \in Procs : state'[p] = "RUNNING" <=> state[p] = "RUNNING"
  PROVE  CpuEffect(c)
  <2> USE <1>CpuFrame
  <2>1. CpuLocal(c) /\ c # NULL /\ cproc[c] \in Procs \cup {NULL}
    BY NullDistinct, Zenon DEF BaseInv, TypeOK, CpuInv
  <2>2. CpuLocal(c)'
    BY <2>1, NullDistinct, PcClasses, Zenon DEF CpuLocal
  <2>3. lock = c => pc[c] \in Holding \cup Panics
    BY NullDistinct DEF BaseInv, CpuInv
  <2>4. \A p \in Procs : p = cproc[c] /\ state[p] = "RUNNING" => pc[c] \in OnProc \cup Panics
    BY <2>1, NullDistinct DEF BaseInv, CpuInv
  <2> QED BY <2>2, <2>3, <2>4, Zenon DEF CpuEffect
<1>PanicEffect.
  ASSUME NEW c \in CPUS, NEW why \in Panics, Panic(c, why),
         \/ pc[c] \in OnProc /\ lock' \in {lock, c} /\ lock \in {NULL, lock'}
         \/ pc[c] \in Holding /\ lock' = lock
  PROVE  CpuEffect(c)
  <2> USE <1>PanicEffect
  <2>1. /\ CpuLocal(c) /\ c # NULL /\ cproc[c] \in Procs \cup {NULL}
        /\ \A e, d \in CPUS : cproc[d] # NULL /\ cproc[d] = cproc[e] => d = e
    BY NullDistinct DEF BaseInv, TypeOK, CpuInv
  <2>2. /\ pc'[c] = why /\ \A d \in CPUS \ {c} : pc'[d] = pc[d]
        /\ state' = state /\ cproc' = cproc /\ cqueue' = cqueue
    BY Zenon DEF Panic, Goto, procVars, BaseInv, TypeOK
  <2>3. CpuLocal(c)'
    BY <2>1, <2>2, PcClasses, Zenon DEF CpuLocal
  <2> QED BY <2>1, <2>2, <2>3, Zenon DEF CpuEffect
<1>LeaveEffect.
  ASSUME NEW c \in CPUS, pc[c] \in {"switch", "migrate"}, Leave(c), state' = state
  PROVE  CpuEffect(c)
  <2> USE <1>LeaveEffect
  <2>1. CpuLocal(c) /\ pc[c] \in Holding
    BY PcClasses, Zenon DEF BaseInv, CpuInv
  <2>2. /\ pc'[c] = "sched" /\ cproc'[c] = NULL /\ lock = c /\ lock' = NULL
        /\ \A d \in CPUS \ {c} : pc'[d] = pc[d] /\ cproc'[d] = cproc[d] /\ cqueue'[d] = cqueue[d]
    BY <2>1, Zenon DEF Leave, Goto, BaseInv, TypeOK, CpuLocal
  <2> QED BY <2>1, <2>2, NullDistinct, PcClasses, Zenon DEF CpuEffect, CpuLocal
\* The scheduler's own steps, between which no process is current.
<1>LoopEffect.
  ASSUME NEW c \in CPUS, cproc[c] = NULL, cproc' = cproc, cqueue' = cqueue, state' = state,
         \A d \in CPUS \ {c} : pc'[d] = pc[d],
         \/ lock = NULL /\ lock' = c /\ pc'[c] = "swap"
         \/ lock = c /\ lock' = NULL /\ pc'[c] = "sched"
  PROVE  CpuEffect(c)
  BY <1>LoopEffect, NullDistinct, PcClasses, Zenon DEF CpuEffect, CpuLocal
\* ForkInv only looks at kpc, child and the states.
<1>ForkFrame.
  ASSUME ForkInv, kpc' = kpc, child' = child,
         \A p \in Procs : kpc[p] = "fork" => state'[p] \in {"RUNNABLE", "RUNNING"},
         \A p \in Procs : state[p] = "EMBRYO" => state'[p] = "EMBRYO"
  PROVE  ForkInv'
  BY <1>ForkFrame DEF ForkInv
<1>ForkStep.
  ASSUME ForkInv,
         \A r \in Procs : kpc'[r] = "fork" =>
           /\ kpc[r] = "fork" /\ child'[r] = child[r]
           /\ state'[r] \in {"RUNNABLE", "RUNNING"} /\ state'[child[r]] = "EMBRYO"
  PROVE  ForkInv'
  BY <1>ForkStep DEF ForkInv
<1>yield.
  ASSUME NEW c \in CPUS, yield(c)
  PROVE  BaseInv'
  <2> USE <1>yield
  <2> DEFINE p == cproc[c]
  <2> USE DEF yield, InUser, Sched, Goto, LockFree, levelVars
  <2>0. pc[c] \in OnProc
    BY PcClasses, Zenon
  <2>1. p \in Procs /\ cqueue[c] \in Queues /\ state[p] = "RUNNING"
    BY <2>0, OnProcFacts, Zenon
  <2>2. TypeOK'
    BY Zenon DEF BaseInv, TypeOK, States, Places, Locations, Holding
  <2>3. /\ pc'[c] = "switch" /\ \A d \in CPUS \ {c} : pc'[d] = pc[d]
        /\ state'[p] = "RUNNABLE" /\ \A r \in Procs \ {p} : state'[r] = state[r]
        /\ kpc' = kpc /\ child' = child
        /\ cproc' = cproc /\ cqueue' = cqueue /\ lock = NULL /\ lock' = c
    BY <2>1, Zenon DEF BaseInv, TypeOK
  <2> HIDE DEF yield
  <2>4. CpuEffect(c)
    BY <2>0, <2>1, <2>3, <1>GiveUp, Zenon
  <2>5. ForkInv'
    BY <2>1, <2>3, <1>ForkFrame DEF BaseInv, ForkInv
  <2> QED BY <2>2, <2>4, <2>5, <1>CpuStep, Zenon DEF BaseInv
<1>sleep.
  ASSUME NEW c \in CPUS, NEW ch \in Chans, sleep(c, ch)
  PROVE  BaseInv'
  <2> USE <1>sleep
  <2> DEFINE p == cproc[c]
  <2> USE DEF sleep, InUser, Sched, Goto, LockFree, levelVars
  <2>0. pc[c] \in OnProc
    BY PcClasses, Zenon
  <2>1. p \in Procs /\ cqueue[c] \in Queues /\ state[p] = "RUNNING"
    BY <2>0, OnProcFacts, Zenon
  <2>2. TypeOK'
    BY Zenon DEF BaseInv, TypeOK, States, Places, Locations, Holding
  <2>3. /\ pc'[c] = "switch" /\ \A d \in CPUS \ {c} : pc'[d] = pc[d]
        /\ state'[p] = "SLEEPING" /\ \A r \in Procs \ {p} : state'[r] = state[r]
        /\ child' = child /\ kpc[p] # "fork" /\ kpc'[p] # "fork"
        /\ \A r \in Procs \ {p} : kpc'[r] = kpc[r]
        /\ cproc' = cproc /\ cqueue' = cqueue /\ lock = NULL /\ lock' = c
    BY <2>1, Zenon DEF BaseInv, TypeOK
  <2> HIDE DEF sleep
  <2>4. CpuEffect(c)
    BY <2>0, <2>1, <2>3, <1>GiveUp, Zenon
  <2>5. ForkInv'
    <3>1. \A r \in Procs : kpc'[r] = "fork" =>
            /\ kpc[r] = "fork" /\ child'[r] = child[r]
            /\ state'[r] \in {"RUNNABLE", "RUNNING"} /\ state'[child[r]] = "EMBRYO"
      BY <2>1, <2>3 DEF BaseInv, ForkInv
    <3> QED BY <3>1, <1>ForkStep, Zenon DEF BaseInv
  <2> QED BY <2>2, <2>4, <2>5, <1>CpuStep, Zenon DEF BaseInv
<1>exit.
  ASSUME NEW c \in CPUS, exit(c)
  PROVE  BaseInv'
  <2> USE <1>exit
  <2> DEFINE p == cproc[c]
  <2>0. pc[c] \in OnProc /\ pc[c] = "run" /\ kpc[p] = "exit" /\ lock = NULL
    BY PcClasses, Zenon DEF exit, LockFree
  <2>1. p \in Procs /\ cqueue[c] \in Queues /\ state[p] = "RUNNING"
    BY <2>0, OnProcFacts, Zenon
  <2>2. queue' \in [Queues -> Seq(Procs)]
    <3>1. CASE queue' = queue
      BY <3>1, Zenon DEF BaseInv, TypeOK
    <3>2. CASE \E q \in Queues : \E i \in 1..Len(queue[q]) : queue' = unqueue_proc(queue, q, i)
      BY <3>2, WithoutSeq DEF BaseInv, TypeOK, unqueue_proc
    <3> QED BY <3>1, <3>2, Zenon DEF exit, remove_proc_from_levels
  <2>3. /\ state' \in [Procs -> States] /\ state'[p] = "ZOMBIE"
        /\ \A r \in Procs \ {p} : \/ state'[r] = state[r]
                                  \/ state[r] = "SLEEPING" /\ state'[r] = "RUNNABLE"
    <3> DEFINE w == wakeup1(state, parent[p])
    <3>1. state \in [Procs -> States]
      BY Zenon DEF BaseInv, TypeOK
    <3>2. /\ w \in [Procs -> States]
          /\ \A r \in Procs : w[r] = state[r] \/ (state[r] = "SLEEPING" /\ w[r] = "RUNNABLE")
      BY <3>1, Wakeup1Facts, Zenon
    <3>3. /\ wakeup1(w, initproc) \in [Procs -> States]
          /\ \A r \in Procs : \/ wakeup1(w, initproc)[r] = w[r]
                              \/ w[r] = "SLEEPING" /\ wakeup1(w, initproc)[r] = "RUNNABLE"
      BY <3>2, Wakeup1Facts
    <3>4. state' = [w EXCEPT ![p] = "ZOMBIE"] \/ state' = [wakeup1(w, initproc) EXCEPT ![p] = "ZOMBIE"]
      BY Zenon DEF exit, exit_wakes
    <3>5. "ZOMBIE" \in States
      BY Zenon DEF States
    <3> HIDE DEF w
    <3> QED BY <2>1, <3>2, <3>3, <3>4, <3>5
  <2>p. parent' \in [Procs -> Procs \cup {NULL}]
    <3>1. initproc \in Procs
      BY ConstantsAssumption DEF ConstantsAssumption, Procs, initproc
    <3> QED BY <3>1, Zenon DEF exit, reparent, BaseInv, TypeOK
  <2>q. /\ pc' = [pc EXCEPT ![c] = "switch"] /\ lock' = c
        /\ UNCHANGED <<ticksLeft, defaultLevel, chan, killed, kpc, child, levelTicks,
                      active, cproc, cqueue, reg, swapLevel>>
    BY Zenon DEF exit, Sched, Goto
  <2>4. TypeOK'
    BY <2>1, <2>2, <2>3, <2>p, <2>q, Zenon DEF BaseInv, TypeOK, Locations, Holding
  <2>5. CpuEffect(c)
    BY <2>0, <2>1, <2>3, <2>q, <1>GiveUp, Zenon DEF BaseInv, TypeOK
  <2>6. ForkInv'
    <3>1. \A r \in Procs : kpc'[r] = "fork" =>
            /\ kpc[r] = "fork" /\ child'[r] = child[r]
            /\ state'[r] \in {"RUNNABLE", "RUNNING"} /\ state'[child[r]] = "EMBRYO"
      BY <2>0, <2>1, <2>3, <2>q DEF BaseInv, ForkInv
    <3> QED BY <3>1, <1>ForkStep, Zenon DEF BaseInv
  <2> QED BY <2>4, <2>5, <2>6, <1>CpuStep, Zenon DEF BaseInv
<1>Dispatch.
  ASSUME NEW c \in CPUS, Dispatch(c)
  PROVE  BaseInv'
  <2> USE <1>Dispatch
  <2>1. pc[c] = "sched" /\ lock = NULL /\ cproc[c] = NULL
    BY PcClasses, Zenon DEF Dispatch, LockFree, BaseInv, CpuInv, CpuLocal
  <2>2. PICK k \in Levels : \E i \in 1..Len(queue[<<active, k>>]) :
           /\ First(k, i)
           /\ cproc' = [cproc EXCEPT ![c] = queue[<<active, k>>][i]]
           /\ cqueue' = [cqueue EXCEPT ![c] = <<active, k>>]
           /\ state' = [state EXCEPT ![queue[<<active, k>>][i]] = "RUNNING"]
           /\ chan' = [chan EXCEPT ![queue[<<active, k>>][i]] = NULL]
           /\ Goto(c, IF kpc[queue[<<active, k>>][i]] = "wait" THEN "wait" ELSE "run")
           /\ lock' = IF kpc[queue[<<active, k>>][i]] = "wait" THEN c ELSE NULL
    BY Zenon DEF Dispatch
  <2>3. PICK i \in 1..Len(queue[<<active, k>>]) :
           /\ First(k, i)
           /\ cproc' = [cproc EXCEPT ![c] = queue[<<active, k>>][i]]
           /\ cqueue' = [cqueue EXCEPT ![c] = <<active, k>>]
           /\ state' = [state EXCEPT ![queue[<<active, k>>][i]] = "RUNNING"]
           /\ chan' = [chan EXCEPT ![queue[<<active, k>>][i]] = NULL]
           /\ Goto(c, IF kpc[queue[<<active, k>>][i]] = "wait" THEN "wait" ELSE "run")
           /\ lock' = IF kpc[queue[<<active, k>>][i]] = "wait" THEN c ELSE NULL
    BY <2>2, Zenon
  <2> DEFINE q == <<active, k>>
             p == queue[q][i]
  <2>4. q \in Queues /\ p \in Procs
    <3>1. q \in Queues
      BY Zenon DEF BaseInv, TypeOK, Queues
    <3>2. queue \in [Queues -> Seq(Procs)] /\ i \in 1..Len(queue[q])
      BY Zenon DEF BaseInv, TypeOK
    <3> HIDE DEF q
    <3> QED BY <3>1, <3>2, QueueTypes, Zenon
  <2>5. state[p] = "RUNNABLE"
    BY <2>3, Zenon DEF First, Eligible
  <2>6. /\ state' = [state EXCEPT ![p] = "RUNNING"] /\ chan' = [chan EXCEPT ![p] = NULL]
        /\ cproc' = [cproc EXCEPT ![c] = p] /\ cqueue' = [cqueue EXCEPT ![c] = q]
        /\ \/ pc' = [pc EXCEPT ![c] = "wait"] /\ lock' = c
           \/ pc' = [pc EXCEPT ![c] = "run"] /\ lock' = NULL
        /\ UNCHANGED <<ticksLeft, defaultLevel, parent, killed, kpc, child, queue, levelTicks,
                       active, reg, swapLevel>>
    BY <2>3, Zenon DEF Dispatch, Goto, levelVars
  <2> HIDE DEF q, p
  <2>7. TypeOK'
    BY <2>4, <2>6, Zenon DEF BaseInv, TypeOK, States, Locations, OnProc
  <2>8. \A d \in CPUS : cproc[d] # p
    <3> SUFFICES ASSUME NEW d \in CPUS, cproc[d] = p PROVE FALSE
      BY Zenon
    <3>1. state[cproc[d]] = "RUNNING"
      BY <2>1, <2>4, LockFreeFacts, NullDistinct, Zenon
    <3> QED BY <3>1, <2>5, Zenon
  <2>9. CpuEffect(c)
    <3>1. /\ \A d \in CPUS \ {c} : pc'[d] = pc[d] /\ cproc'[d] = cproc[d] /\ cqueue'[d] = cqueue[d]
          /\ cproc'[c] = p /\ cqueue'[c] = q /\ state'[p] = "RUNNING"
          /\ \A r \in Procs \ {p} : state'[r] = state[r]
          /\ \/ pc'[c] = "wait" /\ lock' = c
             \/ pc'[c] = "run" /\ lock' = NULL
      BY <2>4, <2>6 DEF BaseInv, TypeOK
    <3> QED BY <3>1, <2>1, <2>4, <2>8, NullDistinct, PcClasses, ZenonT(30) DEF CpuEffect, CpuLocal
  <2>10. ForkInv'
    <3>1. /\ state'[p] = "RUNNING" /\ \A r \in Procs \ {p} : state'[r] = state[r]
          /\ kpc' = kpc /\ child' = child
      BY <2>4, <2>6, Zenon DEF BaseInv, TypeOK
    <3> QED BY <3>1, <2>4, <2>5, <1>ForkFrame DEF BaseInv, ForkInv
  <2> QED BY <2>7, <2>9, <2>10, <1>CpuStep, Zenon DEF BaseInv
<1>SwapSets.
  ASSUME NEW c \in CPUS, SwapSets(c)
  PROVE  BaseInv'
  <2> USE <1>SwapSets
  <2> USE DEF SwapSets, LockFree, Goto, procVars
  <2>1. cproc[c] = NULL
    BY PcClasses, Zenon DEF BaseInv, CpuInv, CpuLocal
  <2>2. TypeOK'
    <3>1. <<active, 0>> \in Queues
      BY ZeroLevel, Zenon DEF BaseInv, TypeOK, Queues
    <3>2. levelTicks' \in [Queues -> Int] /\ active' \in {0, 1} /\ swapLevel' \in Levels
      BY <3>1, ZeroLevel, QuantaInt DEF BaseInv, TypeOK
    <3>3. lock' \in CPUS \cup {NULL} /\ pc' \in [CPUS -> Locations]
      BY Zenon DEF BaseInv, TypeOK, Locations, Holding
    <3>4. UNCHANGED <<state, ticksLeft, defaultLevel, parent, chan, killed, kpc, child,
                      queue, cproc, cqueue, reg>>
      BY Zenon
    <3> HIDE DEF SwapSets
    <3> QED BY <3>2, <3>3, <3>4, Zenon DEF BaseInv, TypeOK
  <2>3. CpuEffect(c)
    BY <2>1, <1>LoopEffect, Zenon DEF BaseInv, TypeOK
  <2>4. ForkInv'
    BY Zenon DEF BaseInv, ForkInv
  <2> QED BY <2>2, <2>3, <2>4, <1>CpuStep, Zenon DEF BaseInv
<1>SwapNext.
  ASSUME NEW c \in CPUS, SwapNext(c)
  PROVE  BaseInv'
  <2> USE <1>SwapNext
  <2> USE DEF SwapNext, Goto, procVars
  <2>1. cproc[c] = NULL /\ lock = c
    BY PcClasses, ZenonT(30) DEF BaseInv, CpuInv, CpuLocal
  <2>2. TypeOK'
    <3>1. CASE swapLevel + 1 < LEVELS
      <4>1. swapLevel + 1 \in Levels
        <5>1. LEVELS \in Nat /\ swapLevel \in Levels
          BY ConstantsAssumption, Zenon DEF ConstantsAssumption, BaseInv, TypeOK
        <5> QED BY <3>1, <5>1, NextLevel, Zenon
      <4>2. <<1 - active, swapLevel + 1>> \in Queues
        BY <4>1 DEF BaseInv, TypeOK, Queues
      <4> QED BY <3>1, <4>1, <4>2, QuantaInt, Zenon DEF BaseInv, TypeOK
    <3>2. CASE ~(swapLevel + 1 < LEVELS)
      <4> QED BY <3>2, ZeroLevel, Zenon DEF BaseInv, TypeOK, Locations
    <3> QED BY <3>1, <3>2, Zenon
  <2>3. CpuEffect(c)
    <3>1. CASE pc' = pc /\ lock' = lock
      BY <3>1, <1>CpuFrame, Zenon
    <3>2. CASE lock' = NULL /\ Goto(c, "sched")
      BY <2>1, <3>2, <1>LoopEffect, Zenon DEF BaseInv, TypeOK
    <3> QED BY <3>1, <3>2, Zenon
  <2>4. ForkInv'
    BY Zenon DEF BaseInv, ForkInv
  <2> QED BY <2>2, <2>3, <2>4, <1>CpuStep, Zenon DEF BaseInv
\* Steps that only move entries between queues, or charge a quantum.
<1>MoveFrame.
  ASSUME NEW c \in CPUS, queue' \in [Queues -> Seq(Procs)], ticksLeft' \in [Procs -> Int],
         levelTicks' \in [Queues -> Int],
         UNCHANGED <<state, defaultLevel, parent, chan, killed, kpc, child, active,
                     lock, pc, cproc, cqueue, reg, swapLevel>>
  PROVE  BaseInv'
  <2> USE <1>MoveFrame
  <2>1. TypeOK'
    BY Zenon DEF BaseInv, TypeOK
  <2>2. CpuEffect(c)
    BY <1>CpuFrame, Zenon
  <2>3. ForkInv'
    BY Zenon DEF BaseInv, ForkInv
  <2> QED BY <2>1, <2>2, <2>3, <1>CpuStep, Zenon DEF BaseInv
\* A panic of CPU c, reached with or without the lock.
<1>Panic.
  ASSUME NEW c \in CPUS, NEW why \in Panics, Panic(c, why),
         \/ pc[c] \in OnProc /\ lock' \in {lock, c} /\ lock \in {NULL, lock'}
         \/ pc[c] \in Holding /\ lock' = lock
  PROVE  BaseInv'
  <2> USE <1>Panic
  <2>1. TypeOK'
    BY Zenon DEF BaseInv, TypeOK, Panic, Goto, procVars, levelVars, Locations
  <2>2. CpuEffect(c)
    BY <1>PanicEffect, Zenon
  <2>3. ForkInv'
    BY Zenon DEF BaseInv, ForkInv, Panic, procVars
  <2> QED BY <2>1, <2>2, <2>3, <1>CpuStep, Zenon DEF BaseInv
\* The scheduler leaves a process; it may have moved it.
<1>Leave.
  ASSUME NEW c \in CPUS, pc[c] \in {"switch", "migrate"}, Leave(c),
         queue' \in [Queues -> Seq(Procs)], ticksLeft' \in [Procs -> Int],
         UNCHANGED <<state, defaultLevel, parent, chan, killed, kpc, child, levelTicks,
                     active, reg, swapLevel>>
  PROVE  BaseInv'
  <2> USE <1>Leave
  <2>1. TypeOK'
    BY Zenon DEF BaseInv, TypeOK, Leave, Goto, Locations
  <2>2. CpuEffect(c)
    BY <1>LeaveEffect, Zenon
  <2>3. ForkInv'
    BY Zenon DEF BaseInv, ForkInv
  <2> QED BY <2>1, <2>2, <2>3, <1>CpuStep, Zenon DEF BaseInv
<1>SwapMove.
  ASSUME NEW c \in CPUS, SwapMove(c)
  PROVE  BaseInv'
  <2> USE <1>SwapMove
  <2> DEFINE old == <<1 - active, swapLevel>>
             p == queue[old][1]
             Q == unqueue_proc(queue, old, 1)
  <2>1. old \in Queues /\ queue \in [Queues -> Seq(Procs)]
    BY DEF BaseInv, TypeOK, Queues
  <2>2. pc[c] \in Holding /\ lock' = lock /\ queue[old] # << >>
    BY PcClasses, Zenon DEF SwapMove
  <2>3. p \in Procs /\ Q \in [Queues -> Seq(Procs)]
    BY <2>1, <2>2, QueueTypes, Zenon
  <2>4. CASE Panic(c, "No free level")
    BY <2>2, <2>4, PcClasses, <1>Panic, Zenon
  <2>5. CASE /\ \E nq \in Queues : queue' = enqueue_proc(Q, p, nq)
             /\ ticksLeft' = [ticksLeft EXCEPT ![p] = PROC_QUANTUM]
             /\ UNCHANGED <<state, defaultLevel, parent, chan, killed, kpc, child,
                            levelTicks, active, pc, cproc, cqueue, reg, swapLevel>>
    <3> HIDE DEF Q, p
    <3>1. queue' \in [Queues -> Seq(Procs)]
      BY <2>3, <2>5, QueueTypes
    <3>2. ticksLeft' \in [Procs -> Int] /\ levelTicks' \in [Queues -> Int]
      BY <2>3, <2>5, QuantaInt, Zenon DEF BaseInv, TypeOK
    <3> QED BY <2>2, <2>5, <3>1, <3>2, <1>MoveFrame, Zenon
  <2> QED BY <2>4, <2>5, Zenon DEF SwapMove, Replenish
<1>Requeue.
  ASSUME NEW c \in CPUS, Requeue(c)
  PROVE  BaseInv'
  <2> USE <1>Requeue
  <2> DEFINE p == cproc[c]
             q == cqueue[c]
  <2>1. p \in Procs /\ q \in Queues /\ queue \in [Queues -> Seq(Procs)] /\ pc[c] = "switch"
    BY SwitchFacts, Zenon DEF Requeue, BaseInv, TypeOK
  <2>2. Leave(c) /\ UNCHANGED <<state, defaultLevel, parent, chan, killed, kpc, child,
                                levelTicks, active, reg, swapLevel>>
    BY Zenon DEF Requeue
  <2>3. ticksLeft' = ticksLeft \/ ticksLeft' = [ticksLeft EXCEPT ![p] = PROC_QUANTUM]
    BY Zenon DEF Requeue, Replenish
  <2>4. ticksLeft' \in [Procs -> Int]
    BY <2>3, ConstantsAssumption DEF ConstantsAssumption, BaseInv, TypeOK
  <2>5. \/ queue' = queue
        \/ \E i \in 1..Len(queue[q]) : \E nq \in Queues :
              queue' = enqueue_proc(unqueue_proc(queue, q, i), p, nq)
    BY Zenon DEF Requeue
  <2>6. queue' \in [Queues -> Seq(Procs)]
    <3>1. \A i \in 1..Len(queue[q]) : unqueue_proc(queue, q, i) \in [Queues -> Seq(Procs)]
      BY <2>1, QueueTypes, Zenon
    <3>2. \A i \in 1..Len(queue[q]) : \A nq \in Queues :
             enqueue_proc(unqueue_proc(queue, q, i), p, nq) \in [Queues -> Seq(Procs)]
      BY <2>1, <3>1, QueueTypes, Zenon
    <3> QED BY <2>1, <2>5, <3>2, Zenon
  <2> QED BY <2>1, <2>2, <2>4, <2>6, <1>Leave, Zenon
<1>RequeuePanic.
  ASSUME NEW c \in CPUS, RequeuePanic(c)
  PROVE  BaseInv'
  <2> USE <1>RequeuePanic
  <2>1. pc[c] \in Holding /\ lock' = lock
    BY PcClasses, Zenon DEF RequeuePanic
  <2>2. \E why \in Panics : Panic(c, why)
    BY PcClasses, Zenon DEF RequeuePanic
  <2> QED BY <2>1, <2>2, <1>Panic, Zenon
<1>Deplete.
  ASSUME NEW c \in CPUS, Deplete(c)
  PROVE  BaseInv'
  <2> USE <1>Deplete
  <2> USE DEF Deplete, Goto, procVars, levelVars
  <2>1. cproc[c] \in Procs /\ cqueue[c] \in Queues /\ lock = c /\ state[cproc[c]] # "RUNNING"
    BY SwitchFacts, Zenon
  <2>2. TypeOK'
    BY Zenon DEF BaseInv, TypeOK, Locations, Holding
  <2>3. CpuEffect(c)
    <3>1. pc'[c] = "migrate" /\ \A d \in CPUS \ {c} : pc'[d] = pc[d]
      BY Zenon DEF BaseInv, TypeOK
    <3>2. \A p \in Procs : p = cproc[c] => state[p] # "RUNNING"
      BY <2>1, Zenon
    <3> HIDE DEF Goto
    <3> QED BY <2>1, <3>1, <3>2, NullDistinct, PcClasses, Zenon DEF CpuEffect, CpuLocal
  <2>4. ForkInv'
    BY Zenon DEF BaseInv, ForkInv
  <2> QED BY <2>2, <2>3, <2>4, <1>CpuStep, Zenon DEF BaseInv
<1>MigrateMove.
  ASSUME NEW c \in CPUS, MigrateMove(c)
  PROVE  BaseInv'
  <2> USE <1>MigrateMove
  <2> DEFINE q == cqueue[c]
             np == queue[q][1]
             Q == unqueue_proc(queue, q, 1)
  <2>1. q \in Queues /\ queue \in [Queues -> Seq(Procs)]
    BY SwitchFacts, Zenon DEF MigrateMove, BaseInv, TypeOK
  <2>2. pc[c] \in Holding /\ lock' = lock /\ queue[q] # << >>
    BY PcClasses, Zenon DEF MigrateMove
  <2>3. np \in Procs /\ Q \in [Queues -> Seq(Procs)]
    BY <2>1, <2>2, QueueTypes, Zenon
  <2>4. CASE Panic(c, "No free level")
    BY <2>2, <2>4, PcClasses, <1>Panic, Zenon
  <2>5. CASE /\ queue' = Q \/ \E nq \in Queues : queue' = enqueue_proc(Q, np, nq)
             /\ ticksLeft' = [ticksLeft EXCEPT ![np] = PROC_QUANTUM]
             /\ UNCHANGED <<state, defaultLevel, parent, chan, killed, kpc, child,
                            levelTicks, active, pc, cproc, cqueue, reg, swapLevel>>
    <3> HIDE DEF Q, np
    <3>1. queue' \in [Queues -> Seq(Procs)]
      BY <2>3, <2>5, QueueTypes
    <3>2. ticksLeft' \in [Procs -> Int] /\ levelTicks' \in [Queues -> Int]
      BY <2>3, <2>5, QuantaInt, Zenon DEF BaseInv, TypeOK
    <3> QED BY <2>2, <2>5, <3>1, <3>2, <1>MoveFrame, Zenon
  <2> QED BY <2>4, <2>5, Zenon DEF MigrateMove, Replenish
<1>MigrateLast.
  ASSUME NEW c \in CPUS, MigrateLast(c)
  PROVE  BaseInv'
  <2> USE <1>MigrateLast
  <2> DEFINE p == cproc[c]
  <2>1. p \in Procs /\ queue \in [Queues -> Seq(Procs)] /\ ticksLeft \in [Procs -> Int]
    BY SwitchFacts, Zenon DEF MigrateLast, BaseInv, TypeOK
  <2>2. pc[c] = "migrate" /\ pc[c] \in Holding
    BY PcClasses, Zenon DEF MigrateLast
  <2>3. CASE Panic(c, "No free level") /\ lock' = lock
    BY <2>2, <2>3, PcClasses, <1>Panic, Zenon
  <2>4. CASE /\ queue' = queue \/ \E nq \in Queues : queue' = enqueue_proc(queue, p, nq)
             /\ Leave(c)
             /\ UNCHANGED <<procVars, levelTicks, active, reg, swapLevel>>
    <3>1. queue' \in [Queues -> Seq(Procs)]
      BY <2>1, <2>4, QueueTypes
    <3> QED BY <2>1, <2>2, <2>4, <3>1, <1>Leave, Zenon DEF procVars
  <2> QED BY <2>3, <2>4, Zenon DEF MigrateLast
\* Steps that wake sleepers and do nothing else.
<1>WakeFrame.
  ASSUME NEW c \in CPUS, NEW ch, state' = wakeup1(state, ch),
         UNCHANGED <<ticksLeft, defaultLevel, parent, chan, killed, kpc, child,
                     levelVars, cpuVars>>
  PROVE  BaseInv'
  <2> USE <1>WakeFrame
  <2> USE DEF levelVars, cpuVars
  <2>1. /\ state' \in [Procs -> States]
        /\ \A r \in Procs : \/ state'[r] = state[r]
                            \/ state[r] = "SLEEPING" /\ state'[r] = "RUNNABLE"
    <3>1. state \in [Procs -> States]
      BY Zenon DEF BaseInv, TypeOK
    <3> QED BY <3>1, Wakeup1Facts
  <2>2. TypeOK'
    BY <2>1, Zenon DEF BaseInv, TypeOK
  <2>3. CpuEffect(c)
    BY <2>1, <1>CpuFrame, Zenon
  <2>4. ForkInv'
    BY <2>1, <1>ForkFrame, Zenon DEF BaseInv, ForkInv
  <2> QED BY <2>2, <2>3, <2>4, <1>CpuStep, Zenon DEF BaseInv
<1>TimerInterrupt.
  ASSUME NEW c \in CPUS, TimerInterrupt(c)
  PROVE  BaseInv'
  <2> USE <1>TimerInterrupt
  <2> USE DEF TimerInterrupt, Goto, levelVars
  <2>1. /\ state' \in [Procs -> States]
        /\ \A r \in Procs : \/ state'[r] = state[r]
                            \/ state[r] = "SLEEPING" /\ state'[r] = "RUNNABLE"
    <3>1. state \in [Procs -> States]
      BY Zenon DEF BaseInv, TypeOK
    <3>2. state' = state \/ state' = wakeup1(state, TicksChan)
      BY Zenon
    <3> HIDE DEF TimerInterrupt
    <3>3. CASE state' = wakeup1(state, TicksChan)
      BY <3>1, <3>3, Wakeup1Facts
    <3> QED BY <3>1, <3>2, <3>3, Zenon
  <2>2. pc[c] \in OnProc /\ pc[c] \notin Holding \cup Panics
    BY PcClasses, Zenon
  <2>3. cproc[c] \in Procs /\ cqueue[c] \in Queues /\ state[cproc[c]] = "RUNNING" /\ lock # c
    BY <2>2, OnProcFacts, NullDistinct, Zenon DEF BaseInv, CpuInv
  <2>4. TypeOK'
    BY <2>1, Zenon DEF BaseInv, TypeOK, Locations, OnProc
  <2>5. /\ pc'[c] = "timer" /\ \A d \in CPUS \ {c} : pc'[d] = pc[d]
        /\ lock' = lock /\ cproc' = cproc /\ cqueue' = cqueue /\ kpc' = kpc /\ child' = child
    BY Zenon DEF BaseInv, TypeOK
  <2> HIDE DEF TimerInterrupt
  <2>6. CpuEffect(c)
    BY <2>1, <2>2, <2>3, <2>5, PcClasses, <1>KeepRunning, Zenon
  <2>7. ForkInv'
    BY <2>1, <2>5, <1>ForkFrame, Zenon DEF BaseInv, ForkInv
  <2> QED BY <2>4, <2>6, <2>7, <1>CpuStep, Zenon DEF BaseInv
<1>TimerKilled.
  ASSUME NEW c \in CPUS, TimerKilled(c)
  PROVE  BaseInv'
  <2> USE <1>TimerKilled
  <2> DEFINE p == cproc[c]
  <2>1. pc[c] \in OnProc /\ pc[c] \notin Holding \cup Panics /\ lock' = lock /\ kpc[p] = "user"
    BY PcClasses, Zenon DEF TimerKilled
  <2>2. p \in Procs /\ cqueue[c] \in Queues /\ state[p] = "RUNNING" /\ lock # c
    BY <2>1, OnProcFacts, NullDistinct DEF BaseInv, CpuInv
  <2>3. CASE Panic(c, "init exiting")
    BY <2>1, <2>3, <1>Panic, PcClasses, Zenon
  <2>4. CASE /\ kpc' = [kpc EXCEPT ![p] = "exit"]
             /\ Goto(c, "run")
             /\ UNCHANGED <<state, ticksLeft, defaultLevel, parent, chan, killed, child,
                            levelVars, cproc, cqueue, reg, swapLevel>>
    <3> USE <2>1, <2>2, <2>4
    <3>1. TypeOK'
      BY Zenon DEF BaseInv, TypeOK, Goto, levelVars, Locations, OnProc, Places
    <3>2. /\ pc'[c] = "run" /\ \A d \in CPUS \ {c} : pc'[d] = pc[d]
          /\ kpc'[p] = "exit" /\ \A r \in Procs \ {p} : kpc'[r] = kpc[r]
      BY Zenon DEF BaseInv, TypeOK, Goto
    <3>3. CpuEffect(c)
      BY <3>2, <1>KeepRunning, PcClasses, Zenon
    <3>4. ForkInv'
      <4>1. \A r \in Procs : kpc'[r] = "fork" =>
              /\ kpc[r] = "fork" /\ child'[r] = child[r]
              /\ state'[r] \in {"RUNNABLE", "RUNNING"} /\ state'[child[r]] = "EMBRYO"
        BY <3>2, ForkFacts
      <4> QED BY <4>1, <1>ForkStep, Zenon DEF BaseInv
    <3> QED BY <3>1, <3>3, <3>4, <1>CpuStep, Zenon DEF BaseInv
  <2> QED BY <2>3, <2>4, Zenon DEF TimerKilled
<1>ChargeLoad.
  ASSUME NEW c \in CPUS, ChargeLoad(c)
  PROVE  BaseInv'
  <2> USE <1>ChargeLoad
  <2> USE DEF ChargeLoad, Goto, procVars, levelVars
  <2>1. pc[c] \in OnProc /\ pc[c] \notin Holding \cup Panics
    BY PcClasses, Zenon
  <2>2. cproc[c] \in Procs /\ cqueue[c] \in Queues /\ state[cproc[c]] = "RUNNING" /\ lock # c
    BY <2>1, OnProcFacts, NullDistinct, Zenon DEF BaseInv, CpuInv
  <2>3. TypeOK'
    BY <2>2, Zenon DEF BaseInv, TypeOK, Locations, OnProc
  <2>4. pc'[c] = "charge" /\ \A d \in CPUS \ {c} : pc'[d] = pc[d]
    BY Zenon DEF BaseInv, TypeOK
  <2>5. CpuEffect(c)
    BY <2>1, <2>2, <2>4, <1>KeepRunning, PcClasses, Zenon
  <2>6. ForkInv'
    BY Zenon DEF BaseInv, ForkInv
  <2> QED BY <2>3, <2>5, <2>6, <1>CpuStep, Zenon DEF BaseInv
<1>ChargeStore.
  ASSUME NEW c \in CPUS, ChargeStore(c)
  PROVE  BaseInv'
  <2> USE <1>ChargeStore
  <2> USE DEF ChargeStore, Goto
  <2>1. pc[c] \in OnProc /\ pc[c] \notin Holding \cup Panics
    BY PcClasses, Zenon
  <2>2. cproc[c] \in Procs /\ cqueue[c] \in Queues /\ state[cproc[c]] = "RUNNING" /\ lock # c
    BY <2>1, OnProcFacts, NullDistinct, Zenon DEF BaseInv, CpuInv
  <2>3. reg[c][1] - 1 \in Int /\ reg[c][2] - 1 \in Int
    <3> HIDE DEF ChargeStore
    <3>1. reg[c] \in Int \X Int
      BY Zenon DEF BaseInv, TypeOK
    <3>2. reg[c][1] \in Int /\ reg[c][2] \in Int
      BY <3>1, Zenon
    <3> QED BY <3>2
  <2>4. pc' = [pc EXCEPT ![c] = "yield"] \/ pc' = [pc EXCEPT ![c] = "run"]
    BY Zenon
  <2>5. TypeOK'
    <3>1. ticksLeft' \in [Procs -> Int] /\ levelTicks' \in [Queues -> Int]
      BY <2>2, <2>3, Zenon DEF BaseInv, TypeOK
    <3>2. pc' \in [CPUS -> Locations]
      BY <2>4, Zenon DEF BaseInv, TypeOK, Locations, OnProc
    <3>3. reg' \in [CPUS -> Int \X Int]
      BY DEF BaseInv, TypeOK
    <3> HIDE DEF ChargeStore
    <3>4. UNCHANGED <<state, defaultLevel, parent, chan, killed, kpc, child, queue,
                      active, lock, cproc, cqueue, swapLevel>>
      BY Zenon DEF ChargeStore
    <3> QED BY <3>1, <3>2, <3>3, <3>4, Zenon DEF BaseInv, TypeOK
  <2>6. pc'[c] \in {"run", "yield"} /\ \A d \in CPUS \ {c} : pc'[d] = pc[d]
    BY Zenon DEF BaseInv, TypeOK
  <2>7. CpuEffect(c)
    BY <2>1, <2>2, <2>6, <1>KeepRunning, PcClasses, Zenon
  <2>8. ForkInv'
    BY Zenon DEF BaseInv, ForkInv
  <2> QED BY <2>5, <2>7, <2>8, <1>CpuStep, Zenon DEF BaseInv
<1>allocproc.
  ASSUME NEW c \in CPUS, allocproc(c)
  PROVE  BaseInv'
  <2> USE <1>allocproc
  <2> DEFINE p == cproc[c]
  <2>1. pc[c] \in OnProc /\ kpc[p] = "user"
    BY PcClasses, Zenon DEF allocproc, InUser
  <2>2. p \in Procs /\ state[p] = "RUNNING"
    BY <2>1, OnProcFacts, Zenon
  <2>3. PICK np \in Procs : /\ state[np] = "UNUSED"
                            /\ state' = [state EXCEPT ![np] = "EMBRYO"]
                            /\ ticksLeft' = [ticksLeft EXCEPT ![np] = PROC_QUANTUM]
                            /\ defaultLevel' = [defaultLevel EXCEPT ![np] = STARTING_LEVEL]
                            /\ child' = [child EXCEPT ![p] = np]
    BY Zenon DEF allocproc
  <2>4. kpc' = [kpc EXCEPT ![p] = "fork"] /\ UNCHANGED <<parent, chan, killed, levelVars, cpuVars>>
    BY Zenon DEF allocproc
  <2>5. STARTING_LEVEL \in Levels
    BY ConstantsAssumption, Zenon DEF ConstantsAssumption
  <2>6. TypeOK'
    BY <2>2, <2>3, <2>4, <2>5, QuantaInt, Zenon DEF BaseInv, TypeOK, States, Places, levelVars, cpuVars
  <2>7. /\ state'[np] = "EMBRYO" /\ \A r \in Procs \ {np} : state'[r] = state[r]
        /\ child'[p] = np /\ \A r \in Procs \ {p} : child'[r] = child[r]
        /\ kpc'[p] = "fork" /\ \A r \in Procs \ {p} : kpc'[r] = kpc[r]
    BY <2>2, <2>3, <2>4, Zenon DEF BaseInv, TypeOK
  <2>8. CpuEffect(c)
    BY <2>3, <2>4, <2>7, <1>CpuFrame, Zenon DEF cpuVars
  <2>9. ForkInv'
    <3>1. \A r \in Procs : kpc'[r] = "fork" =>
            /\ state'[r] \in {"RUNNABLE", "RUNNING"}
            /\ child'[r] \in Procs /\ state'[child'[r]] = "EMBRYO"
            /\ r # p => kpc[r] = "fork" /\ child'[r] = child[r] /\ child[r] # np
      <4> SUFFICES ASSUME NEW r \in Procs, kpc'[r] = "fork"
                   PROVE  /\ state'[r] \in {"RUNNABLE", "RUNNING"}
                          /\ child'[r] \in Procs /\ state'[child'[r]] = "EMBRYO"
                          /\ r # p => kpc[r] = "fork" /\ child'[r] = child[r] /\ child[r] # np
        BY Zenon
      <4>1. CASE r = p
        BY <2>2, <2>3, <2>7, <4>1
      <4>2. CASE r # p
        <5>1. kpc[r] = "fork" /\ child'[r] = child[r]
          BY <2>7, <4>2, Zenon
        <5>2. child[r] \in Procs /\ state[child[r]] = "EMBRYO" /\ state[r] \in {"RUNNABLE", "RUNNING"}
          BY <5>1, ForkFacts, Zenon
        <5>3. child[r] # np /\ r # np
          BY <2>3, <5>2, Zenon
        <5> QED BY <2>7, <5>1, <5>2, <5>3
      <4> QED BY <4>1, <4>2, Zenon
    <3>2. \A r, s \in Procs : kpc'[r] = "fork" /\ kpc'[s] = "fork" /\ child'[r] = child'[s] => r = s
      <4> SUFFICES ASSUME NEW r \in Procs, NEW s \in Procs, kpc'[r] = "fork", kpc'[s] = "fork",
                          child'[r] = child'[s]
                   PROVE  r = s
        BY Zenon
      <4>1. CASE r # p /\ s # p
        BY <3>1, <4>1, ForkFacts
      <4>2. CASE r = p \/ s = p
        BY <3>1, <2>7, <4>2
      <4> QED BY <4>1, <4>2, Zenon
    <3> QED BY <3>1, <3>2, Zenon DEF ForkInv
  <2> QED BY <2>6, <2>8, <2>9, <1>CpuStep, Zenon DEF BaseInv
<1>ForkFail.
  ASSUME NEW c \in CPUS, ForkFail(c)
  PROVE  BaseInv'
  <2> USE <1>ForkFail
  <2> DEFINE p == cproc[c]
             np == child[p]
  <2>1. pc[c] \in OnProc /\ kpc[p] = "fork"
    BY PcClasses, Zenon DEF ForkFail
  <2>2. p \in Procs /\ state[p] = "RUNNING" /\ np \in Procs /\ state[np] = "EMBRYO"
    BY <2>1, OnProcFacts, Zenon DEF BaseInv, ForkInv
  <2>3. /\ state' = [state EXCEPT ![np] = "UNUSED"] /\ child' = [child EXCEPT ![p] = NULL]
        /\ kpc' = [kpc EXCEPT ![p] = "user"]
        /\ UNCHANGED <<ticksLeft, defaultLevel, parent, chan, killed, levelVars, cpuVars>>
    BY Zenon DEF ForkFail
  <2>4. TypeOK'
    BY <2>2, <2>3, Zenon DEF BaseInv, TypeOK, States, Places, levelVars, cpuVars
  <2>5. /\ state'[np] = "UNUSED" /\ \A r \in Procs \ {np} : state'[r] = state[r]
        /\ \A r \in Procs \ {p} : child'[r] = child[r] /\ kpc'[r] = kpc[r]
        /\ kpc'[p] = "user"
    BY <2>2, <2>3, Zenon DEF BaseInv, TypeOK
  <2>6. CpuEffect(c)
    BY <2>2, <2>3, <2>5, <1>CpuFrame, Zenon DEF cpuVars
  <2>7. ForkInv'
    <3>1. \A r \in Procs : kpc'[r] = "fork" =>
            /\ kpc[r] = "fork" /\ child'[r] = child[r]
            /\ state'[r] \in {"RUNNABLE", "RUNNING"} /\ state'[child[r]] = "EMBRYO"
      BY <2>1, <2>2, <2>5, ForkFacts
    <3> QED BY <3>1, <1>ForkStep, Zenon DEF BaseInv
  <2> QED BY <2>4, <2>6, <2>7, <1>CpuStep, Zenon DEF BaseInv
<1>priofork.
  ASSUME NEW c \in CPUS, NEW level \in Levels, priofork(c, level)
  PROVE  BaseInv'
  <2> USE <1>priofork
  <2> DEFINE p == cproc[c]
             np == child[p]
  <2>1. pc[c] \in OnProc /\ kpc[p] = "fork" /\ lock = NULL
    BY PcClasses, Zenon DEF priofork, LockFree
  <2>2. p \in Procs /\ state[p] = "RUNNING" /\ np \in Procs /\ state[np] = "EMBRYO"
    BY <2>1, OnProcFacts, Zenon DEF BaseInv, ForkInv
  <2>3. CASE Panic(c, "No free level") /\ lock' = c
    BY <2>1, <2>3, <1>Panic, PcClasses, Zenon
  <2>4. CASE /\ \E q \in Queues : queue' = enqueue_proc(queue, np, q)
             /\ parent' = [parent EXCEPT ![np] = p]
             /\ defaultLevel' = [defaultLevel EXCEPT ![np] = level]
             /\ state' = [state EXCEPT ![np] = "RUNNABLE"]
             /\ child' = [child EXCEPT ![p] = NULL]
             /\ kpc' = [kpc EXCEPT ![p] = "user", ![np] = "user"]
             /\ UNCHANGED <<ticksLeft, chan, killed, levelTicks, active, cpuVars>>
    <3>0. queue \in [Queues -> Seq(Procs)]
      BY Zenon DEF BaseInv, TypeOK
    <3>1. queue' \in [Queues -> Seq(Procs)]
      <4> HIDE DEF np
      <4> QED BY <2>2, <2>4, <3>0, QueueTypes
    <3>2. TypeOK'
      BY <2>2, <2>4, <3>1, Zenon DEF BaseInv, TypeOK, States, Places, cpuVars
    <3>3. /\ state'[np] = "RUNNABLE" /\ \A r \in Procs \ {np} : state'[r] = state[r]
          /\ \A r \in Procs \ {p} : child'[r] = child[r]
          /\ \A r \in Procs \ {p, np} : kpc'[r] = kpc[r]
          /\ kpc'[p] = "user" /\ kpc'[np] = "user"
      BY <2>2, <2>4, Zenon DEF BaseInv, TypeOK
    <3>4. CpuEffect(c)
      BY <2>2, <2>4, <3>3, <1>CpuFrame, Zenon DEF cpuVars
    <3>5. ForkInv'
      <4>1. \A r \in Procs : kpc'[r] = "fork" =>
              /\ kpc[r] = "fork" /\ child'[r] = child[r]
              /\ state'[r] \in {"RUNNABLE", "RUNNING"} /\ state'[child[r]] = "EMBRYO"
        BY <2>1, <2>2, <3>3, ForkFacts
      <4> QED BY <4>1, <1>ForkStep, Zenon DEF BaseInv
    <3> QED BY <3>2, <3>4, <3>5, <1>CpuStep, Zenon DEF BaseInv
  <2> QED BY <2>3, <2>4, Zenon DEF priofork
<1>StartExit.
  ASSUME NEW c \in CPUS, StartExit(c)
  PROVE  BaseInv'
  <2> USE <1>StartExit
  <2> DEFINE p == cproc[c]
  <2>1. pc[c] \in OnProc /\ lock' = lock /\ kpc[p] = "user"
    BY PcClasses, Zenon DEF StartExit
  <2>2. CASE Panic(c, "init exiting")
    BY <2>1, <2>2, <1>Panic, PcClasses, Zenon
  <2>3. CASE /\ kpc' = [kpc EXCEPT ![p] = "exit"]
             /\ UNCHANGED <<state, ticksLeft, defaultLevel, parent, chan, killed, child,
                            levelVars, pc, cproc, cqueue, reg, swapLevel>>
    <3> USE <2>1, <2>3
    <3>1. TypeOK'
      BY Zenon DEF BaseInv, TypeOK, levelVars, Places
    <3>2. CpuEffect(c)
      BY <1>CpuFrame, Zenon
    <3>3. ForkInv'
      BY DEF BaseInv, TypeOK, ForkInv
    <3> QED BY <3>1, <3>2, <3>3, <1>CpuStep, Zenon DEF BaseInv
  <2> QED BY <2>2, <2>3, Zenon DEF StartExit
<1>wait.
  ASSUME NEW c \in CPUS, wait(c)
  PROVE  BaseInv'
  <2> USE <1>wait
  <2> DEFINE p == cproc[c]
  <2>1. pc[c] \in OnProc
    BY PcClasses, Zenon DEF wait, InUser
  <2>2. p \in Procs /\ cqueue[c] \in Queues /\ state[p] = "RUNNING"
    BY <2>1, OnProcFacts, Zenon
  <2>3. lock \in {NULL, c}
    <3>1. CASE pc[c] = "wait"
      BY <3>1, PcClasses, ZenonT(30) DEF BaseInv, CpuInv, CpuLocal
    <3>2. CASE lock = NULL
      BY <3>2, Zenon
    <3> QED BY <3>1, <3>2, Zenon DEF wait, LockFree
  <2>4. UNCHANGED <<ticksLeft, defaultLevel, child, queue, levelTicks, active, cproc, cqueue, reg,
                    swapLevel>>
    BY Zenon DEF wait, levelVars
  <2>5. CASE \E r \in Procs : /\ state[r] = "ZOMBIE"
                             /\ state' = [state EXCEPT ![r] = "UNUSED"]
                             /\ parent' = [parent EXCEPT ![r] = NULL]
                             /\ killed' = [killed EXCEPT ![r] = FALSE]
                             /\ kpc' = [kpc EXCEPT ![p] = "user"]
                             /\ Goto(c, "run") /\ lock' = NULL
                             /\ UNCHANGED chan
    <3>1. PICK r \in Procs : /\ state[r] = "ZOMBIE"
                             /\ state' = [state EXCEPT ![r] = "UNUSED"]
                             /\ parent' = [parent EXCEPT ![r] = NULL]
                             /\ killed' = [killed EXCEPT ![r] = FALSE]
                             /\ kpc' = [kpc EXCEPT ![p] = "user"]
                             /\ Goto(c, "run") /\ lock' = NULL
                             /\ UNCHANGED chan
      BY <2>5, Zenon
    <3>2. TypeOK'
      BY <2>2, <2>4, <3>1, Zenon DEF BaseInv, TypeOK, States, Places, Locations, OnProc, Goto
    <3>3. /\ state'[r] = "UNUSED" /\ \A s \in Procs \ {r} : state'[s] = state[s]
          /\ kpc'[p] = "user" /\ \A s \in Procs \ {p} : kpc'[s] = kpc[s]
          /\ pc'[c] = "run" /\ \A d \in CPUS \ {c} : pc'[d] = pc[d]
      BY <2>2, <3>1, Zenon DEF BaseInv, TypeOK, Goto
    <3>4. CpuEffect(c)
      BY <2>1, <2>2, <2>3, <2>4, <3>1, <3>3, <1>KeepRunning, PcClasses, NullDistinct, Zenon
    <3>5. ForkInv'
      <4>0. state[r] = "ZOMBIE"
        BY <3>1, Zenon
      <4>1. \A s \in Procs : kpc'[s] = "fork" =>
              /\ kpc[s] = "fork" /\ child'[s] = child[s]
              /\ state'[s] \in {"RUNNABLE", "RUNNING"} /\ state'[child[s]] = "EMBRYO"
        BY <2>2, <2>4, <3>3, <4>0 DEF BaseInv, ForkInv
      <4> QED BY <4>1, <1>ForkStep, Zenon DEF BaseInv
    <3> QED BY <3>2, <3>4, <3>5, <1>CpuStep, Zenon DEF BaseInv
  <2>6. CASE /\ kpc' = [kpc EXCEPT ![p] = "user"]
             /\ Goto(c, "run") /\ lock' = NULL
             /\ UNCHANGED <<state, parent, killed, chan>>
    <3>1. TypeOK'
      BY <2>2, <2>4, <2>6, Zenon DEF BaseInv, TypeOK, Places, Locations, OnProc, Goto
    <3>2. /\ kpc'[p] = "user" /\ \A s \in Procs \ {p} : kpc'[s] = kpc[s]
          /\ pc'[c] = "run" /\ \A d \in CPUS \ {c} : pc'[d] = pc[d]
      BY <2>2, <2>6, Zenon DEF BaseInv, TypeOK, Goto
    <3>3. CpuEffect(c)
      BY <2>1, <2>2, <2>3, <2>4, <2>6, <3>2, <1>KeepRunning, PcClasses, NullDistinct, Zenon
    <3>4. ForkInv'
      <4>1. \A r \in Procs : kpc'[r] = "fork" =>
              /\ kpc[r] = "fork" /\ child'[r] = child[r]
              /\ state'[r] \in {"RUNNABLE", "RUNNING"} /\ state'[child[r]] = "EMBRYO"
        BY <2>2, <2>4, <2>6, <3>2 DEF BaseInv, ForkInv
      <4> QED BY <4>1, <1>ForkStep, Zenon DEF BaseInv
    <3> QED BY <3>1, <3>3, <3>4, <1>CpuStep, Zenon DEF BaseInv
  <2>7. CASE /\ state' = [state EXCEPT ![p] = "SLEEPING"]
             /\ chan' = [chan EXCEPT ![p] = p]
             /\ kpc' = [kpc EXCEPT ![p] = "wait"]
             /\ Sched(c)
             /\ UNCHANGED <<parent, killed>>
    <3>1. TypeOK'
      BY <2>2, <2>4, <2>7, Zenon DEF BaseInv, TypeOK, States, Places, Locations, Holding, Sched, Goto
    <3>2. /\ kpc'[p] = "wait" /\ \A s \in Procs \ {p} : kpc'[s] = kpc[s]
          /\ state'[p] = "SLEEPING" /\ \A s \in Procs \ {p} : state'[s] = state[s]
          /\ pc'[c] = "switch" /\ \A d \in CPUS \ {c} : pc'[d] = pc[d]
          /\ lock' = c
      BY <2>2, <2>7, Zenon DEF BaseInv, TypeOK, Sched, Goto
    <3>3. CpuEffect(c)
      BY <2>1, <2>2, <2>3, <2>4, <3>2, <1>GiveUp, Zenon
    <3>4. ForkInv'
      <4>1. \A r \in Procs : kpc'[r] = "fork" =>
              /\ kpc[r] = "fork" /\ child'[r] = child[r]
              /\ state'[r] \in {"RUNNABLE", "RUNNING"} /\ state'[child[r]] = "EMBRYO"
        BY <2>2, <2>4, <3>2 DEF BaseInv, ForkInv
      <4> QED BY <4>1, <1>ForkStep, Zenon DEF BaseInv
    <3> QED BY <3>1, <3>3, <3>4, <1>CpuStep, Zenon DEF BaseInv
  <2> QED BY <2>5, <2>6, <2>7, Zenon DEF wait, Children
<1>SyscallReturn.
  ASSUME NEW c \in CPUS, SyscallReturn(c)
  PROVE  BaseInv'
  <2> USE <1>SyscallReturn
  <2> USE DEF SyscallReturn, levelVars, cpuVars
  <2>1. TypeOK'
    BY Zenon DEF BaseInv, TypeOK, Places
  <2>2. CpuEffect(c)
    BY <1>CpuFrame, Zenon
  <2>3. ForkInv'
    BY DEF BaseInv, TypeOK, ForkInv
  <2> QED BY <2>1, <2>2, <2>3, <1>CpuStep, Zenon DEF BaseInv
<1>kill.
  ASSUME NEW c \in CPUS, NEW t \in Procs, kill(c, t)
  PROVE  BaseInv'
  <2> USE <1>kill
  <2> USE DEF kill, levelVars, cpuVars
  <2>1. TypeOK'
    BY Zenon DEF BaseInv, TypeOK, States
  <2>2. \A r \in Procs : \/ state'[r] = state[r]
                         \/ state[r] = "SLEEPING" /\ state'[r] = "RUNNABLE"
    BY Zenon DEF BaseInv, TypeOK
  <2>3. CpuEffect(c)
    BY <2>2, <1>CpuFrame, Zenon
  <2>4. ForkInv'
    BY <2>2, <1>ForkFrame, Zenon DEF BaseInv, ForkInv
  <2> QED BY <2>1, <2>3, <2>4, <1>CpuStep, Zenon DEF BaseInv
<1>1. CASE UNCHANGED vars
  <2>1. TypeOK'
    BY <1>1, Zenon DEF BaseInv, vars, TypeOK
  <2>2. CpuInv'
    BY <1>1, Zenon DEF BaseInv, vars, CpuInv, CpuLocal
  <2>3. ForkInv'
    BY <1>1, Zenon DEF BaseInv, vars, ForkInv
  <2> QED BY <2>1, <2>2, <2>3, Zenon DEF BaseInv
<1>2. ASSUME NEW c \in CPUS, SchedulerStep(c) PROVE BaseInv'
  BY <1>2, <1>Dispatch, <1>SwapSets, <1>SwapMove, <1>SwapNext, <1>Requeue,
     <1>RequeuePanic, <1>Deplete, <1>MigrateMove, <1>MigrateLast, Zenon DEF SchedulerStep
<1>3. ASSUME NEW c \in CPUS, ClockStep(c) PROVE BaseInv'
  <2>1. TimerIdle(c) => BaseInv'
    BY <1>WakeFrame, Zenon DEF TimerIdle
  <2> QED BY <1>3, <2>1, <1>TimerInterrupt, <1>TimerKilled, <1>ChargeLoad, <1>ChargeStore, Zenon
          DEF ClockStep
<1>4. ASSUME NEW c \in CPUS, ProcessStep(c) PROVE BaseInv'
  <2>1. \A ch \in Chans : wakeup(c, ch) => BaseInv'
    BY <1>WakeFrame, Zenon DEF wakeup
  <2> QED BY <1>4, <2>1, <1>yield, <1>allocproc, <1>ForkFail, <1>StartExit, <1>exit,
             <1>wait, <1>SyscallReturn, <1>priofork, <1>sleep, <1>kill, Zenon
          DEF ProcessStep
<1> QED BY <1>1, <1>2, <1>3, <1>4, Zenon DEF Next, Frozen

\* Type correctness for any number of CPUs, processes, levels and any quanta.
THEOREM TypeCorrect == Spec => []TypeOK
<1>1. Init => BaseInv
  BY BaseInit, Zenon
<1>2. BaseInv /\ [Next]_vars => BaseInv'
  BY BaseNext, Zenon
<1>3. BaseInv => TypeOK
  BY Zenon DEF BaseInv
<1> QED BY <1>1, <1>2, <1>3, PTL DEF Spec

\* On any number of CPUs, no process is ever executed by two of them, and none
\* that is being executed can be picked by another scheduler().
THEOREM OneCpu == Spec => []OneCpuPerProcess
<1>1. Init => BaseInv
  BY BaseInit, Zenon
<1>2. BaseInv /\ [Next]_vars => BaseInv'
  BY BaseNext, Zenon
<1>3. BaseInv => OneCpuPerProcess
  <2> SUFFICES ASSUME BaseInv PROVE OneCpuPerProcess
    BY Zenon
  <2>1. \A c \in CPUS : pc[c] \in OnProc => cproc[c] # NULL /\ state[cproc[c]] = "RUNNING"
    BY OnProcFacts, NullDistinct, Zenon
  <2> QED BY <2>1, Zenon DEF BaseInv, CpuInv, OneCpuPerProcess
<1> QED BY <1>1, <1>2, <1>3, PTL DEF Spec

-----------------------------------------------------------------------------
(* The family of processes *)

LEMMA InitProc == initproc \in Procs
BY ConstantsAssumption DEF ConstantsAssumption, Procs, initproc

LEMMA FamilyInit == ASSUME Init PROVE FamilyInv
<1>1. /\ \A p \in Procs : parent[p] = NULL /\ kpc[p] = "user"
      /\ \A p \in Procs \ {initproc} : state[p] = "UNUSED"
      /\ state[initproc] = "RUNNABLE"
  BY InitProc, Zenon DEF Init
<1>2. ParentAlive /\ NoLostWait
  BY <1>1, Zenon DEF ParentAlive, NoLostWait, Schedulable
<1>3. state[initproc] \in Schedulable /\ kpc[initproc] # "exit" /\ parent[initproc] = NULL
  BY <1>1, InitProc, Zenon DEF Schedulable
<1>4. \A p \in Procs : parent[p] # p
  BY <1>1, NullDistinct, Zenon
<1> QED BY <1>1, <1>2, <1>3, <1>4, Zenon DEF FamilyInv

LEMMA FamilyNext == ASSUME BaseInv, FamilyInv, [Next]_vars PROVE FamilyInv'
<1>ParentFacts.
  ASSUME TypeOK, NEW p \in Procs \ {initproc}, state[p] \in Schedulable \cup {"ZOMBIE"}
  PROVE  parent[p] \in Procs /\ state[parent[p]] \in Schedulable
  <2> USE <1>ParentFacts
  <2>1. parent[p] \in Procs \cup {NULL}
    BY Zenon DEF TypeOK
  <2>2. parent[p] # NULL /\ state[parent[p]] \in Schedulable
    BY Zenon DEF FamilyInv, ParentAlive
  <2> QED BY <2>1, <2>2, Zenon
\* A step that neither creates nor ends a process, changes no parent and puts
\* nobody to sleep in wait().
<1>FamilyFrame.
  ASSUME TypeOK, parent' = parent, kpc'[initproc] # "exit",
         \A p \in Procs : state'[p] \in Schedulable <=> state[p] \in Schedulable,
         \A p \in Procs : state'[p] = "ZOMBIE" <=> state[p] = "ZOMBIE",
         \A p \in Procs : state'[p] = "SLEEPING" /\ kpc'[p] = "wait" =>
           /\ state[p] = "SLEEPING" /\ kpc[p] = "wait"
           /\ chan'[p] = chan[p] /\ (killed'[p] => killed[p])
  PROVE  FamilyInv'
  <2> USE <1>FamilyFrame
  <2>1. ParentAlive'
    BY DEF FamilyInv, ParentAlive, TypeOK
  <2>2. NoLostWait'
    BY DEF FamilyInv, NoLostWait
  <2> QED BY <2>1, <2>2, InitProc, Zenon DEF FamilyInv
\* The steps of the scheduler and the clock that touch no process.
<1>FamilySame.
  ASSUME UNCHANGED <<state, parent, chan, killed, kpc>>
  PROVE  FamilyInv'
  BY <1>FamilySame, Zenon DEF FamilyInv, ParentAlive, NoLostWait
<1>FamilyPanic.
  ASSUME NEW c, NEW why, Panic(c, why)
  PROVE  FamilyInv'
  BY <1>FamilyPanic, <1>FamilySame, Zenon DEF Panic, procVars
\* wakeup1() only makes sleepers RUNNABLE.
<1>FamilyWake.
  ASSUME TypeOK, UNCHANGED <<parent, chan, killed, kpc>>,
         \A r \in Procs : \/ state'[r] = state[r]
                          \/ state[r] = "SLEEPING" /\ state'[r] = "RUNNABLE"
  PROVE  FamilyInv'
  <2> USE <1>FamilyWake
  <2>1. kpc'[initproc] # "exit"
    BY Zenon DEF FamilyInv
  <2>2. \A p \in Procs : state'[p] \in Schedulable <=> state[p] \in Schedulable
    BY Zenon DEF Schedulable
  <2>3. /\ \A p \in Procs : state'[p] = "ZOMBIE" <=> state[p] = "ZOMBIE"
        /\ \A p \in Procs : state'[p] = "SLEEPING" /\ kpc'[p] = "wait" =>
             /\ state[p] = "SLEEPING" /\ kpc[p] = "wait"
             /\ chan'[p] = chan[p] /\ (killed'[p] => killed[p])
    BY Zenon
  <2> QED BY <2>1, <2>2, <2>3, <1>FamilyFrame, Zenon
\* A step of the process p that a CPU runs: p stays alive and does not go to
\* sleep in wait(); no other process is concerned.
<1>FamilyOwn.
  ASSUME TypeOK, NEW p \in Procs, state[p] = "RUNNING", parent' = parent, killed' = killed,
         kpc'[initproc] # "exit", state'[p] \in Schedulable,
         state'[p] = "SLEEPING" => kpc'[p] # "wait",
         \A r \in Procs \ {p} : state'[r] = state[r] /\ kpc'[r] = kpc[r] /\ chan'[r] = chan[r]
  PROVE  FamilyInv'
  <2> USE <1>FamilyOwn
  <2>1. \A r \in Procs : state'[r] \in Schedulable <=> state[r] \in Schedulable
    BY Zenon DEF Schedulable
  <2>2. \A r \in Procs : state'[r] = "ZOMBIE" <=> state[r] = "ZOMBIE"
    BY Zenon DEF Schedulable
  <2>3. \A r \in Procs : state'[r] = "SLEEPING" /\ kpc'[r] = "wait" =>
          /\ state[r] = "SLEEPING" /\ kpc[r] = "wait"
          /\ chan'[r] = chan[r] /\ (killed'[r] => killed[r])
    BY Zenon
  <2> QED BY <2>1, <2>2, <2>3, <1>FamilyFrame, Zenon
<1>Dispatch.
  ASSUME NEW c \in CPUS, Dispatch(c)
  PROVE  FamilyInv'
  <2> USE <1>Dispatch
  <2>1. PICK k \in Levels : \E i \in 1..Len(queue[<<active, k>>]) :
           /\ First(k, i)
           /\ state' = [state EXCEPT ![queue[<<active, k>>][i]] = "RUNNING"]
           /\ chan' = [chan EXCEPT ![queue[<<active, k>>][i]] = NULL]
    BY Zenon DEF Dispatch
  <2>2. PICK i \in 1..Len(queue[<<active, k>>]) :
           /\ First(k, i)
           /\ state' = [state EXCEPT ![queue[<<active, k>>][i]] = "RUNNING"]
           /\ chan' = [chan EXCEPT ![queue[<<active, k>>][i]] = NULL]
    BY <2>1, Zenon
  <2> DEFINE p == queue[<<active, k>>][i]
  <2>3. p \in Procs
    <3>1. <<active, k>> \in Queues /\ queue \in [Queues -> Seq(Procs)]
      BY Zenon DEF BaseInv, TypeOK, Queues
    <3> QED BY <3>1
  <2>4. state[p] = "RUNNABLE"
    BY <2>2, Zenon DEF First, Eligible
  <2>5. UNCHANGED <<parent, killed, kpc>> /\ kpc'[initproc] # "exit"
    BY Zenon DEF Dispatch, FamilyInv
  <2> HIDE DEF p
  <2>6. /\ state'[p] = "RUNNING"
        /\ \A r \in Procs \ {p} : state'[r] = state[r] /\ chan'[r] = chan[r]
    BY <2>2, <2>3, Zenon DEF BaseInv, TypeOK, p
  <2>7. \A r \in Procs : state'[r] \in Schedulable <=> state[r] \in Schedulable
    BY <2>3, <2>4, <2>6, Zenon DEF Schedulable
  <2>8. /\ \A r \in Procs : state'[r] = "ZOMBIE" <=> state[r] = "ZOMBIE"
        /\ \A r \in Procs : state'[r] = "SLEEPING" /\ kpc'[r] = "wait" =>
             /\ state[r] = "SLEEPING" /\ kpc[r] = "wait"
             /\ chan'[r] = chan[r] /\ (killed'[r] => killed[r])
    BY <2>3, <2>4, <2>5, <2>6, Zenon
  <2> QED BY <2>5, <2>7, <2>8, <1>FamilyFrame, Zenon DEF BaseInv
<1>Scheduler.
  ASSUME NEW c \in CPUS, SchedulerStep(c)
  PROVE  FamilyInv'
  <2> USE <1>Scheduler
  <2>1. SwapSets(c) => FamilyInv'
    BY <1>FamilySame, Zenon DEF SwapSets, procVars
  <2>2. SwapMove(c) => FamilyInv'
    BY <1>FamilySame, <1>FamilyPanic, Zenon DEF SwapMove
  <2>3. SwapNext(c) => FamilyInv'
    BY <1>FamilySame, Zenon DEF SwapNext, procVars
  <2>4. Requeue(c) => FamilyInv'
    BY <1>FamilySame, Zenon DEF Requeue
  <2>5. RequeuePanic(c) => FamilyInv'
    BY <1>FamilyPanic, Zenon DEF RequeuePanic
  <2>6. Deplete(c) => FamilyInv'
    BY <1>FamilySame, Zenon DEF Deplete, procVars
  <2>7. MigrateMove(c) => FamilyInv'
    BY <1>FamilySame, <1>FamilyPanic, Zenon DEF MigrateMove
  <2>8. MigrateLast(c) => FamilyInv'
    BY <1>FamilySame, <1>FamilyPanic, Zenon DEF MigrateLast, procVars
  <2> QED BY <2>1, <2>2, <2>3, <2>4, <2>5, <2>6, <2>7, <2>8, <1>Dispatch, Zenon DEF SchedulerStep
<1>Clock.
  ASSUME NEW c \in CPUS, ClockStep(c)
  PROVE  FamilyInv'
  <2> USE <1>Clock
  <2> DEFINE p == cproc[c]
  <2>0. TypeOK /\ state \in [Procs -> States]
    BY Zenon DEF BaseInv, TypeOK
  <2>1. ASSUME state' = state \/ state' = wakeup1(state, TicksChan),
               UNCHANGED <<parent, chan, killed, kpc>>
        PROVE  FamilyInv'
    <3>1. \A r \in Procs : \/ state'[r] = state[r]
                           \/ state[r] = "SLEEPING" /\ state'[r] = "RUNNABLE"
      BY <2>0, <2>1, Wakeup1Facts
    <3> QED BY <2>0, <2>1, <3>1, <1>FamilyWake, Zenon
  <2>2. TimerInterrupt(c) => FamilyInv'
    BY <2>1, Zenon DEF TimerInterrupt
  <2>3. TimerIdle(c) => FamilyInv'
    BY <2>1, Zenon DEF TimerIdle
  <2>4. ASSUME TimerKilled(c) PROVE FamilyInv'
    <3>1. CASE Panic(c, "init exiting")
      BY <3>1, <1>FamilyPanic, Zenon
    <3>2. CASE /\ p # initproc /\ kpc' = [kpc EXCEPT ![p] = "exit"]
               /\ UNCHANGED <<state, parent, chan, killed>>
      <4>1. p \in Procs /\ state[p] = "RUNNING"
        BY <2>4, OnProcFacts, PcClasses, Zenon DEF TimerKilled
      <4>2. /\ kpc'[initproc] # "exit" /\ state'[p] \in Schedulable /\ state'[p] # "SLEEPING"
            /\ \A r \in Procs \ {p} : kpc'[r] = kpc[r]
        BY <2>0, <3>2, <4>1, InitProc, Zenon DEF TypeOK, FamilyInv, Schedulable
      <4> QED BY <2>0, <3>2, <4>1, <4>2, <1>FamilyOwn, Zenon
    <3> QED BY <2>4, <3>1, <3>2, Zenon DEF TimerKilled
  <2>5. ChargeLoad(c) => FamilyInv'
    BY <1>FamilySame, Zenon DEF ChargeLoad, procVars
  <2>6. ChargeStore(c) => FamilyInv'
    BY <1>FamilySame, Zenon DEF ChargeStore
  <2> QED BY <2>2, <2>3, <2>4, <2>5, <2>6, Zenon DEF ClockStep
<1>yield.
  ASSUME NEW c \in CPUS, yield(c)
  PROVE  FamilyInv'
  <2> USE <1>yield
  <2> DEFINE p == cproc[c]
  <2>1. p \in Procs /\ state[p] = "RUNNING" /\ TypeOK
    BY OnProcFacts, PcClasses, Zenon DEF yield, InUser, BaseInv
  <2>2. /\ state' = [state EXCEPT ![p] = "RUNNABLE"]
        /\ UNCHANGED <<parent, chan, killed, kpc>>
    BY Zenon DEF yield
  <2>3. /\ kpc'[initproc] # "exit" /\ state'[p] \in Schedulable /\ state'[p] # "SLEEPING"
        /\ \A r \in Procs \ {p} : state'[r] = state[r]
    BY <2>1, <2>2, Zenon DEF TypeOK, FamilyInv, Schedulable
  <2> QED BY <2>1, <2>2, <2>3, <1>FamilyOwn, Zenon
<1>sleep.
  ASSUME NEW c \in CPUS, NEW ch \in Chans, sleep(c, ch)
  PROVE  FamilyInv'
  <2> USE <1>sleep
  <2> DEFINE p == cproc[c]
  <2>1. p \in Procs /\ state[p] = "RUNNING" /\ TypeOK
    BY OnProcFacts, PcClasses, Zenon DEF sleep, InUser, BaseInv
  <2>2. /\ kpc[p] \in {"user", "kernel", "exit"}
        /\ state' = [state EXCEPT ![p] = "SLEEPING"]
        /\ chan' = [chan EXCEPT ![p] = ch]
        /\ kpc' = [kpc EXCEPT ![p] = IF @ = "user" THEN "kernel" ELSE @]
        /\ UNCHANGED <<parent, killed>>
    BY Zenon DEF sleep, InUser
  <2>3. /\ kpc'[initproc] # "exit" /\ state'[p] \in Schedulable /\ kpc'[p] # "wait"
        /\ \A r \in Procs \ {p} : state'[r] = state[r] /\ kpc'[r] = kpc[r] /\ chan'[r] = chan[r]
    BY <2>1, <2>2, InitProc, Zenon DEF TypeOK, FamilyInv, Schedulable
  <2> QED BY <2>1, <2>2, <2>3, <1>FamilyOwn, Zenon
<1>SyscallReturn.
  ASSUME NEW c \in CPUS, SyscallReturn(c)
  PROVE  FamilyInv'
  <2> USE <1>SyscallReturn
  <2> DEFINE p == cproc[c]
  <2>1. p \in Procs /\ state[p] = "RUNNING" /\ TypeOK
    BY OnProcFacts, PcClasses, Zenon DEF SyscallReturn, BaseInv
  <2>2. kpc' = [kpc EXCEPT ![p] = "user"] /\ UNCHANGED <<state, parent, chan, killed>>
    BY Zenon DEF SyscallReturn
  <2>3. /\ kpc'[initproc] # "exit" /\ state'[p] \in Schedulable /\ state'[p] # "SLEEPING"
        /\ \A r \in Procs \ {p} : kpc'[r] = kpc[r]
    BY <2>1, <2>2, InitProc, Zenon DEF TypeOK, FamilyInv, Schedulable
  <2> QED BY <2>1, <2>2, <2>3, <1>FamilyOwn, Zenon
\* kill() sets the flag and wakes the process in one critical section.
<1>kill.
  ASSUME NEW c \in CPUS, NEW t \in Procs, kill(c, t)
  PROVE  FamilyInv'
  <2> USE <1>kill
  <2>1. /\ killed' = [killed EXCEPT ![t] = TRUE]
        /\ state' = [state EXCEPT ![t] = IF @ = "SLEEPING" THEN "RUNNABLE" ELSE @]
        /\ UNCHANGED <<parent, chan, kpc>> /\ TypeOK
    BY Zenon DEF kill, BaseInv
  <2>2. /\ \A r \in Procs \ {t} : state'[r] = state[r] /\ killed'[r] = killed[r]
        /\ state'[t] # "SLEEPING"
        /\ state'[t] = state[t] \/ (state[t] = "SLEEPING" /\ state'[t] = "RUNNABLE")
    BY <2>1, Zenon DEF TypeOK
  <2>3. kpc'[initproc] # "exit"
    BY <2>1, Zenon DEF FamilyInv
  <2>4. \A r \in Procs : state'[r] \in Schedulable <=> state[r] \in Schedulable
    BY <2>2, Zenon DEF Schedulable
  <2>5. /\ \A r \in Procs : state'[r] = "ZOMBIE" <=> state[r] = "ZOMBIE"
        /\ \A r \in Procs : state'[r] = "SLEEPING" /\ kpc'[r] = "wait" =>
             /\ state[r] = "SLEEPING" /\ kpc[r] = "wait"
             /\ chan'[r] = chan[r] /\ (killed'[r] => killed[r])
    BY <2>1, <2>2, Zenon
  <2> QED BY <2>1, <2>3, <2>4, <2>5, <1>FamilyFrame, Zenon
<1>StartExit.
  ASSUME NEW c \in CPUS, StartExit(c)
  PROVE  FamilyInv'
  <2> USE <1>StartExit
  <2> DEFINE p == cproc[c]
  <2>1. p \in Procs /\ state[p] = "RUNNING" /\ TypeOK
    BY OnProcFacts, PcClasses, Zenon DEF StartExit, BaseInv
  <2>2. CASE Panic(c, "init exiting")
    BY <2>2, <1>FamilyPanic, Zenon
  <2>3. CASE /\ p # initproc /\ kpc' = [kpc EXCEPT ![p] = "exit"]
             /\ UNCHANGED <<state, parent, chan, killed>>
    <3>1. /\ kpc'[initproc] # "exit" /\ state'[p] \in Schedulable /\ state'[p] # "SLEEPING"
          /\ \A r \in Procs \ {p} : kpc'[r] = kpc[r]
      BY <2>1, <2>3, InitProc, Zenon DEF TypeOK, FamilyInv, Schedulable
    <3> QED BY <2>1, <2>3, <3>1, <1>FamilyOwn, Zenon
  <2> QED BY <2>2, <2>3, Zenon DEF StartExit
\* An EMBRYO is nobody's child yet.
<1>allocproc.
  ASSUME NEW c \in CPUS, allocproc(c)
  PROVE  FamilyInv'
  <2> USE <1>allocproc
  <2> DEFINE p == cproc[c]
  <2>1. p \in Procs /\ state[p] = "RUNNING" /\ TypeOK
    BY OnProcFacts, PcClasses, Zenon DEF allocproc, InUser, BaseInv
  <2>2. PICK np \in Procs : state[np] = "UNUSED" /\ state' = [state EXCEPT ![np] = "EMBRYO"]
    BY Zenon DEF allocproc
  <2>3. kpc' = [kpc EXCEPT ![p] = "fork"] /\ UNCHANGED <<parent, chan, killed>>
    BY Zenon DEF allocproc
  <2>4. /\ state'[np] = "EMBRYO" /\ \A r \in Procs \ {np} : state'[r] = state[r]
        /\ kpc'[p] = "fork" /\ \A r \in Procs \ {p} : kpc'[r] = kpc[r]
    BY <2>1, <2>2, <2>3, Zenon DEF TypeOK
  <2>5. kpc'[initproc] # "exit"
    BY <2>4, InitProc, Zenon DEF FamilyInv
  <2>6. \A r \in Procs : state'[r] \in Schedulable <=> state[r] \in Schedulable
    BY <2>2, <2>4, Zenon DEF Schedulable
  <2>7. /\ \A r \in Procs : state'[r] = "ZOMBIE" <=> state[r] = "ZOMBIE"
        /\ \A r \in Procs : state'[r] = "SLEEPING" /\ kpc'[r] = "wait" =>
             /\ state[r] = "SLEEPING" /\ kpc[r] = "wait"
             /\ chan'[r] = chan[r] /\ (killed'[r] => killed[r])
    BY <2>2, <2>3, <2>4, Zenon
  <2> QED BY <2>1, <2>3, <2>5, <2>6, <2>7, <1>FamilyFrame, Zenon
<1>ForkFail.
  ASSUME NEW c \in CPUS, ForkFail(c)
  PROVE  FamilyInv'
  <2> USE <1>ForkFail
  <2> DEFINE p == cproc[c]
             np == child[p]
  <2>1. p \in Procs /\ state[p] = "RUNNING" /\ TypeOK /\ kpc[p] = "fork"
    BY OnProcFacts, PcClasses, Zenon DEF ForkFail, BaseInv
  <2>2. np \in Procs /\ state[np] = "EMBRYO"
    BY <2>1, ForkFacts, Zenon
  <2>3. /\ state' = [state EXCEPT ![np] = "UNUSED"] /\ kpc' = [kpc EXCEPT ![p] = "user"]
        /\ UNCHANGED <<parent, chan, killed>>
    BY Zenon DEF ForkFail
  <2> HIDE DEF p, np
  <2>4. /\ state'[np] = "UNUSED" /\ \A r \in Procs \ {np} : state'[r] = state[r]
        /\ kpc'[p] = "user" /\ \A r \in Procs \ {p} : kpc'[r] = kpc[r]
    BY <2>1, <2>2, <2>3, Zenon DEF TypeOK
  <2>5. kpc'[initproc] # "exit"
    BY <2>4, InitProc, Zenon DEF FamilyInv
  <2>6. \A r \in Procs : state'[r] \in Schedulable <=> state[r] \in Schedulable
    BY <2>2, <2>4, Zenon DEF Schedulable
  <2>7. /\ \A r \in Procs : state'[r] = "ZOMBIE" <=> state[r] = "ZOMBIE"
        /\ \A r \in Procs : state'[r] = "SLEEPING" /\ kpc'[r] = "wait" =>
             /\ state[r] = "SLEEPING" /\ kpc[r] = "wait"
             /\ chan'[r] = chan[r] /\ (killed'[r] => killed[r])
    BY <2>2, <2>3, <2>4, Zenon
  <2> QED BY <2>1, <2>3, <2>5, <2>6, <2>7, <1>FamilyFrame, Zenon
\* The parent of a new process is the process that runs fork().
<1>priofork.
  ASSUME NEW c \in CPUS, NEW level \in Levels, priofork(c, level)
  PROVE  FamilyInv'
  <2> USE <1>priofork
  <2> DEFINE p == cproc[c]
             np == child[p]
  <2>1. p \in Procs /\ state[p] = "RUNNING" /\ TypeOK /\ kpc[p] = "fork"
    BY OnProcFacts, PcClasses, Zenon DEF priofork, BaseInv
  <2>2. np \in Procs /\ state[np] = "EMBRYO" /\ np # p
    BY <2>1, ForkFacts, Zenon
  <2>3. CASE Panic(c, "No free level")
    BY <2>3, <1>FamilyPanic, Zenon
  <2>4. CASE /\ parent' = [parent EXCEPT ![np] = p]
             /\ state' = [state EXCEPT ![np] = "RUNNABLE"]
             /\ kpc' = [kpc EXCEPT ![p] = "user", ![np] = "user"]
             /\ UNCHANGED <<chan, killed>>
    <3> HIDE DEF p, np
    <3>1. /\ parent'[np] = p /\ \A r \in Procs \ {np} : parent'[r] = parent[r]
          /\ state'[np] = "RUNNABLE" /\ \A r \in Procs \ {np} : state'[r] = state[r]
          /\ kpc'[np] = "user" /\ kpc'[p] = "user"
          /\ \A r \in Procs \ {p, np} : kpc'[r] = kpc[r]
      BY <2>1, <2>2, <2>4, Zenon DEF TypeOK
    <3>2. np # initproc
      BY <2>2, Zenon DEF FamilyInv, Schedulable
    <3>3. ParentAlive'
      <4> SUFFICES ASSUME NEW r \in Procs \ {initproc}, state'[r] \in Schedulable \cup {"ZOMBIE"}
                   PROVE  parent'[r] # NULL /\ state'[parent'[r]] \in Schedulable
        BY Zenon DEF ParentAlive
      <4>1. CASE r = np
        BY <2>1, <2>2, <3>1, <4>1, NullDistinct, Zenon DEF Schedulable
      <4>2. CASE r # np
        <5>1. parent'[r] = parent[r] /\ state[r] \in Schedulable \cup {"ZOMBIE"}
          BY <3>1, <4>2, Zenon
        <5>2. parent[r] \in Procs /\ state[parent[r]] \in Schedulable
          BY <2>1, <5>1, <1>ParentFacts, Zenon
        <5>3. parent[r] # np
          BY <2>2, <5>2, Zenon DEF Schedulable
        <5> QED BY <3>1, <5>1, <5>2, <5>3, NullDistinct
      <4> QED BY <4>1, <4>2, Zenon
    <3>4. NoLostWait'
      BY <2>1, <2>4, <3>1 DEF FamilyInv, NoLostWait
    <3>5. state'[initproc] \in Schedulable /\ kpc'[initproc] # "exit" /\ parent'[initproc] = NULL
      BY <3>1, <3>2, InitProc, Zenon DEF FamilyInv
    <3>6. /\ \A r \in Procs : parent'[r] # r
          /\ \A r \in Procs : parent'[r] # NULL => state'[r] \in Schedulable \cup {"ZOMBIE"}
      BY <2>2, <3>1 DEF FamilyInv, Schedulable
    <3>7. \A r \in Procs : state'[r] = "SLEEPING" /\ kpc'[r] = "wait" => chan'[r] = r
      BY <2>4, <3>1 DEF FamilyInv
    <3> QED BY <3>3, <3>4, <3>5, <3>6, <3>7, Zenon DEF FamilyInv
  <2> QED BY <2>3, <2>4, Zenon DEF priofork
\* Who is still asleep in wait() after the wakeups of exit(): not the parent
\* of p, and not init when it inherits a ZOMBIE.
<1>ExitWakes.
  ASSUME TypeOK, NEW p \in Procs, NEW s \in Procs, s # p, exit_wakes(p)[s] = "SLEEPING",
         kpc[s] = "wait"
  PROVE  /\ state[s] = "SLEEPING" /\ parent[p] # s
         /\ s = initproc => \A r \in Children(p) : state[r] # "ZOMBIE"
  <2> USE <1>ExitWakes
  <2> DEFINE woken == wakeup1(state, parent[p])
  <2>1. state \in [Procs -> States]
    BY Zenon DEF TypeOK
  <2>2. woken \in [Procs -> States] /\ (woken[s] = "SLEEPING" => state[s] = "SLEEPING")
    BY <2>1, Wakeup1Facts
  <2>3. exit_wakes(p) = woken \/ exit_wakes(p) = wakeup1(woken, initproc)
    BY Zenon DEF exit_wakes
  <2>4. woken[s] = "SLEEPING"
    <3> HIDE DEF woken
    <3>1. wakeup1(woken, initproc)[s] = "SLEEPING" => woken[s] = "SLEEPING"
      BY <2>2, Wakeup1Facts
    <3> QED BY <2>3, <3>1, Zenon
  <2>5. state[s] = "SLEEPING" /\ chan[s] = s
    BY <2>2, <2>4, Zenon DEF FamilyInv
  <2>6. parent[p] # s
    BY <2>4, <2>5, Zenon DEF wakeup1
  <2>7. ASSUME s = initproc, NEW r \in Children(p), state[r] = "ZOMBIE" PROVE FALSE
    <3>1. exit_wakes(p) = wakeup1(woken, initproc)
      BY <2>7, Zenon DEF exit_wakes
    <3> HIDE DEF woken
    <3>2. wakeup1(woken, initproc)[s] = "RUNNABLE"
      BY <2>4, <2>5, <2>7, Zenon DEF wakeup1
    <3> QED BY <3>1, <3>2, Zenon
  <2> QED BY <2>5, <2>6, <2>7, Zenon
<1>exit.
  ASSUME NEW c \in CPUS, exit(c)
  PROVE  FamilyInv'
  <2> USE <1>exit
  <2> DEFINE p == cproc[c]
  <2>1. p \in Procs /\ state[p] = "RUNNING" /\ TypeOK /\ kpc[p] = "exit" /\ p # initproc
    BY OnProcFacts, PcClasses, Zenon DEF exit, BaseInv, FamilyInv
  <2>2. /\ parent' = reparent(p) /\ state' = [exit_wakes(p) EXCEPT ![p] = "ZOMBIE"]
        /\ UNCHANGED <<chan, killed, kpc>>
    BY Zenon DEF exit
  <2> HIDE DEF p
  <2>3. /\ exit_wakes(p) \in [Procs -> States]
        /\ \A r \in Procs : \/ exit_wakes(p)[r] = state[r]
                            \/ state[r] = "SLEEPING" /\ exit_wakes(p)[r] = "RUNNABLE"
    <3> DEFINE woken == wakeup1(state, parent[p])
    <3>1. state \in [Procs -> States]
      BY <2>1, Zenon DEF TypeOK
    <3>2. /\ woken \in [Procs -> States]
          /\ \A r \in Procs : \/ woken[r] = state[r]
                              \/ state[r] = "SLEEPING" /\ woken[r] = "RUNNABLE"
      BY <3>1, Wakeup1Facts, Zenon
    <3>3. exit_wakes(p) = woken \/ exit_wakes(p) = wakeup1(woken, initproc)
      BY Zenon DEF exit_wakes
    <3> HIDE DEF woken
    <3>4. /\ wakeup1(woken, initproc) \in [Procs -> States]
          /\ \A r \in Procs : \/ wakeup1(woken, initproc)[r] = woken[r]
                              \/ /\ woken[r] = "SLEEPING"
                                 /\ wakeup1(woken, initproc)[r] = "RUNNABLE"
      BY <3>2, Wakeup1Facts, Zenon
    <3> QED BY <3>2, <3>3, <3>4, Zenon
  <2>4. state'[p] = "ZOMBIE" /\ \A r \in Procs \ {p} : state'[r] = exit_wakes(p)[r]
    BY <2>1, <2>2, <2>3, Zenon
  <2>5. \A r \in Procs : parent'[r] = IF parent[r] = p THEN initproc ELSE parent[r]
    BY <2>2, Zenon DEF reparent, Children
  <2>6. \A r \in Procs \ {p} : /\ state'[r] \in Schedulable <=> state[r] \in Schedulable
                               /\ state'[r] = "ZOMBIE" <=> state[r] = "ZOMBIE"
    BY <2>3, <2>4, Zenon DEF Schedulable
  <2>7. ParentAlive'
    <3> SUFFICES ASSUME NEW r \in Procs \ {initproc}, state'[r] \in Schedulable \cup {"ZOMBIE"}
                 PROVE  parent'[r] # NULL /\ state'[parent'[r]] \in Schedulable
      BY Zenon DEF ParentAlive
    <3>1. state[r] \in Schedulable \cup {"ZOMBIE"}
      BY <2>1, <2>6, Zenon DEF Schedulable
    <3>2. parent[r] \in Procs /\ state[parent[r]] \in Schedulable
      BY <2>1, <3>1, <1>ParentFacts, Zenon
    <3>3. CASE parent[r] = p
      BY <2>1, <2>5, <2>6, <3>3, InitProc, NullDistinct, Zenon DEF FamilyInv
    <3>4. CASE parent[r] # p
      BY <2>5, <2>6, <3>2, <3>4, NullDistinct, Zenon
    <3> QED BY <3>3, <3>4, Zenon
  <2>8. NoLostWait'
    <3> SUFFICES ASSUME NEW s \in Procs, state'[s] = "SLEEPING", kpc'[s] = "wait"
                 PROVE  ~killed'[s] /\ \A r \in Procs : parent'[r] = s => state'[r] # "ZOMBIE"
      BY Zenon DEF NoLostWait
    <3>1. s # p /\ exit_wakes(p)[s] = "SLEEPING" /\ kpc[s] = "wait"
      BY <2>2, <2>4, Zenon
    <3>2. /\ state[s] = "SLEEPING" /\ parent[p] # s
          /\ s = initproc => \A r \in Children(p) : state[r] # "ZOMBIE"
      BY <2>1, <3>1, <1>ExitWakes, Zenon
    <3>3. ~killed'[s] /\ \A r \in Procs : parent[r] = s => state[r] # "ZOMBIE"
      BY <2>2, <3>1, <3>2, Zenon DEF FamilyInv, NoLostWait
    <3>4. ASSUME NEW r \in Procs, parent'[r] = s, state'[r] = "ZOMBIE" PROVE FALSE
      <4>1. CASE r = p
        <5>1. parent[p] # p
          BY <2>1, Zenon DEF FamilyInv
        <5> QED BY <2>5, <3>2, <3>4, <4>1, <5>1, Zenon
      <4>2. CASE r # p
        <5>1. state[r] = "ZOMBIE"
          BY <2>6, <3>4, <4>2, Zenon
        <5>2. r \in Children(p) => parent'[r] = initproc
          BY <2>5, Zenon DEF Children
        <5> QED BY <2>5, <3>2, <3>3, <3>4, <5>1, <5>2, Zenon DEF Children
      <4> QED BY <4>1, <4>2, Zenon
    <3> QED BY <3>3, <3>4, Zenon
  <2>9. state'[initproc] \in Schedulable /\ kpc'[initproc] # "exit" /\ parent'[initproc] = NULL
    BY <2>1, <2>2, <2>5, <2>6, InitProc, NullDistinct, Zenon DEF FamilyInv
  <2>10. /\ \A r \in Procs : parent'[r] # r
         /\ \A r \in Procs : parent'[r] # NULL => state'[r] \in Schedulable \cup {"ZOMBIE"}
    BY <2>1, <2>4, <2>5, <2>6, InitProc, NullDistinct DEF FamilyInv
  <2>11. \A r \in Procs : state'[r] = "SLEEPING" /\ kpc'[r] = "wait" => chan'[r] = r
    BY <2>2, <2>3, <2>4 DEF FamilyInv
  <2> QED BY <2>7, <2>8, <2>9, <2>10, <2>11, Zenon DEF FamilyInv
<1>wait.
  ASSUME NEW c \in CPUS, wait(c)
  PROVE  FamilyInv'
  <2> USE <1>wait
  <2> DEFINE p == cproc[c]
             zombies == {r \in Procs : parent[r] = p /\ state[r] = "ZOMBIE"}
  <2>1. p \in Procs /\ state[p] = "RUNNING" /\ TypeOK
    BY OnProcFacts, PcClasses, Zenon DEF wait, InUser, BaseInv
  <2>2. CASE /\ \E r \in zombies : /\ state' = [state EXCEPT ![r] = "UNUSED"]
                                   /\ parent' = [parent EXCEPT ![r] = NULL]
                                   /\ killed' = [killed EXCEPT ![r] = FALSE]
             /\ kpc' = [kpc EXCEPT ![p] = "user"] /\ UNCHANGED chan
    <3>1. PICK r \in zombies : /\ state' = [state EXCEPT ![r] = "UNUSED"]
                               /\ parent' = [parent EXCEPT ![r] = NULL]
                               /\ killed' = [killed EXCEPT ![r] = FALSE]
      BY <2>2, Zenon
    <3>2. r \in Procs /\ state[r] = "ZOMBIE"
      BY Zenon
    <3> HIDE DEF p, zombies
    <3>3. /\ state'[r] = "UNUSED" /\ \A s \in Procs \ {r} : state'[s] = state[s]
          /\ parent'[r] = NULL /\ \A s \in Procs \ {r} : parent'[s] = parent[s]
          /\ \A s \in Procs \ {r} : killed'[s] = killed[s]
          /\ kpc'[p] = "user" /\ \A s \in Procs \ {p} : kpc'[s] = kpc[s]
      BY <2>1, <2>2, <3>1, <3>2, ZenonT(30) DEF TypeOK
    <3>4. r # initproc
      BY <3>2, Zenon DEF FamilyInv, Schedulable
    <3>5. ParentAlive'
      <4> SUFFICES ASSUME NEW s \in Procs \ {initproc}, state'[s] \in Schedulable \cup {"ZOMBIE"}
                   PROVE  parent'[s] # NULL /\ state'[parent'[s]] \in Schedulable
        BY Zenon DEF ParentAlive
      <4>1. s # r
        BY <3>3, Zenon DEF Schedulable
      <4>2. state[s] \in Schedulable \cup {"ZOMBIE"}
        BY <3>3, <4>1, Zenon
      <4>3. parent[s] \in Procs /\ state[parent[s]] \in Schedulable
        BY <2>1, <4>2, <1>ParentFacts, Zenon
      <4>4. parent[s] # r
        BY <3>2, <4>3, Zenon DEF Schedulable
      <4> QED BY <3>3, <4>1, <4>3, <4>4, NullDistinct
    <3>6. NoLostWait'
      <4> SUFFICES ASSUME NEW s \in Procs, state'[s] = "SLEEPING", kpc'[s] = "wait"
                   PROVE  ~killed'[s] /\ \A x \in Procs : parent'[x] = s => state'[x] # "ZOMBIE"
        BY Zenon DEF NoLostWait
      <4>1. s # r /\ s # p /\ state[s] = "SLEEPING" /\ kpc[s] = "wait"
        BY <3>3, Zenon
      <4> QED BY <3>3, <4>1 DEF FamilyInv, NoLostWait
    <3>7. state'[initproc] \in Schedulable /\ kpc'[initproc] # "exit" /\ parent'[initproc] = NULL
      BY <3>3, <3>4, InitProc, Zenon DEF FamilyInv
    <3>8. /\ \A s \in Procs : parent'[s] # s
          /\ \A s \in Procs : parent'[s] # NULL => state'[s] \in Schedulable \cup {"ZOMBIE"}
      BY <3>3, NullDistinct DEF FamilyInv
    <3>9. \A s \in Procs : state'[s] = "SLEEPING" /\ kpc'[s] = "wait" => chan'[s] = s
      BY <2>2, <3>3 DEF FamilyInv
    <3> QED BY <3>5, <3>6, <3>7, <3>8, <3>9, Zenon DEF FamilyInv
  <2>3. CASE kpc' = [kpc EXCEPT ![p] = "user"] /\ UNCHANGED <<state, parent, killed, chan>>
    <3>1. /\ kpc'[initproc] # "exit" /\ state'[p] \in Schedulable /\ state'[p] # "SLEEPING"
          /\ \A r \in Procs \ {p} : kpc'[r] = kpc[r]
      BY <2>1, <2>3, InitProc, Zenon DEF TypeOK, FamilyInv, Schedulable
    <3> QED BY <2>1, <2>3, <3>1, <1>FamilyOwn, Zenon
  <2>4. CASE /\ zombies = {} /\ ~killed[p]
             /\ state' = [state EXCEPT ![p] = "SLEEPING"]
             /\ chan' = [chan EXCEPT ![p] = p]
             /\ kpc' = [kpc EXCEPT ![p] = "wait"]
             /\ UNCHANGED <<parent, killed>>
    <3>0. \A r \in Procs : parent[r] = p => state[r] # "ZOMBIE"
      BY <2>4, Zenon
    <3> HIDE DEF p, zombies
    <3>1. /\ state'[p] = "SLEEPING" /\ \A s \in Procs \ {p} : state'[s] = state[s]
          /\ chan'[p] = p /\ \A s \in Procs \ {p} : chan'[s] = chan[s]
          /\ kpc'[p] = "wait" /\ \A s \in Procs \ {p} : kpc'[s] = kpc[s]
      BY <2>1, <2>4, Zenon DEF TypeOK
    <3>2. /\ \A s \in Procs : state'[s] \in Schedulable <=> state[s] \in Schedulable
          /\ \A s \in Procs : state'[s] = "ZOMBIE" <=> state[s] = "ZOMBIE"
      BY <2>1, <3>1, Zenon DEF Schedulable
    <3>3. ParentAlive'
      BY <2>1, <2>4, <3>2 DEF FamilyInv, ParentAlive, TypeOK
    <3>4. NoLostWait'
      BY <2>4, <3>0, <3>1, <3>2 DEF FamilyInv, NoLostWait
    <3>5. state'[initproc] \in Schedulable /\ kpc'[initproc] # "exit" /\ parent'[initproc] = NULL
      BY <2>4, <3>1, <3>2, InitProc, Zenon DEF FamilyInv
    <3>6. /\ \A s \in Procs : parent'[s] # s
          /\ \A s \in Procs : parent'[s] # NULL => state'[s] \in Schedulable \cup {"ZOMBIE"}
      BY <2>4, <3>2, Zenon DEF FamilyInv
    <3>7. \A s \in Procs : state'[s] = "SLEEPING" /\ kpc'[s] = "wait" => chan'[s] = s
      BY <3>1, Zenon DEF FamilyInv
    <3> QED BY <3>3, <3>4, <3>5, <3>6, <3>7, Zenon DEF FamilyInv
  <2> QED BY <2>2, <2>3, <2>4, Zenon DEF wait, Children
<1>1. CASE UNCHANGED vars
  BY <1>1, <1>FamilySame, Zenon DEF vars
<1>2. ASSUME NEW c \in CPUS, ProcessStep(c) PROVE FamilyInv'
  <2>1. ASSUME NEW ch \in Chans, wakeup(c, ch) PROVE FamilyInv'
    <3>1. TypeOK /\ state \in [Procs -> States]
      BY Zenon DEF BaseInv, TypeOK
    <3>2. state' = wakeup1(state, ch) /\ UNCHANGED <<parent, chan, killed, kpc>>
      BY <2>1, Zenon DEF wakeup
    <3>3. \A r \in Procs : \/ state'[r] = state[r]
                           \/ state[r] = "SLEEPING" /\ state'[r] = "RUNNABLE"
      BY <3>1, <3>2, Wakeup1Facts
    <3> QED BY <3>1, <3>2, <3>3, <1>FamilyWake, Zenon
  <2> QED BY <1>2, <2>1, <1>yield, <1>allocproc, <1>ForkFail, <1>StartExit,
             <1>exit, <1>wait, <1>SyscallReturn, <1>priofork, <1>sleep,
             <1>kill, Zenon DEF ProcessStep
<1> QED BY <1>1, <1>2, <1>Scheduler, <1>Clock, Zenon DEF Next, Frozen

\* For any number of CPUs and processes, exit() and kill() lose no wakeup of a
\* parent in wait(), also when init inherits a ZOMBIE (proc.c).
THEOREM NoWakeupLost == Spec => []NoLostWait
<1>1. Init => BaseInv /\ FamilyInv
  BY BaseInit, FamilyInit, Zenon
<1>2. BaseInv /\ FamilyInv /\ [Next]_vars => (BaseInv /\ FamilyInv)'
  BY BaseNext, FamilyNext, Zenon
<1>3. FamilyInv => NoLostWait
  BY Zenon DEF FamilyInv
<1> QED BY <1>1, <1>2, <1>3, PTL DEF Spec

\* For any number of CPUs and processes, the parent of every process and of
\* every ZOMBIE is a live process that can still reap it.
THEOREM NobodyOrphaned == Spec => []ParentAlive
<1>1. Init => BaseInv /\ FamilyInv
  BY BaseInit, FamilyInit, Zenon
<1>2. BaseInv /\ FamilyInv /\ [Next]_vars => (BaseInv /\ FamilyInv)'
  BY BaseNext, FamilyNext, Zenon
<1>3. FamilyInv => ParentAlive
  BY Zenon DEF FamilyInv
<1> QED BY <1>1, <1>2, <1>3, PTL DEF Spec
=============================================================================
