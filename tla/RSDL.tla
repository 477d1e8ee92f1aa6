-------------------------------- MODULE RSDL --------------------------------
(***************************************************************************)
(* The process table and the Rotating Staircase DeadLine scheduler of      *)
(* proc.c, with the clock tick of trap.c that charges the quanta.          *)
(*                                                                         *)
(* Granularity.  Everything done between acquire(&ptable.lock) and         *)
(* release(&ptable.lock) is one step, except that                          *)
(*   - sched() hands the held lock to the CPU's scheduler loop, and each   *)
(*     iteration of that loop's while-loops is a step of its own, taken    *)
(*     with the lock still held;                                           *)
(*   - the clock tick decrements the two quanta WITHOUT the lock: a load   *)
(*     and a store, so on several CPUs an update can be lost.              *)
(* On one CPU nothing interleaves with these steps: interrupts are off.    *)
(***************************************************************************)
EXTENDS Integers, Sequences

CONSTANTS
  NPROC,           \* slots of ptable.proc, capacity of one level queue
  CPUS,            \* the CPUs that run scheduler()
  BootCpu,         \* cpuid() = 0, the one that counts ticks
  LEVELS,          \* RSDL_LEVELS
  STARTING_LEVEL,  \* RSDL_STARTING_LEVEL
  PROC_QUANTUM,    \* RSDL_PROC_QUANTUM
  LEVEL_QUANTUM,   \* RSDL_LEVEL_QUANTUM
  Chans,           \* sleep channels other than a process slot (wait's channel)
  TicksChan,       \* &ticks
  NULL

Procs == 0..(NPROC - 1)
Levels == 0..(LEVELS - 1)
Queues == {0, 1} \X Levels      \* ptable.level[s][k] is named <<s, k>>
initproc == 0                   \* userinit() takes the first slot

ASSUME ConstantsAssumption ==
  /\ NPROC \in Nat \ {0}
  /\ LEVELS \in Nat \ {0}
  /\ STARTING_LEVEL \in Levels
  /\ PROC_QUANTUM \in Nat \ {0}
  /\ LEVEL_QUANTUM \in Nat \ {0}
  /\ BootCpu \in CPUS
  /\ TicksChan \in Chans
  /\ Chans \cap Procs = {}
  /\ NULL \notin Procs \cup Chans \cup CPUS \cup Queues

VARIABLES
  state,         \* p->state
  ticksLeft,     \* p->ticks_left
  defaultLevel,  \* p->default_level
  parent,        \* p->parent
  chan,          \* p->chan
  killed,        \* p->killed
  kpc,           \* where p stands in its own code
  child,         \* np of a process inside priofork()
  queue,         \* level_queue.proc[0..numproc-1]
  levelTicks,    \* level_queue.ticks_left
  active,        \* ptable.active is level[active], ptable.expired the other
  lock,          \* holder of ptable.lock
  pc,            \* where each CPU stands
  cproc,         \* c->proc
  cqueue,        \* c->queue, also scheduler()'s q and (second part) its k
  reg,           \* the two quanta loaded by the decrements of trap()
  swapLevel      \* k of the set-swap loop

procVars == <<state, ticksLeft, defaultLevel, parent, chan, killed, kpc, child>>
levelVars == <<queue, levelTicks, active>>
cpuVars == <<lock, pc, cproc, cqueue, reg, swapLevel>>
vars == <<state, ticksLeft, defaultLevel, parent, chan, killed, kpc, child,
          queue, levelTicks, active, lock, pc, cproc, cqueue, reg, swapLevel>>

States == {"UNUSED", "EMBRYO", "SLEEPING", "RUNNABLE", "RUNNING", "ZOMBIE"}

(***************************************************************************)
(* user: user mode or a system call that cannot block   kernel: in a       *)
(* blocking system call   fork: between allocproc() and the end of         *)
(* priofork()   wait: in wait()   exit: in exit(), before ptable.lock      *)
(***************************************************************************)
Places == {"user", "kernel", "fork", "wait", "exit"}

(***************************************************************************)
(* sched: top of scheduler()'s loop   run: executing cproc                 *)
(* timer, charge: in the clock interrupt, before the loads, before the     *)
(* stores   yield: about to yield()   wait: in wait() holding the lock     *)
(* switch: back from swtch() with the lock   migrate, swap: in the two     *)
(* while-loops   then the panics                                           *)
(***************************************************************************)
OnProc == {"run", "timer", "charge", "yield", "wait"}
Holding == {"wait", "switch", "migrate", "swap"}
QueuePanics == {"unqueue of node not belonging to level", "No free level"}
Panics == QueuePanics \cup {"init exiting"}
Locations == OnProc \cup Holding \cup {"sched"} \cup Panics

-----------------------------------------------------------------------------
(* The level queues *)

Contains(s, p) == \E i \in 1..Len(s) : s[i] = p

FirstIndex(s, p, i) ==
  /\ i \in 1..Len(s)
  /\ s[i] = p
  /\ \A j \in 1..(i - 1) : s[j] # p

\* The entries behind i move up by one.
Without(s, i) == [j \in 1..(Len(s) - 1) |-> IF j < i THEN s[j] ELSE s[j + 1]]

unqueue_proc(Q, q, i) == [Q EXCEPT ![q] = Without(@, i)]

\* Mutant: the new entry goes in front of the level.
enqueue_front(Q, p, q) == [Q EXCEPT ![q] = <<p>> \o @]

\* The full-level panic cannot fire: find_available_queue just saw room.
enqueue_proc(Q, p, q) == [Q EXCEPT ![q] = Append(@, p)]

Available(Q, q) == levelTicks[q] > 0 /\ Len(Q[q]) < NPROC

\* Level k is the one next_level(start, set) returns.
next_level(Q, set, start, k) ==
  /\ k \in start..(LEVELS - 1)
  /\ Available(Q, <<set, k>>)
  /\ \A j \in start..(k - 1) : ~Available(Q, <<set, j>>)

no_level(Q, set, start) ==
  \A k \in start..(LEVELS - 1) : ~Available(Q, <<set, k>>)

is_expired_set(q) == q[1] # active

\* Mutant: the sets in the wrong order.
find_expired_first(Q, active_start, expired_start, q) ==
  IF is_expired_set(q)
  THEN next_level(Q, 1 - active, expired_start, q[2])
  ELSE /\ no_level(Q, 1 - active, expired_start)
       /\ next_level(Q, active, active_start, q[2])

\* q is the queue find_available_queue(active_start, expired_start) returns.
find_available_queue(Q, active_start, expired_start, q) ==
  IF is_expired_set(q)
  THEN /\ no_level(Q, active, active_start)
       /\ next_level(Q, 1 - active, expired_start, q[2])
  ELSE next_level(Q, active, active_start, q[2])

no_available_queue(Q, active_start, expired_start) ==
  /\ no_level(Q, active, active_start)
  /\ no_level(Q, 1 - active, expired_start)

-----------------------------------------------------------------------------
(* Small helpers *)

LockFree == lock = NULL

Goto(c, l) == pc' = [pc EXCEPT ![c] = l]

\* panic() spins for ever on this CPU, with whatever locks it holds.
Panic(c, why) ==
  /\ Goto(c, why)
  /\ UNCHANGED <<procVars, levelVars, cproc, cqueue, reg, swapLevel>>

\* wakeup1(ch) applied to a table of states.
wakeup1(st, ch) ==
  [p \in Procs |-> IF st[p] = "SLEEPING" /\ chan[p] = ch THEN "RUNNABLE" ELSE st[p]]

\* Mutant: a process that moves keeps what is left of its quantum.
Replenish_never(p, b) == UNCHANGED ticksLeft

\* p->ticks_left = RSDL_PROC_QUANTUM, when b.
Replenish(p, b) ==
  ticksLeft' = IF b THEN [ticksLeft EXCEPT ![p] = PROC_QUANTUM] ELSE ticksLeft

\* The process gives up its CPU: the lock goes to the scheduler with it.
Sched(c) == lock' = c /\ Goto(c, "switch")

\* A trap from user mode that finds the process not killed.
InUser(c) == pc[c] = "run" /\ kpc[cproc[c]] = "user" /\ ~killed[cproc[c]]

-----------------------------------------------------------------------------
(* scheduler() *)

\* Mutant: the state test lets a RUNNING process through.
Eligible_running(k, i) ==
  LET q == <<active, k>> IN
  /\ levelTicks[q] > 0
  /\ i \in 1..Len(queue[q])
  /\ state[queue[q][i]] \in {"RUNNABLE", "RUNNING"}
  /\ ticksLeft[queue[q][i]] > 0

\* Entry i of active level k may be chosen by the search of lines 615-631.
Eligible(k, i) ==
  LET q == <<active, k>> IN
  /\ levelTicks[q] > 0
  /\ i \in 1..Len(queue[q])
  /\ state[queue[q][i]] = "RUNNABLE"
  /\ ticksLeft[queue[q][i]] > 0

First(k, i) ==
  /\ Eligible(k, i)
  /\ \A j \in 1..(i - 1) : ~Eligible(k, j)
  /\ \A l \in 0..(k - 1) : \A j \in 1..Len(queue[<<active, l>>]) : ~Eligible(l, j)

NothingEligible ==
  \A k \in Levels : \A i \in 1..Len(queue[<<active, k>>]) : ~Eligible(k, i)

\* swtch() to process p, which stays in its queue.  It resumes where it
\* stopped and releases the lock, except in wait(), which keeps it.
Dispatch(c) ==
  /\ pc[c] = "sched" /\ LockFree
  /\ \E k \in Levels : \E i \in 1..Len(queue[<<active, k>>]) :
       /\ First(k, i)
       /\ LET p == queue[<<active, k>>][i] IN
            /\ cproc' = [cproc EXCEPT ![c] = p]
            /\ cqueue' = [cqueue EXCEPT ![c] = <<active, k>>]
            /\ state' = [state EXCEPT ![p] = "RUNNING"]
            /\ chan' = [chan EXCEPT ![p] = NULL]
            /\ Goto(c, IF kpc[p] = "wait" THEN "wait" ELSE "run")
            /\ lock' = IF kpc[p] = "wait" THEN c ELSE NULL
  /\ UNCHANGED <<ticksLeft, defaultLevel, parent, killed, kpc, child, levelVars,
                 reg, swapLevel>>

\* Nothing to run: the sets change roles and the loop over the old active
\* set begins at level 0, whose quantum it replenishes.
SwapSets(c) ==
  /\ pc[c] = "sched" /\ LockFree
  /\ NothingEligible
  /\ active' = 1 - active
  /\ levelTicks' = [levelTicks EXCEPT ![<<active, 0>>] = LEVEL_QUANTUM]
  /\ swapLevel' = 0
  /\ lock' = c
  /\ Goto(c, "swap")
  /\ UNCHANGED <<procVars, queue, cproc, cqueue, reg>>

\* One iteration of the while-loop of lines 727-738.
SwapMove(c) ==
  LET old == <<1 - active, swapLevel>>
      p == queue[old][1]
      Q == unqueue_proc(queue, old, 1)
      dl == defaultLevel[p]
  IN /\ pc[c] = "swap" /\ queue[old] # << >>
     /\ IF no_available_queue(Q, dl, dl)
        THEN Panic(c, "No free level")
        ELSE /\ \E nq \in Queues : /\ find_available_queue(Q, dl, dl, nq)
                                   /\ queue' = enqueue_proc(Q, p, nq)
             /\ Replenish(p, TRUE)
             /\ UNCHANGED <<state, defaultLevel, parent, chan, killed, kpc, child,
                            levelTicks, active, pc, cproc, cqueue, reg, swapLevel>>
     /\ UNCHANGED lock

\* Mutant: only level 0 gets a new quantum.
SwapNext_depleted(c) ==
  /\ pc[c] = "swap" /\ queue[<<1 - active, swapLevel>>] = << >>
  /\ IF swapLevel + 1 < LEVELS
     THEN swapLevel' = swapLevel + 1 /\ UNCHANGED <<lock, pc>>
     ELSE swapLevel' = 0 /\ lock' = NULL /\ Goto(c, "sched")
  /\ UNCHANGED <<procVars, levelVars, cproc, cqueue, reg>>

\* The old level is empty: the next one, or the end of the loop.
SwapNext(c) ==
  /\ pc[c] = "swap" /\ queue[<<1 - active, swapLevel>>] = << >>
  /\ IF swapLevel + 1 < LEVELS
     THEN /\ swapLevel' = swapLevel + 1
          /\ levelTicks' = [levelTicks EXCEPT ![<<1 - active, swapLevel + 1>>] = LEVEL_QUANTUM]
          /\ UNCHANGED <<lock, pc>>
     ELSE /\ swapLevel' = 0
          /\ lock' = NULL
          /\ Goto(c, "sched")
          /\ UNCHANGED levelTicks
  /\ UNCHANGED <<procVars, queue, active, cproc, cqueue, reg>>

\* c->proc = 0, c->queue = NULL, release(&ptable.lock)
Leave(c) ==
  /\ cproc' = [cproc EXCEPT ![c] = NULL]
  /\ cqueue' = [cqueue EXCEPT ![c] = NULL]
  /\ lock' = NULL
  /\ Goto(c, "sched")

\* Mutants: the spent process stays on its level; it goes back to the top.
next_start_same(p, k) == k
next_start_top(p, k) == IF ticksLeft[p] <= 0 THEN 0 ELSE k

\* nk: the level from which a place is sought for p, back from level k.
next_start(p, k) == IF ticksLeft[p] <= 0 THEN k + 1 ELSE k

\* Lines 680-710: the level has quantum left; the process goes to the end of
\* its level, or of a lower one when its own quantum is spent.
Requeue(c) ==
  LET p == cproc[c]
      q == cqueue[c]
      spent == ticksLeft[p] <= 0
      dl == defaultLevel[p]
  IN /\ pc[c] = "switch" /\ levelTicks[q] > 0
     /\ \/ /\ queue[q] = << >> \/ state[p] = "ZOMBIE"
           /\ Replenish(p, spent)
           /\ Leave(c)
           /\ UNCHANGED queue
        \/ /\ state[p] # "ZOMBIE"
           /\ \E i \in 1..Len(queue[q]) :
                /\ FirstIndex(queue[q], p, i)
                /\ \E nq \in Queues :
                     /\ find_available_queue(unqueue_proc(queue, q, i), next_start(p, q[2]), dl, nq)
                     /\ queue' = enqueue_proc(unqueue_proc(queue, q, i), p, nq)
                     /\ Replenish(p, spent \/ is_expired_set(nq))
           /\ Leave(c)
     /\ UNCHANGED <<state, defaultLevel, parent, chan, killed, kpc, child,
                    levelTicks, active, reg, swapLevel>>

\* The two panics that Requeue can meet.
RequeuePanic(c) ==
  LET p == cproc[c]
      q == cqueue[c]
      nk == next_start(p, q[2])
  IN /\ pc[c] = "switch" /\ levelTicks[q] > 0
     /\ queue[q] # << >> /\ state[p] # "ZOMBIE"
     /\ \/ /\ ~Contains(queue[q], p)
           /\ Panic(c, "unqueue of node not belonging to level")
        \/ \E i \in 1..Len(queue[q]) :
             /\ FirstIndex(queue[q], p, i)
             /\ no_available_queue(unqueue_proc(queue, q, i), nk, defaultLevel[p])
             /\ Panic(c, "No free level")
     /\ UNCHANGED lock

\* Line 655: the level-local quantum is depleted, all its processes migrate.
Deplete(c) ==
  /\ pc[c] = "switch" /\ levelTicks[cqueue[c]] <= 0
  /\ Goto(c, "migrate")
  /\ UNCHANGED <<procVars, levelVars, lock, cproc, cqueue, reg, swapLevel>>

\* One iteration of the while-loop of lines 657-672.
MigrateMove(c) ==
  LET q == cqueue[c]
      np == queue[q][1]
      Q == unqueue_proc(queue, q, 1)
  IN /\ pc[c] = "migrate" /\ queue[q] # << >>
     /\ IF np # cproc[c] /\ no_available_queue(Q, q[2] + 1, defaultLevel[np])
        THEN Panic(c, "No free level")
        ELSE /\ Replenish(np, TRUE)
             /\ \/ /\ np = cproc[c]
                   /\ queue' = Q
                \/ /\ np # cproc[c]
                   /\ \E nq \in Queues :
                        /\ find_available_queue(Q, q[2] + 1, defaultLevel[np], nq)
                        /\ queue' = enqueue_proc(Q, np, nq)
             /\ UNCHANGED <<state, defaultLevel, parent, chan, killed, kpc, child,
                            levelTicks, active, pc, cproc, cqueue, reg, swapLevel>>
     /\ UNCHANGED lock

\* The level is empty: the process that was running is enqueued last.
MigrateLast(c) ==
  LET q == cqueue[c]
      p == cproc[c]
  IN /\ pc[c] = "migrate" /\ queue[q] = << >>
     /\ \/ /\ state[p] = "ZOMBIE"
           /\ UNCHANGED queue
           /\ Leave(c)
           /\ UNCHANGED <<procVars, levelTicks, active, reg, swapLevel>>
        \/ /\ state[p] # "ZOMBIE"
           /\ \E nq \in Queues :
                /\ find_available_queue(queue, q[2] + 1, defaultLevel[p], nq)
                /\ queue' = enqueue_proc(queue, p, nq)
           /\ Leave(c)
           /\ UNCHANGED <<procVars, levelTicks, active, reg, swapLevel>>
        \/ /\ state[p] # "ZOMBIE"
           /\ no_available_queue(queue, q[2] + 1, defaultLevel[p])
           /\ Panic(c, "No free level")
           /\ UNCHANGED lock

-----------------------------------------------------------------------------
(* The clock interrupt, trap() lines 50-58 and 100-121 *)

\* CPU 0 counts the tick and wakes the sleepers on &ticks.
TimerInterrupt(c) ==
  /\ pc[c] = "run"
  /\ IF c = BootCpu THEN LockFree /\ state' = wakeup1(state, TicksChan)
                    ELSE UNCHANGED state
  /\ Goto(c, "timer")
  /\ UNCHANGED <<ticksLeft, defaultLevel, parent, chan, killed, kpc, child,
                 levelVars, lock, cproc, cqueue, reg, swapLevel>>

\* The same interrupt between two rounds of scheduler(): nothing to charge.
TimerIdle(c) ==
  /\ pc[c] = "sched" /\ c = BootCpu /\ LockFree
  /\ state' = wakeup1(state, TicksChan)
  /\ UNCHANGED <<ticksLeft, defaultLevel, parent, chan, killed, kpc, child,
                 levelVars, cpuVars>>

\* A killed process interrupted in user mode exits instead of being charged.
TimerKilled(c) ==
  LET p == cproc[c] IN
  /\ pc[c] = "timer" /\ kpc[p] = "user" /\ killed[p]
  /\ IF p = initproc
     THEN Panic(c, "init exiting")
     ELSE /\ kpc' = [kpc EXCEPT ![p] = "exit"]
          /\ Goto(c, "run")
          /\ UNCHANGED <<state, ticksLeft, defaultLevel, parent, chan, killed, child,
                         levelVars, cproc, cqueue, reg, swapLevel>>
  /\ UNCHANGED lock

\* The loads of --myproc()->ticks_left and --mycpu()->queue->ticks_left.  A
\* killed process too, when it was interrupted inside a short system call.
ChargeLoad(c) ==
  /\ pc[c] = "timer"
  /\ reg' = [reg EXCEPT ![c] = <<ticksLeft[cproc[c]], levelTicks[cqueue[c]]>>]
  /\ Goto(c, "charge")
  /\ UNCHANGED <<procVars, levelVars, lock, cproc, cqueue, swapLevel>>

Depleted(proc_ticks, level_ticks) == proc_ticks <= 0 \/ level_ticks <= 0

\* Their stores, and the test of both results.
ChargeStore(c) ==
  LET proc_ticks == reg[c][1] - 1
      level_ticks == reg[c][2] - 1
  IN /\ pc[c] = "charge"
     /\ ticksLeft' = [ticksLeft EXCEPT ![cproc[c]] = proc_ticks]
     /\ levelTicks' = [levelTicks EXCEPT ![cqueue[c]] = level_ticks]
     /\ reg' = [reg EXCEPT ![c] = <<0, 0>>]
     /\ Goto(c, IF Depleted(proc_ticks, level_ticks) THEN "yield" ELSE "run")
     /\ UNCHANGED <<state, defaultLevel, parent, chan, killed, kpc, child, queue,
                    active, lock, cproc, cqueue, swapLevel>>

-----------------------------------------------------------------------------
(* What a running process does *)

\* yield(), from the clock interrupt or from sys_yield.
yield(c) ==
  /\ pc[c] = "yield" \/ InUser(c)
  /\ LockFree
  /\ state' = [state EXCEPT ![cproc[c]] = "RUNNABLE"]
  /\ Sched(c)
  /\ UNCHANGED <<ticksLeft, defaultLevel, parent, chan, killed, kpc, child,
                 levelVars, cproc, cqueue, reg, swapLevel>>

\* allocproc() inside priofork(): the first UNUSED slot becomes EMBRYO.
allocproc(c) ==
  /\ InUser(c) /\ LockFree
  /\ \E np \in Procs :
       /\ state[np] = "UNUSED" /\ \A r \in 0..(np - 1) : state[r] # "UNUSED"
       /\ state' = [state EXCEPT ![np] = "EMBRYO"]
       /\ ticksLeft' = [ticksLeft EXCEPT ![np] = PROC_QUANTUM]
       /\ defaultLevel' = [defaultLevel EXCEPT ![np] = STARTING_LEVEL]
       /\ child' = [child EXCEPT ![cproc[c]] = np]
  /\ kpc' = [kpc EXCEPT ![cproc[c]] = "fork"]
  /\ UNCHANGED <<parent, chan, killed, levelVars, cpuVars>>

\* kalloc() or copyuvm() failed: the slot is given back, without the lock.
ForkFail(c) ==
  LET p == cproc[c] IN
  /\ pc[c] = "run" /\ kpc[p] = "fork"
  /\ state' = [state EXCEPT ![child[p]] = "UNUSED"]
  /\ child' = [child EXCEPT ![p] = NULL]
  /\ kpc' = [kpc EXCEPT ![p] = "user"]
  /\ UNCHANGED <<ticksLeft, defaultLevel, parent, chan, killed, levelVars, cpuVars>>

\* The end of priofork(level); the child starts in forkret().
priofork(c, level) ==
  LET p == cproc[c]
      np == child[p]
  IN /\ pc[c] = "run" /\ kpc[p] = "fork" /\ LockFree
     /\ IF no_available_queue(queue, level, level)
        THEN Panic(c, "No free level") /\ lock' = c
        ELSE /\ \E q \in Queues : /\ find_available_queue(queue, level, level, q)
                                  /\ queue' = enqueue_proc(queue, np, q)
             /\ parent' = [parent EXCEPT ![np] = p]
             /\ defaultLevel' = [defaultLevel EXCEPT ![np] = level]
             /\ state' = [state EXCEPT ![np] = "RUNNABLE"]
             /\ child' = [child EXCEPT ![p] = NULL]
             /\ kpc' = [kpc EXCEPT ![p] = "user", ![np] = "user"]
             /\ UNCHANGED <<ticksLeft, chan, killed, levelTicks, active, cpuVars>>

\* exit(), or a trap that finds the process killed: it closes its files and
\* its directory, which may sleep, before it takes ptable.lock.
StartExit(c) ==
  LET p == cproc[c] IN
  /\ pc[c] = "run" /\ kpc[p] = "user"
  /\ IF p = initproc
     THEN Panic(c, "init exiting")
     ELSE /\ kpc' = [kpc EXCEPT ![p] = "exit"]
          /\ UNCHANGED <<state, ticksLeft, defaultLevel, parent, chan, killed, child,
                         levelVars, pc, cproc, cqueue, reg, swapLevel>>
  /\ UNCHANGED lock

Before(q, r) == q[1] < r[1] \/ (q[1] = r[1] /\ q[2] < r[2])

\* Mutant: the process that exits stays in its level.
remove_nothing(p) == UNCHANGED queue

\* Removes the first occurrence of p in the order level[0][..], level[1][..].
remove_proc_from_levels(p) ==
  \/ /\ \A q \in Queues : ~Contains(queue[q], p)
     /\ UNCHANGED queue
  \/ \E q \in Queues : \E i \in 1..Len(queue[q]) :
       /\ FirstIndex(queue[q], p, i)
       /\ \A r \in Queues : Before(r, q) => ~Contains(queue[r], p)
       /\ queue' = unqueue_proc(queue, q, i)

Children(p) == {r \in Procs : parent[r] = p}

\* Mutant: the children keep their dead parent.
reparent_none(p) == parent

\* exit() passes the children of p to init.
reparent(p) == [r \in Procs |-> IF r \in Children(p) THEN initproc ELSE parent[r]]

\* Whom exit() wakes: the parent, and init when it inherits a ZOMBIE.
exit_wakes(p) ==
  LET woken == wakeup1(state, parent[p]) IN
  IF \E r \in Children(p) : state[r] = "ZOMBIE" THEN wakeup1(woken, initproc) ELSE woken

\* The rest of exit(): wake the parent, give the children to init, leave the
\* queue, become a ZOMBIE.
exit(c) ==
  LET p == cproc[c] IN
  /\ pc[c] = "run" /\ kpc[p] = "exit" /\ LockFree
  /\ parent' = reparent(p)
  /\ state' = [exit_wakes(p) EXCEPT ![p] = "ZOMBIE"]
  /\ remove_proc_from_levels(p)
  /\ Sched(c)
  /\ UNCHANGED <<ticksLeft, defaultLevel, chan, killed, kpc, child, levelTicks,
                 active, cproc, cqueue, reg, swapLevel>>

\* wait(): one scan of the table, on the call or after each sleep.
wait(c) ==
  LET p == cproc[c]
      kids == Children(p)
      zombies == {r \in kids : state[r] = "ZOMBIE"}
  IN /\ (InUser(c) /\ LockFree) \/ pc[c] = "wait"
     /\ \/ \E r \in zombies :
             /\ \A s \in zombies : r <= s
             /\ state' = [state EXCEPT ![r] = "UNUSED"]
             /\ parent' = [parent EXCEPT ![r] = NULL]
             /\ killed' = [killed EXCEPT ![r] = FALSE]
             /\ kpc' = [kpc EXCEPT ![p] = "user"]
             /\ Goto(c, "run") /\ lock' = NULL
             /\ UNCHANGED chan
        \/ /\ zombies = {} /\ (kids = {} \/ killed[p])
           /\ kpc' = [kpc EXCEPT ![p] = "user"]
           /\ Goto(c, "run") /\ lock' = NULL
           /\ UNCHANGED <<state, parent, killed, chan>>
        \/ /\ zombies = {} /\ kids # {} /\ ~killed[p]
           /\ state' = [state EXCEPT ![p] = "SLEEPING"]
           /\ chan' = [chan EXCEPT ![p] = p]
           /\ kpc' = [kpc EXCEPT ![p] = "wait"]
           /\ Sched(c)
           /\ UNCHANGED <<parent, killed>>
     /\ UNCHANGED <<ticksLeft, defaultLevel, child, levelVars, cproc, cqueue, reg,
                    swapLevel>>

\* sleep(ch, lk) of a blocking system call or of exit()'s file closing.
sleep(c, ch) ==
  LET p == cproc[c] IN
  /\ InUser(c) \/ (pc[c] = "run" /\ kpc[p] \in {"kernel", "exit"})
  /\ LockFree
  /\ state' = [state EXCEPT ![p] = "SLEEPING"]
  /\ chan' = [chan EXCEPT ![p] = ch]
  /\ kpc' = [kpc EXCEPT ![p] = IF @ = "user" THEN "kernel" ELSE @]
  /\ Sched(c)
  /\ UNCHANGED <<ticksLeft, defaultLevel, parent, killed, child, levelVars, cproc,
                 cqueue, reg, swapLevel>>

\* The blocking call returns; trap() checks killed again on the way out.
SyscallReturn(c) ==
  /\ pc[c] = "run" /\ kpc[cproc[c]] = "kernel"
  /\ kpc' = [kpc EXCEPT ![cproc[c]] = "user"]
  /\ UNCHANGED <<state, ticksLeft, defaultLevel, parent, chan, killed, child,
                 levelVars, cpuVars>>

\* wakeup(ch), by kernel code of the running process or a device interrupt.
wakeup(c, ch) ==
  /\ pc[c] \in {"run", "sched"} /\ LockFree
  /\ state' = wakeup1(state, ch)
  /\ UNCHANGED <<ticksLeft, defaultLevel, parent, chan, killed, kpc, child,
                 levelVars, cpuVars>>

\* Mutant: a killed process sleeps on.
kill_asleep(c, t) ==
  /\ InUser(c) /\ LockFree
  /\ killed' = [killed EXCEPT ![t] = TRUE]
  /\ UNCHANGED <<state, ticksLeft, defaultLevel, parent, chan, kpc, child, levelVars, cpuVars>>

\* kill(pid).  UNUSED slots match too: their pid is 0, or the number of a
\* fork that failed.
kill(c, t) ==
  /\ InUser(c) /\ LockFree
  /\ killed' = [killed EXCEPT ![t] = TRUE]
  /\ state' = [state EXCEPT ![t] = IF @ = "SLEEPING" THEN "RUNNABLE" ELSE @]
  /\ UNCHANGED <<ticksLeft, defaultLevel, parent, chan, kpc, child, levelVars, cpuVars>>

\* panic()'s for(;;)
Frozen(c) == pc[c] \in Panics /\ UNCHANGED vars

-----------------------------------------------------------------------------
(* After pinit() and userinit() *)

Init ==
  /\ state = [p \in Procs |-> IF p = initproc THEN "RUNNABLE" ELSE "UNUSED"]
  /\ ticksLeft = [p \in Procs |-> IF p = initproc THEN PROC_QUANTUM ELSE 0]
  /\ defaultLevel = [p \in Procs |-> IF p = initproc THEN STARTING_LEVEL ELSE 0]
  /\ parent = [p \in Procs |-> NULL]
  /\ chan = [p \in Procs |-> NULL]
  /\ killed = [p \in Procs |-> FALSE]
  /\ kpc = [p \in Procs |-> "user"]
  /\ child = [p \in Procs |-> NULL]
  /\ queue = [q \in Queues |-> IF q = <<0, STARTING_LEVEL>> THEN <<initproc>> ELSE << >>]
  /\ levelTicks = [q \in Queues |-> LEVEL_QUANTUM]
  /\ active = 0
  /\ lock = NULL
  /\ pc = [c \in CPUS |-> "sched"]
  /\ cproc = [c \in CPUS |-> NULL]
  /\ cqueue = [c \in CPUS |-> NULL]
  /\ reg = [c \in CPUS |-> <<0, 0>>]
  /\ swapLevel = 0

\* The steps of scheduler(); they leave wherever it holds the lock.
SchedulerStep(c) ==
  \/ Dispatch(c) \/ SwapSets(c) \/ SwapMove(c) \/ SwapNext(c)
  \/ Requeue(c) \/ RequeuePanic(c) \/ Deplete(c) \/ MigrateMove(c) \/ MigrateLast(c)

ClockStep(c) ==
  TimerInterrupt(c) \/ TimerIdle(c) \/ TimerKilled(c) \/ ChargeLoad(c) \/ ChargeStore(c)

ProcessStep(c) ==
  \/ yield(c) \/ allocproc(c) \/ ForkFail(c) \/ StartExit(c) \/ exit(c)
  \/ wait(c) \/ SyscallReturn(c)
  \/ \E level \in Levels : priofork(c, level)
  \/ \E ch \in Chans : sleep(c, ch) \/ wakeup(c, ch)
  \/ \E t \in Procs : kill(c, t)

Next == \E c \in CPUS : SchedulerStep(c) \/ ClockStep(c) \/ ProcessStep(c) \/ Frozen(c)

Spec == Init /\ [][Next]_vars

-----------------------------------------------------------------------------
(* Properties *)

TypeOK ==
  /\ state \in [Procs -> States]
  /\ ticksLeft \in [Procs -> Int]
  /\ defaultLevel \in [Procs -> Levels]
  /\ parent \in [Procs -> Procs \cup {NULL}]
  /\ chan \in [Procs -> Procs \cup Chans \cup {NULL}]
  /\ killed \in [Procs -> BOOLEAN]
  /\ kpc \in [Procs -> Places]
  /\ child \in [Procs -> Procs \cup {NULL}]
  /\ queue \in [Queues -> Seq(Procs)]
  /\ levelTicks \in [Queues -> Int]
  /\ active \in {0, 1}
  /\ lock \in CPUS \cup {NULL}
  /\ pc \in [CPUS -> Locations]
  /\ cproc \in [CPUS -> Procs \cup {NULL}]
  /\ cqueue \in [CPUS -> Queues \cup {NULL}]
  /\ reg \in [CPUS -> Int \X Int]
  /\ swapLevel \in Levels

Schedulable == {"SLEEPING", "RUNNABLE", "RUNNING"}
In(Q, p) == \E q \in Queues : Contains(Q[q], p)
Distinct(Q) ==
  \A q, r \in Queues : \A i \in 1..Len(Q[q]), j \in 1..Len(Q[r]) :
    Q[q][i] = Q[r][j] => q = r /\ i = j

\* Whenever ptable.lock is free, every process that can ever run again has
\* exactly one entry in exactly one level queue of either set, and the other
\* slots have none: the scheduler loses no process, duplicates none and keeps
\* no stale pointer, through fork, exit, migration and set swap (proc.c).
QueuedOnce ==
  LockFree =>
    /\ \A p \in Procs : state[p] \in Schedulable <=> In(queue, p)
    /\ Distinct(queue)

\* None of the panics of unqueue_proc and find_available_queue is reached.
NoQueuePanic == \A c \in CPUS : pc[c] \notin QueuePanics

\* proc.c:211 panic("unqueue of node not belonging to level"): scheduler()
\* finds the process that comes back from swtch() in the queue it took it from.
UnqueueFindsProc == \A c \in CPUS : pc[c] # "unqueue of node not belonging to level"

\* While a process runs, c->queue is the active level that holds it, the
\* queue trap() charges and scheduler() later removes it from (proc.h:23).
CpuQueueCurrent ==
  \A c \in CPUS : pc[c] \in OnProc =>
    cqueue[c][1] = active /\ Contains(queue[cqueue[c]], cproc[c])

\* A process is executed by at most one CPU, and no CPU executes a process
\* that another one could pick: it is RUNNING from swtch() until it gives up
\* the CPU (two CPUs on one kernel stack would be fatal).
OneCpuPerProcess ==
  /\ \A c, d \in CPUS : cproc[c] # NULL /\ cproc[c] = cproc[d] => c = d
  /\ \A c \in CPUS : pc[c] \in OnProc => cproc[c] # NULL /\ state[cproc[c]] = "RUNNING"
  /\ \A p \in Procs : state[p] = "RUNNING" =>
       \E c \in CPUS : cproc[c] = p /\ pc[c] \in OnProc \cup Panics

\* No lost wakeup between exit() and wait(), kill() and wait(): a parent
\* asleep in wait() has no ZOMBIE child and has not been killed.
NoLostWait ==
  \A p \in Procs : state[p] = "SLEEPING" /\ kpc[p] = "wait" =>
    ~killed[p] /\ \A r \in Procs : parent[r] = p => state[r] # "ZOMBIE"

\* The parent of every process but init is a process that can still reap it:
\* exit() leaves no child behind, also for a child made ZOMBIE earlier.
ParentAlive ==
  \A p \in Procs \ {initproc} : state[p] \in Schedulable \cup {"ZOMBIE"} =>
    parent[p] # NULL /\ state[parent[p]] \in Schedulable

\* Quanta never go negative, and a full quantum is never exceeded (trap.c
\* and proc.c test "<= 0").
QuantaInRange ==
  /\ \A p \in Procs : ticksLeft[p] \in 0..PROC_QUANTUM
  /\ \A q \in Queues : levelTicks[q] \in 0..LEVEL_QUANTUM

\* The sets are swapped only when no process of the active set is RUNNABLE:
\* no RUNNABLE process waits, unseen by the search, in a depleted level.
SwapOnlyWhenIdle ==
  [][active' # active =>
       \A k \in Levels : \A i \in 1..Len(queue[<<active, k>>]) :
         state[queue[<<active, k>>][i]] # "RUNNABLE"]_vars

FreshEpoch ==
  \A q \in Queues :
    /\ levelTicks[q] = LEVEL_QUANTUM
    /\ \A i \in 1..Len(queue[q]) : /\ q = <<active, defaultLevel[queue[q][i]]>>
                                   /\ ticksLeft[queue[q][i]] = PROC_QUANTUM

\* A set swap leaves every process in the active set, at its default level
\* and with a full quantum, and every level with a full quantum.
SwapStartsEpoch ==
  [][\A c \in CPUS : pc[c] = "swap" /\ pc'[c] = "sched" => FreshEpoch']_vars

\* Within an epoch a process only goes down the staircase.
\* (lines 670, 700: k+1 or k; never a lower index)  A step is compared with the next:
\* the process that ran is taken out by one and put back by another.
DownTheStairs ==
  [][active' = active =>
       \A k, l \in Levels : \A p \in Procs :
         Contains(queue[<<active, k>>], p) /\ Contains(queue'[<<active, l>>], p) => k <= l]_vars

-----------------------------------------------------------------------------
(***************************************************************************)
(* Fairness.  scheduler() never blocks.  A clock interrupt, once taken,    *)
(* runs to its end.  The clock is periodic, so a system in which processes *)
(* keep running is interrupted again and again while one of them runs.     *)
(* Nothing is assumed of the processes.                                    *)
(***************************************************************************)
Fairness ==
  \A c \in CPUS :
    /\ WF_vars(SchedulerStep(c))
    /\ WF_vars(pc[c] = "yield" /\ yield(c))
    /\ WF_vars(pc[c] = "wait" /\ wait(c))
    /\ WF_vars(TimerKilled(c) \/ ChargeLoad(c) \/ ChargeStore(c))
    /\ SF_vars(TimerInterrupt(c))

FairSpec == Spec /\ Fairness

Panicked == \E c \in CPUS : pc[c] \in Panics

\* Starvation freedom: every RUNNABLE process eventually runs.
EveryRunnableRuns ==
  \A p \in Procs : state[p] = "RUNNABLE" ~> (state[p] = "RUNNING" \/ Panicked)

\* The loops that hold ptable.lock end: the set swap does not chase processes
\* it enqueues back into the level it is emptying.
LockIsReleased == lock # NULL ~> (lock = NULL \/ Panicked)

-----------------------------------------------------------------------------
(***************************************************************************)
(* The inductive strengthening.  CpuInv and ForkInv hold for any number   *)
(* of CPUs, QueueInv and LevelInv on one CPU.                              *)
(***************************************************************************)

\* Who holds the lock, which process each CPU is concerned with.
CpuLocal(c) ==
  /\ pc[c] \in Holding => lock = c
  /\ pc[c] \in OnProc \cup {"switch", "migrate"} => cproc[c] \in Procs /\ cqueue[c] \in Queues
  /\ pc[c] \in OnProc => state[cproc[c]] = "RUNNING"
  /\ pc[c] \in {"switch", "migrate"} => state[cproc[c]] # "RUNNING"
  /\ pc[c] \in {"sched", "swap"} => cproc[c] = NULL
  /\ pc[c] \in Panics /\ cproc[c] # NULL => state[cproc[c]] = "RUNNING" \/ lock = c

CpuInv ==
  /\ lock # NULL => pc[lock] \in Holding \cup Panics
  /\ \A c \in CPUS : CpuLocal(c)
  /\ \A c, d \in CPUS : cproc[c] # NULL /\ cproc[c] = cproc[d] => c = d
  /\ \A p \in Procs : state[p] = "RUNNING" =>
       \E c \in CPUS : cproc[c] = p /\ pc[c] \in OnProc \cup Panics

\* The slot a process inside priofork() is filling is its own.
ForkInv ==
  /\ \A p \in Procs : kpc[p] = "fork" =>
       /\ state[p] \in {"RUNNABLE", "RUNNING"}
       /\ child[p] \in Procs
       /\ state[child[p]] = "EMBRYO"
  /\ \A p, r \in Procs : kpc[p] = "fork" /\ kpc[r] = "fork" /\ child[p] = child[r] => p = r

\* Who may be whose parent, and on what a process asleep in wait() sleeps.
FamilyInv ==
  /\ ParentAlive /\ NoLostWait
  /\ state[initproc] \in Schedulable /\ kpc[initproc] # "exit" /\ parent[initproc] = NULL
  /\ \A p \in Procs : parent[p] # p
  /\ \A p \in Procs : parent[p] # NULL => state[p] \in Schedulable \cup {"ZOMBIE"}
  /\ \A p \in Procs : state[p] = "SLEEPING" /\ kpc[p] = "wait" => chan[p] = p

\* Where the process that CPU c runs, or ran last, stands in the queues.
AtCpu(c) ==
  /\ pc[c] \in OnProc \cup {"switch", "migrate"} => cqueue[c][1] = active
  /\ pc[c] \in OnProc => Contains(queue[cqueue[c]], cproc[c])
  /\ pc[c] = "switch" /\ state[cproc[c]] # "ZOMBIE" => Contains(queue[cqueue[c]], cproc[c])
  /\ pc[c] = "migrate" =>
       /\ state[cproc[c]] \in Schedulable \cup {"ZOMBIE"}
       /\ \A q \in Queues : Contains(queue[q], cproc[c]) => q = cqueue[c]

\* Where the level queues' entries are, step by step through the loops.
QueueInv ==
  /\ Distinct(queue)
  /\ \A q \in Queues : \A p \in Procs : Contains(queue[q], p) => state[p] \in Schedulable
  /\ \A p \in Procs : state[p] \in Schedulable =>
       In(queue, p) \/ \E c \in CPUS : pc[c] = "migrate" /\ cproc[c] = p
  /\ \A c \in CPUS : AtCpu(c)

\* The expired set always has room: its levels keep their full quantum.
FreshLevels(c) ==
  \A k \in Levels :
    IF pc[c] = "swap"
    THEN /\ levelTicks[<<active, k>>] = LEVEL_QUANTUM
         /\ k <= swapLevel => levelTicks[<<1 - active, k>>] = LEVEL_QUANTUM
    ELSE levelTicks[<<1 - active, k>>] = LEVEL_QUANTUM

LevelInv == \A c \in CPUS : FreshLevels(c)

UniInv == TypeOK /\ CpuInv /\ ForkInv /\ QueueInv /\ LevelInv /\ NoQueuePanic

\* The strengthening of the epoch properties, with the only CPU c.  A quantum is
\* used up only by the process that gives up c, or on the level it comes from.
Charging == {"run", "timer", "charge", "wait"}
Ending == {"yield", "switch", "migrate"}

QuantaAtCpu(c) ==
  /\ pc[c] \in Charging => ticksLeft[cproc[c]] > 0 /\ levelTicks[cqueue[c]] > 0
  /\ pc[c] = "charge" => reg[c] = <<ticksLeft[cproc[c]], levelTicks[cqueue[c]]>>
  /\ pc[c] = "migrate" => levelTicks[cqueue[c]] = 0
  /\ pc[c] = "migrate" /\ state[cproc[c]] # "ZOMBIE" =>
       /\ defaultLevel[cproc[c]] <= cqueue[c][2]
       /\ In(queue, cproc[c]) \/ ticksLeft[cproc[c]] = PROC_QUANTUM
  /\ pc[c] = "swap" => \A k \in 0..(swapLevel - 1) : queue[<<1 - active, k>>] = << >>

\* The set that starts the next epoch, or has just started it.
FreshSet(c) == IF pc[c] = "swap" THEN active ELSE 1 - active

QuantaInLevel(c, q, p) ==
  /\ defaultLevel[p] <= q[2]
  /\ ticksLeft[p] > 0 \/ (cproc[c] = p /\ pc[c] \in Ending)
  /\ levelTicks[q] > 0 \/ (cqueue[c] = q /\ pc[c] \in Ending)
  /\ q[1] = FreshSet(c) => q[2] = defaultLevel[p] /\ ticksLeft[p] = PROC_QUANTUM

EpochInv ==
  /\ QuantaInRange
  /\ \A p \in Procs : state[p] = "EMBRYO" => ticksLeft[p] = PROC_QUANTUM
  /\ \A c \in CPUS :
       /\ QuantaAtCpu(c)
       /\ \A q \in Queues : \A p \in Procs : Contains(queue[q], p) => QuantaInLevel(c, q, p)
=============================================================================
