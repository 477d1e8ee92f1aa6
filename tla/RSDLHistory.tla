----------------------------- MODULE RSDLHistory -----------------------------
(***************************************************************************)
(* RSDL with two history variables, for properties that compare a state    *)
(* with an earlier one.  They record what happened and restrict nothing.   *)
(***************************************************************************)
EXTENDS RSDL

VARIABLES
  used,    \* ticks charged to each process since the last set swap
  before   \* the queues, and the process back from running, when
           \* ptable.lock was last free

hvars == <<vars, used, before>>

HInit ==
  /\ Init
  /\ used = [p \in Procs |-> 0]
  /\ before = queue

Charged(p) == \E c \in CPUS : pc[c] = "charge" /\ pc'[c] # "charge" /\ cproc[c] = p

Record ==
  /\ used' = [p \in Procs |->
                IF active' # active \/ state'[p] = "EMBRYO" THEN 0
                ELSE IF Charged(p) THEN used[p] + 1 ELSE used[p]]
  /\ before' = IF lock' = NULL THEN queue' ELSE before

HNext == Next /\ Record
HSpec == HInit /\ [][HNext]_hvars

-----------------------------------------------------------------------------
\* The bandwidth RSDL promises: between two set swaps a process is charged at
\* most one process quantum on each level from its default level down, however
\* often it yields, sleeps, is migrated or is woken; and no quantum goes below 0.
BoundedShare ==
  /\ QuantaInRange
  /\ \A p \in Procs : state[p] \in Schedulable =>
       used[p] <= PROC_QUANTUM * (LEVELS - defaultLevel[p])

InFront(s, a, b) == \E i, j \in 1..Len(s) : i < j /\ s[i] = a /\ s[j] = b

Ahead(Q, a, b) == \E q \in Queues : InFront(Q[q], a, b)

\* Levels are FIFO: a critical section of scheduler() or exit() never makes a
\* process overtake another one of its level, unless the latter is the one
\* that just ran.  Covers re-enqueueing, migration and set swap.
NoOvertaking ==
  [][lock # NULL /\ lock' = NULL =>
       \A a, b \in Procs : Ahead(before, a, b) /\ cproc[lock] # a => ~Ahead(queue', b, a)]_hvars

-----------------------------------------------------------------------------
(* The inductive strengthening, on one CPU *)

\* What p may have used up on level k of the active set, or above it.
Budget(p, k) == PROC_QUANTUM * (k - defaultLevel[p] + 1)

ShareInv ==
  /\ used \in [Procs -> Nat]
  /\ \A p \in Procs : state[p] = "EMBRYO" => used[p] = 0
  /\ \A q \in Queues : \A p \in Procs : Contains(queue[q], p) =>
       IF q[1] = active THEN used[p] + ticksLeft[p] <= Budget(p, q[2])
                        ELSE used[p] <= Budget(p, LEVELS - 1)
  /\ \A c \in CPUS :
       /\ pc[c] = "migrate" /\ state[cproc[c]] # "ZOMBIE" => used[cproc[c]] <= Budget(cproc[c], cqueue[c][2])
       /\ pc[c] = "swap" => \A p \in Procs : used[p] = 0

\* Levels that nobody has joined since c took ptable.lock.
Shrinking(c, q) ==
  \/ pc[c] \in {"wait", "switch"}
  \/ pc[c] = "migrate" /\ q = cqueue[c]
  \/ pc[c] = "swap" /\ q[1] # active

\* While c holds the lock nobody has overtaken anybody, levels are emptied from
\* the front, and a level that shrinks has only entries it had before.
Held(c) ==
  /\ \A a, b \in Procs : Ahead(before, a, b) /\ cproc[c] # a => ~Ahead(queue, b, a)
  /\ \A q \in Queues : \A a, b \in Procs \ {cproc[c]} :
       InFront(before[q], a, b) /\ Contains(queue[q], a) => Contains(queue[q], b)
  /\ \A q \in Queues : \A a \in Procs :
       Shrinking(c, q) /\ Contains(queue[q], a) => Contains(before[q], a)

OrderInv ==
  /\ before \in [Queues -> Seq(Procs)] /\ Distinct(before)
  /\ IF lock = NULL THEN before = queue ELSE Held(lock)
=============================================================================
