-------------------------------- MODULE Log --------------------------------
(***************************************************************************)
(* The redo log of log.c.  A step is a critical section of log.lock or one *)
(* disk write: bwrite() returns when the disk has the block, so a crash    *)
(* falls between two writes, never inside one (a block is one sector).     *)
(*                                                                         *)
(* The buffer cache is cache[b], the data of block b in memory.  A buffer  *)
(* that is neither B_DIRTY nor held may be recycled at any time; its block *)
(* is then read again from the disk.                                       *)
(***************************************************************************)
EXTENDS Integers, Sequences, FiniteSets

CONSTANTS
  Procs, Blocks, Values,
  MAXOPBLOCKS,   \* what begin_op() reserves for an operation
  LOGSIZE,       \* entries of lh.block
  SIZE,          \* log.size: the blocks of the log on disk, its header included
  OpBlocks,      \* blocks an operation really logs, at most MAXOPBLOCKS
  None           \* no buffer

ASSUME LogAssumption ==
  /\ IsFiniteSet(Procs)
  /\ MAXOPBLOCKS \in Nat \ {0} /\ LOGSIZE \in Nat /\ SIZE \in Nat
  /\ OpBlocks \in 0..MAXOPBLOCKS
  /\ None \notin Blocks

VARIABLES
  home,         \* disk: the blocks of the file system
  logdata,      \* disk: the data blocks of the log
  head,         \* disk: the header, a sequence of block numbers
  cache,        \* data of the buffers
  dirty,        \* blocks whose buffer is B_DIRTY
  lh,           \* log.lh
  outstanding,  \* log.outstanding
  committing,   \* log.committing
  phase,        \* where commit() or recover_from_log() stands
  tail,         \* the loops' tail: blocks already copied
  pc,           \* where each process stands
  buf,          \* the buffer a process holds inside log_write()
  wrote         \* blocks logged by the current operation of a process

vars == <<home, logdata, head, cache, dirty, lh, outstanding, committing, phase, tail,
          pc, buf, wrote>>
diskVars == <<home, logdata, head>>
logVars == <<lh, outstanding, committing, phase, tail>>
procVars == <<pc, buf, wrote>>

\* up: neither commit() nor recovery is running    boot: before read_head()
\* done: commit() has returned to end_op()         panic: until the next boot
Phases == {"up", "write", "head", "install", "done", "boot", "panic"}

\* begin: in begin_op()'s loop   asleep: in its sleep()   op: in an operation
\* logging: in log_write(), past its checks   commit: in end_op(), committing
Places == {"idle", "begin", "asleep", "op", "logging", "commit"}

Entries(s) == {s[i] : i \in 1..Len(s)}
Held == {buf[p] : p \in Procs}

\* forkret() calls initlog() before the first process runs.
Recovering == phase = "boot" \/ (phase = "install" /\ ~committing)

\* Mutant: nobody wakes up.
wakeup_none == pc

\* wakeup(&log)
wakeup_log == [p \in Procs |-> IF pc[p] = "asleep" THEN "begin" ELSE pc[p]]

-----------------------------------------------------------------------------
(* begin_op(), log_write(), end_op() *)

\* Mutant: the operations already open reserve nothing.
Room_one == Len(lh) + MAXOPBLOCKS <= LOGSIZE

Room == Len(lh) + (outstanding + 1) * MAXOPBLOCKS <= LOGSIZE
Admits == ~committing /\ Room

begin_op(p) ==
  /\ pc[p] \in {"idle", "begin"} /\ phase # "panic" /\ ~Recovering
  /\ IF Admits
     THEN /\ outstanding' = outstanding + 1
          /\ pc' = [pc EXCEPT ![p] = "op"]
     ELSE /\ pc' = [pc EXCEPT ![p] = "asleep"]
          /\ UNCHANGED outstanding
  /\ UNCHANGED <<diskVars, cache, dirty, lh, committing, phase, tail, buf, wrote>>

\* The caller has changed the data of its locked buffer b to v; the two tests
\* of log_write() come before it takes log.lock.
log_write(p, b, v) ==
  /\ pc[p] = "op" /\ phase # "panic" /\ b \notin Held
  /\ b \in wrote[p] \/ Cardinality(wrote[p]) < OpBlocks
  /\ cache' = [cache EXCEPT ![b] = v]
  /\ buf' = [buf EXCEPT ![p] = b]
  /\ IF Len(lh) >= LOGSIZE \/ Len(lh) >= SIZE - 1 \/ outstanding < 1
     THEN phase' = "panic" /\ UNCHANGED pc
     ELSE pc' = [pc EXCEPT ![p] = "logging"] /\ UNCHANGED phase
  /\ UNCHANGED <<diskVars, dirty, lh, outstanding, committing, tail, wrote>>

\* Mutants: no absorption; the buffer is not pinned.
Absorb_never(b) == lh' = Append(lh, b)
Pin_nothing(b) == UNCHANGED dirty

Absorb(b) == lh' = IF b \in Entries(lh) THEN lh ELSE Append(lh, b)
Pin(b) == dirty' = dirty \cup {b}

\* Its critical section, then brelse() by the caller.
log_write_locked(p) ==
  /\ pc[p] = "logging" /\ phase # "panic"
  /\ Absorb(buf[p])
  /\ Pin(buf[p])
  /\ pc' = [pc EXCEPT ![p] = "op"]
  /\ buf' = [buf EXCEPT ![p] = None]
  /\ wrote' = [wrote EXCEPT ![p] = @ \cup {buf[p]}]
  /\ UNCHANGED <<diskVars, cache, outstanding, committing, phase, tail>>

\* Mutant: nobody is woken when an operation ends beside others.
EndWakes_none == pc

EndWakes == wakeup_log

\* The last operation starts commit(), which does nothing when nothing was
\* logged; the others wake the sleepers.
last_op(p) ==
  /\ committing' = TRUE
  /\ pc' = [pc EXCEPT ![p] = "commit"]
  /\ phase' = IF lh = << >> THEN "done" ELSE "write"

other_op(p) ==
  /\ pc' = [EndWakes EXCEPT ![p] = "idle"]
  /\ UNCHANGED <<committing, phase>>

\* "log.committing" is a panic: no operation is open while one commits.
end_op(p) ==
  /\ pc[p] = "op" /\ phase # "panic"
  /\ outstanding' = outstanding - 1
  /\ IF committing
     THEN phase' = "panic" /\ UNCHANGED <<committing, pc>>
     ELSE IF outstanding = 1 THEN last_op(p) ELSE other_op(p)
  /\ wrote' = [wrote EXCEPT ![p] = {}]
  /\ UNCHANGED <<diskVars, cache, dirty, lh, tail, buf>>

-----------------------------------------------------------------------------
(* commit() and recover_from_log() *)

\* One iteration of write_log(), and what follows the last one.
write_log_next == IF tail + 1 < Len(lh) THEN "write" ELSE "head"

write_log ==
  /\ phase = "write"
  /\ logdata' = [logdata EXCEPT ![tail + 1] = cache[lh[tail + 1]]]
  /\ phase' = write_log_next
  /\ tail' = IF phase' = "write" THEN tail + 1 ELSE 0
  /\ UNCHANGED <<home, head, cache, dirty, lh, outstanding, committing, procVars>>

\* The first write_head() of commit(): the commit point.
write_head ==
  /\ phase = "head"
  /\ head' = lh
  /\ phase' = "install"
  /\ UNCHANGED <<home, logdata, cache, dirty, lh, outstanding, committing, tail, procVars>>

\* One iteration of install_trans(); bwrite() leaves the buffer clean.
install_trans ==
  /\ phase = "install" /\ tail < Len(lh)
  /\ home' = [home EXCEPT ![lh[tail + 1]] = logdata[tail + 1]]
  /\ cache' = [cache EXCEPT ![lh[tail + 1]] = logdata[tail + 1]]
  /\ dirty' = dirty \ {lh[tail + 1]}
  /\ tail' = tail + 1
  /\ UNCHANGED <<logdata, head, lh, outstanding, committing, phase, procVars>>

\* Mutant: the log is erased before its last block is installed.
Installed_early == tail >= Len(lh) - 1

Installed == tail = Len(lh)

\* log.lh.n = 0, then the second write_head(), of commit() or of recovery.
clear_head ==
  /\ phase = "install" /\ Installed
  /\ lh' = << >> /\ head' = << >>
  /\ phase' = IF committing THEN "done" ELSE "up"
  /\ tail' = 0
  /\ UNCHANGED <<home, logdata, cache, dirty, outstanding, committing, procVars>>

\* The end of end_op(), after commit().
end_commit(p) ==
  /\ pc[p] = "commit" /\ phase = "done"
  /\ committing' = FALSE
  /\ phase' = "up"
  /\ pc' = [wakeup_log EXCEPT ![p] = "idle"]
  /\ UNCHANGED <<diskVars, cache, dirty, lh, outstanding, tail, buf, wrote>>

\* Power fails, or the machine is restarted after a panic: only the disk is
\* left, and every buffer will be read from it.
Crash ==
  /\ cache' = home /\ dirty' = {}
  /\ lh' = << >> /\ outstanding' = 0 /\ committing' = FALSE
  /\ phase' = "boot" /\ tail' = 0
  /\ pc' = [p \in Procs |-> "idle"]
  /\ buf' = [p \in Procs |-> None]
  /\ wrote' = [p \in Procs |-> {}]
  /\ UNCHANGED diskVars

\* recover_from_log(): read_head(), then install_trans() and clear_head.
read_head ==
  /\ phase = "boot"
  /\ lh' = head
  /\ phase' = "install"
  /\ UNCHANGED <<diskVars, cache, dirty, outstanding, committing, tail, procVars>>

\* bget() recycles the buffer of b; the next bread() finds the disk's data.
Recycle(b) ==
  /\ phase # "panic" /\ b \notin dirty \cup Held
  /\ cache' = [cache EXCEPT ![b] = home[b]]
  /\ UNCHANGED <<diskVars, dirty, logVars, procVars>>

-----------------------------------------------------------------------------
Init ==
  /\ home \in [Blocks -> Values]
  /\ logdata \in [1..LOGSIZE -> Values]
  /\ head = << >>
  /\ cache = home /\ dirty = {}
  /\ lh = << >> /\ outstanding = 0 /\ committing = FALSE
  /\ phase = "boot" /\ tail = 0
  /\ pc = [p \in Procs |-> "idle"]
  /\ buf = [p \in Procs |-> None]
  /\ wrote = [p \in Procs |-> {}]

CommitStep == write_log \/ write_head \/ install_trans \/ clear_head
                \/ \E p \in Procs : end_commit(p)

Next ==
  \/ \E p \in Procs :
       \/ begin_op(p) \/ log_write_locked(p) \/ end_op(p)
       \/ \E b \in Blocks, v \in Values : log_write(p, b, v)
  \/ CommitStep \/ read_head \/ Crash
  \/ \E b \in Blocks : Recycle(b)

Spec == Init /\ [][Next]_vars

-----------------------------------------------------------------------------
(* Properties *)

TypeOK ==
  /\ home \in [Blocks -> Values] /\ cache \in [Blocks -> Values]
  /\ logdata \in [1..LOGSIZE -> Values]
  /\ head \in Seq(Blocks) /\ lh \in Seq(Blocks)
  /\ dirty \subseteq Blocks
  /\ outstanding \in Nat /\ committing \in BOOLEAN
  /\ phase \in Phases /\ tail \in Nat
  /\ pc \in [Procs -> Places]
  /\ buf \in [Procs -> Blocks \cup {None}]
  /\ wrote \in [Procs -> SUBSET Blocks]

Open == {p \in Procs : pc[p] \in {"op", "logging"}}

\* What recover_from_log() would make of the disk as it is now.
Recovered ==
  [b \in Blocks |->
     IF b \in Entries(head) THEN logdata[CHOOSE i \in 1..Len(head) : head[i] = b] ELSE home[b]]

\* Crash atomicity: through every disk write of commit(), install_trans() and
\* recovery, and a crash after any of them, the disk holds a state between
\* operations, and what memory shows is never taken back except by a crash.
Store == INSTANCE AtomicStore
  WITH store <- Recovered,
       memory <- IF Recovering THEN Recovered ELSE cache,
       open <- Open
Atomic == Store!Spec

\* Durability: once the last end_op() has returned, everything the finished
\* operations wrote survives a crash.
Durable == outstanding = 0 /\ phase = "up" => Recovered = cache

\* "this op might exhaust log space; wait for commit" (log.c:133): the entries
\* never run past lh.block nor past the blocks of the log on disk, although
\* log_write() tests the space before it takes log.lock.
LogFits == Len(lh) <= LOGSIZE /\ Len(lh) <= SIZE - 1

\* No operation that logs fewer blocks than begin_op() reserves for it, beside
\* whatever others, makes log_write() panic with "too big a transaction" or
\* "log_write outside of trans", or end_op() with "log.committing".  An
\* operation of the MAXOPBLOCKS blocks that param.h:10 allows is not covered:
\* the header takes one of the log's blocks, and begin_op() does not count it.
NoLogPanic == phase # "panic"

\* No lost wakeup: nobody sleeps in begin_op() although it would be admitted
\* (log.c:159 "decrementing log.outstanding has decreased the amount of
\* reserved space"), nor when nothing that could wake it is under way.
NoIdleSleeper ==
  \A p \in Procs : pc[p] = "asleep" => ~Admits /\ (outstanding > 0 \/ committing)

\* Transactions are groups of whole operations: while commit() copies blocks
\* no operation is open (log.c:13-15).
CommitAlone == phase \in {"write", "head", "done"} \/ committing => Open = {}

-----------------------------------------------------------------------------
(* The inductive strengthening of Atomic, Durable and LogFits *)

Distinct(s) == \A i, j \in 1..Len(s) : s[i] = s[j] => i = j

\* What begin_op() reserved and the open operations have not used.
FreeSlots == {x \in Open \X (1..MAXOPBLOCKS) : x[2] > Cardinality(wrote[x[1]])}

OpInv ==
  /\ outstanding = Cardinality(Open)
  /\ committing \/ Recovering => Open = {}
  /\ Len(lh) + Cardinality(FreeSlots) <= LOGSIZE
  /\ \A p \in Procs :
       /\ wrote[p] \subseteq Entries(lh) /\ IsFiniteSet(wrote[p])
       /\ Cardinality(wrote[p]) <= OpBlocks
       /\ pc[p] \notin {"op", "logging"} => wrote[p] = {}
       /\ phase # "panic" => (buf[p] # None <=> pc[p] = "logging")
       /\ pc[p] = "logging" => buf[p] \in wrote[p] \/ Cardinality(wrote[p]) < OpBlocks

\* How far the log on disk, the home blocks and the buffers agree.
DataInv ==
  /\ Distinct(lh) /\ Distinct(head) /\ Len(head) <= LOGSIZE
  /\ phase \notin {"boot", "install"} => head = << >>
  /\ phase \in {"write", "head", "done"} => committing
  /\ phase \in {"up", "boot", "panic"} => ~committing
  /\ phase \in {"boot", "done"} => lh = << >>
  /\ phase = "install" => head = lh /\ tail <= Len(lh)
  /\ phase = "write" => tail < Len(lh)
  /\ phase \notin {"write", "install"} => tail = 0
  /\ \A i \in 1..Len(lh) :
       /\ phase = "head" \/ (phase = "write" /\ i <= tail) => logdata[i] = cache[lh[i]]
       /\ phase = "install" /\ committing => logdata[i] = cache[lh[i]]
       /\ phase = "install" /\ i <= tail => /\ home[lh[i]] = logdata[i]
                                           /\ lh[i] \notin dirty
  /\ dirty \subseteq Entries(lh)
  /\ Recovering => dirty = {}
  /\ \A b \in Blocks \ (dirty \cup Held) : cache[b] = home[b]

LogInv == TypeOK /\ OpInv /\ DataInv

-----------------------------------------------------------------------------
(***************************************************************************)
(* Fairness: the file system's operations are finite, the committing       *)
(* process and the disk make progress, processes are scheduled.            *)
(***************************************************************************)
Fairness ==
  /\ WF_vars(CommitStep) /\ WF_vars(read_head)
  /\ \A p \in Procs : WF_vars(log_write_locked(p)) /\ SF_vars(end_op(p))

FairSpec == Spec /\ Fairness

\* Every sleep in begin_op() ends.
SleepersWake == \A p \in Procs : pc[p] = "asleep" ~> pc[p] # "asleep"
=============================================================================
