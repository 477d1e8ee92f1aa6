# A TLA+ development of the RSDL kernel

The repository is the x86 teaching kernel xv6 with its round-robin scheduler
replaced by a *Rotating Staircase DeadLine* (RSDL) scheduler.  This directory
holds TLA+ modules translated from its C sources, TLC configurations that check
them on small instances, and TLAPS proofs for arbitrary instances.

## 1. Inventory

| part | state | operations | what is hard about it |
|---|---|---|---|
| process table, `proc.c`, `sysproc.c` | `ptable.proc[]`, `initproc`, `nextpid` | allocproc, priofork/fork, exit, wait, kill, growproc, sleep, wakeup | races of exit, wait and kill; orphans; slots reused; fork that fails half way |
| RSDL scheduler, `proc.c`, `proc.h`, `rsdl.h` | `ptable.level[2][LEVELS]`, `active`, `expired`, quanta, `c->proc`, `c->queue` | scheduler (search, depletion, migration, swap), yield, sched, enqueue/unqueue, find_available_queue | no process lost or duplicated; loops that hold the lock end; no starvation; several CPUs share the queues |
| clock, `trap.c` | `ticks`, the quanta | timer case of trap, sys_sleep, sys_uptime | quanta decremented without a lock; preemption in every system call |
| spin locks, `spinlock.c` | `locked`, `cpu`, `ncli`, `intena` | acquire, release, holding, pushcli, popcli | not modelled: a critical section is a step |
| sleep locks, `sleeplock.c` | `locked`, `pid` | acquiresleep, releasesleep, holdingsleep | lost wakeups |
| log, `log.c` | `log.lh`, `outstanding`, `committing`, the log on disk | begin_op, end_op, log_write, commit, recovery | a crash between any two disk writes; reservation of log space; group commit |
| buffer cache, `bio.c` | LRU list, `refcnt`, flags, sleep locks | bget, bread, bwrite, brelse | one copy per block; recycling; no free buffer |
| disk driver, `ide.c`, `memide.c` | `idequeue`, flags | iderw, idestart, ideintr | request order; interrupt against iderw |
| inodes and directories, `fs.c` | on-disk inodes, bitmap, `icache` | balloc, bfree, ialloc, iget, iput, ilock, bmap, itrunc, readi, writei, dirlookup, dirlink, namex | last reference dropped while another process looks the inode up; order of locks; blocks owned once |
| open files, `file.c`, `sysfile.c` | `ftable`, `ofile[]` | filealloc, filedup, fileclose, fileread, filewrite, sys_open, sys_link, sys_unlink, sys_pipe ... | reference counts; partial failure of multi-step calls |
| pipes, `pipe.c` | `nread`, `nwrite`, `readopen`, `writeopen`, ring | pipealloc, pipewrite, piperead, pipeclose | blocking writer and reader, close against both, counters that wrap |
| console, `console.c`, `kbd.c`, `uart.c` | `panicked`, input ring | panic | the ring is not modelled |
| memory, `kalloc.c`, `vm.c` | free list, page tables | kalloc, kfree, allocuvm, deallocuvm, copyuvm, freevm | every page has one owner, failures give back what they took |
| exec, `exec.c` | image of the process | exec | all or nothing |
| user heap, `umalloc.c` | circular free list | malloc, free, morecore | not modelled |
| boot and machine, `main.c`, `mp.c`, `lapic.c`, `ioapic.c`, `bootasm.S`, ... | hardware | | not modelled |
| tests, `usertests.c` | | eighteen of its file-system tests | results in every interleaving |

How they interact: system calls and interrupts enter through `trap.c`; every
blocking operation is `sleep(chan, lk)` / `wakeup(chan)` of `proc.c`, which
end in `sched()` and the scheduler loop; file calls run as transactions of
`log.c`, which writes through `bio.c` to the disk driver.

## 2. Layers

Each module assumes of the layer below what another module shows of it.

| module | takes for granted | shown by |
|---|---|---|
| `RSDL` | spin locks | not modelled |
| `BufferCache` | `sleep`/`wakeup`: asleep before the lock is free, wakeups may be spurious | the steps `sleep` and `wakeup` of `RSDL`, `NoLostWait` |
| `Log` | one copy of each block, exclusive use, a clean buffer may be recycled at any time | `Coherent`, `Exclusive` of `BufferCache` |
| `FileSystem`, `FileData` | transactions: what a group of operations wrote reaches the disk at once or not at all | `Atomic` of `Log` |
| `UserTests` | nothing: it *extends* `FileSystem`, which extends `Inodes` | |
| `Pipe`, `Memory` | spin locks, `sleep`/`wakeup` | as above |

## 3. The modules

### RSDL (`proc.c`, `proc.h`, `trap.c`, `sysproc.c`)

One module, because the process table, the scheduler and the clock share one
lock and their properties are about each other.  A step is a critical section
of `ptable.lock`, except that `scheduler()`'s two while-loops take one step per
iteration (lock held) and the clock tick's unlocked decrements are a load and a
store.

* `state`, `ticksLeft`, `defaultLevel`, `parent`, `chan`, `killed` are fields of
  `struct proc`; `kpc` and `child` say where a process stands in its own code.
* `queue[<<s, k>>]` is the used part of `ptable.level[s][k].proc`, `levelTicks`
  its quantum, `active` the index of the active set.
* `pc`, `cproc`, `cqueue` are per CPU: the program counter, `c->proc`,
  `c->queue`; `reg` holds the values the tick has loaded; `lock` is the holder of
  `ptable.lock`.
* `find_available_queue(Q, a, e, q)` is a relation: q is the queue the function
  returns.  `no_available_queue` is its panic.
* A blocking system call is `sleep`, any number of times, then `SyscallReturn`;
  what the call does meanwhile is left to the other modules.  `kill` names a
  slot rather than a pid.

`RSDLHistory` adds two history variables, for properties that compare a state
with an earlier one.

### Log (`log.c`) and AtomicStore

`home`, `logdata`, `head` are the disk; everything else is lost in `Crash`.  A
step is a critical section of `log.lock` or one block written to the disk.  The
buffer cache is the datum of each block in memory (`cache`) and the set of
`B_DIRTY` buffers; `Recycle` lets `bget()` reuse any clean buffer nobody holds.
`commit()` and `recover_from_log()` share `phase` and `tail`: recovery is
`install` with `committing` false, as in the code both call `install_trans()`.
`end_op()` is `last_op` or `other_op`, with its panic "log.committing".
`AtomicStore` is what the file system relies on: operations write to memory,
groups of finished operations reach the store at once, a crash goes back to the
store.  The mapping takes as `store` what recovery would make of the disk.

### Pipe (`pipe.c`, with references from `file.c`) and ByteChannel

A step is a critical section of `p->lock`; a loop of `pipewrite()` or
`piperead()` that runs under the lock up to its next sleep is one step, with the
number of bytes it copies computed from the wrapping counters.  `wdoze` and
`rdoze` are the places between the test of `killed` and the sleep; with `SMP`
false nothing happens there, as interrupts are off.  `ByteChannel` is a bounded
queue with end of file; the mapping reads the ring from `nread` to `nwrite`.

### BufferCache (`bio.c`, `sleeplock.c`, `ide.c`)

A step is a critical section of `bcache.lock`, of a buffer's `lock.lk` or of
`idelock`.  A member of `Procs` is one *use* of a buffer, from `bread()` to
`brelse()`: a system call that holds two buffers at a time, as `bmap()` and `commit()`
do, is two of them, ordered in one of the ways the module allows.  `lru` is the list, `owner` the sleep lock, `idequeue` the queue of
requests, `device` the command the disk is working on.  `ideintr` completes a
request at any time, `kill` wakes a sleeper for nothing.  The log is present only
as far as bio.c notices it: it keeps up to `PINS` released buffers `B_DIRTY`.  `last`
is a history variable: what was last written to each block.  "bget: no buffers" stops
the machine and is reached (section 7).

### Inodes, FileSystem, UserTests (`fs.c`, `sysfile.c`, `file.c`, `usertests.c`)

`Inodes` has the inode cache, `iput()`, directories and `namex()`; `FileSystem` the
system calls, the file table and descriptors; `UserTests` programs that use them.
A step begins when an inode's sleep lock is taken and ends before the next one
is; `iput()` has three more, for `icache.lock` and for the moment at which the
inode is free on disk and still valid in memory.  `proc[p]` holds a process's
place in the kernel and its local variables, `put` the inodes it is about to
`iput()`.  A directory is a set of entries with their slots, a file at most one value.
`exec()` has its inode's half here (transaction, walk, lock while the program is read,
`iunlockput()`), its image in `Memory`.  `safe` is
the disk after the last commit; `crash` goes back to it.
A test of usertests.c is a sequence of steps for parent and child, each with the
calls it may choose from and the results it does not report as a failure.

### FileData (`fs.c`, `file.c`, `mkfs.c`)

Blocks, the bitmap, direct and indirect addresses, sizes and offsets.  A turn of
the loop of `writei()` or `itrunc()` is a step, and `begin_op()` is one before the
inode's lock.  A full disk ends in the panic of `balloc()`, after which the machine can
only be started again.  `logged` collects the blocks a
transaction gives to `log_write()`, so that the reservation of `begin_op()` can be
compared with what `filewrite()` uses.  `text` is a history variable: the bytes
written.  Initially the disk holds a file made by `iappend()` of mkfs.c.

### Memory (`kalloc.c`, `vm.c`, `exec.c`, `proc.c`)

The free list, page directories, page tables and pages of every process, and the
programs that `exec()` loads.  A turn of a loop that allocates is a step, because
processes compete for pages; `setupkvm()`, and a turn that needs a page table besides
its page, take their pages in one step.  Addresses wrap as `uint`.  Stale translations
in the processor, as after `growproc(-sz)` without `switchuvm()`, are left out.  `image` is a history
variable: what each process should find in its memory.

## 4. Runs

| run | instance | shows |
|---|---|---|
| `up_lifecycle` | 1 CPU, 3 processes, 2 levels, quanta 1 and 2 | queue discipline through fork, exit, wait, sleep, kill, migration, swap (`QueuedOnce`, `NoQueuePanic`); no orphans (`ParentAlive`) |
| `up_epochs` | 1 CPU, 3 processes, 2 levels, quanta 2 and 3 | the rules of RSDL between two swaps |
| `up_liveness` | 1 CPU, 3 processes, 2 levels | no starvation, the loops under the lock end |
| `smp_clock` | 2 CPUs, 2 processes | one CPU per process, no lost wakeup in `wait()`, with racing ticks |
| `smp_panic` | 2 CPUs, 2 processes | violated: section 7 |
| `log` | 3 processes, 3 blocks, 2 values, a log of 4 blocks, 2 reserved and 1 logged by an operation | refinement of `AtomicStore`, durability, the reservation suffices, nobody sleeps beside free room, sleeps end |
| `pipe_queue` | 2 processes, ring of 2, counters modulo 4 | refinement of `ByteChannel`, freed once, no lost wakeup, sleeps end |
| `bio` | 2 uses, 3 buffers, 4 blocks, 2 pinned | `bread()` gives what was last written, to one use at a time; no lost wakeup |
| `fs` | up to 3 processes, 10 inodes, `NINODE` 5, `NFILE` 3, `NOFILE` 2 | link and reference counts, no inode freed in use, names entered once, crash images, no panic over a name that changed between two locks, results of the tests |
| `fs_deadlock` | 2 processes, the test `linkunlink` | violated: section 7 |
| `filedata` | 2 interchangeable processes with 2 calls each, 9 blocks of 2 words, 2 direct blocks | every block owned once, files hold what was written, crash images, transactions fit their reservation |
| `memory` | 3 processes, 17 pages | every page owned once, memory holds what was written, no panic in `copyuvm()` or `mappages()` |

**Bounds.**  *RSDL*: three processes are the fewest for which a level holds somebody
in front of and behind the one that runs.  Two levels give a level to fall to and
a last level to fall off; the level quantum exceeds the process quantum, as in
`rsdl.h`, so that both kinds of depletion happen.  Configurations cut *what
processes do*, never what the kernel does: `NoKills`, `KillLast`, `NoWaits`,
`NoExits`, `LastExits`, `FewKills` in `MCRSDL`, and `TicksBound` where lost
decrements would let a quantum fall for ever.
*Log*: with the header, four blocks give room to two operations of two reserved
blocks, so that the third one has to wait for room or for a commit; each logs one
block less than it reserves, and three blocks let all of them differ or be shared.
Larger instances are covered by the proofs.
*Pipe*: the counters wrap after two full rings, and a write of three bytes does not
fit even in an empty ring.  `OneMark` in `MCPipe` keeps at most one byte that
differs from the others, which is enough because nothing depends on the bytes.
*Buffer cache*: fewer buffers than blocks, so that every release may be followed by
recycling; with two pinned buffers the third is contended, and a second use finds none.
*File system*: the cache has fewer entries than there are inodes, the file table
fewer than the descriptors, so that all failures for want of an entry occur,
`pipe()` half way included.  Besides the tests, two processes make two calls each
and three make one, of any kind on the names `a` and `b`,
and three compete for the file table with `open()` and `pipe()`.  These free programs
leave out `..` and creation inside a directory that another process removes: the
code mishandles both (section 7).  Beside them are a program that asks for the state
of a file that is linked and removed, one that executes a file that is removed, and
forks without a free slot.  `TestsPass` is about results; that a test ends is another
question, and `linkunlink` may not.
*File contents*: a file has four blocks, two of them indirect, and mkfs makes it empty
or with one indirect block; a write of four words takes two transactions and crosses
from direct to indirect blocks.  Two files of the largest size need one block more than
there are.  `MAXOPBLOCKS` 6 allows one block per transaction, which logs up to five: two of
data, the indirect one, the bitmap and the inode.  The bitmap is one block, as the
2000 bits of `FSSIZE` are.  `FitsReservation` is about `write()` and the truncation
in `close()`; it is the hypothesis `OpBlocks < MAXOPBLOCKS` of `ReservationSuffices` for these
two.  The transactions of other calls change directories and are not counted.
*Memory*: seventeen pages are too few for three processes, so that every allocation
fails in some behaviour.  Programs have no, one or two segments, the second above or
below the first; files are broken before, between and after their allocations.  The view `MCView` forgets which page is used for what,
once every page is known to have one use.

**Deadlock** is checked except where programs end (`pipe_queue`, `fs`,
`filedata`) and where a panic stops the machine (`bio`).  For inode locks the question has its own run, `fs_deadlock`.

**Fairness.**  RSDL: weak for the scheduler loop and for an interrupt once
taken, strong for the clock (it is periodic, so it cannot miss every moment in
which a process runs); nothing for processes.  Log: the disk answers, and an
operation, being a system call without loops over foreign conditions, ends.
Pipe: a system call that can proceed does, and a program that is not blocked
gives its ends up at some time, if only by `exit()`.

## 5. Proofs

Each invariance proof follows the code: one step per action, named after it, and
under it one per part of the invariant that the action can disturb.  What a step
of `proc.c` does to the queues is stated once (the lemmas `...Effect` of
`RSDLUniProofs`) and used by all invariants.

**Scheduler, any number of CPUs** (`RSDLProofs`): `TypeCorrect` and `OneCpu`, from
`TypeOK`, `CpuInv` (who holds the lock, what each CPU is concerned with, a RUNNING
process is on a CPU) and `ForkInv` (the slot being filled by `priofork()` belongs to
one parent).  `NoWakeupLost` and `NobodyOrphaned`, from `FamilyInv`, which adds who may
be whose parent: init never exits and has no parent, nobody is its own parent, only
processes that can be reaped have one, and who sleeps in `wait()` sleeps on itself.

**Scheduler, one CPU** (stated as `\A c, d \in CPUS : c = d`, the Makefile's default;
`smp_panic` is the counterexample for two), for any number of processes and
levels and any quanta:

* `RSDLUniProofs`: `UniInductive`, and from it `EveryProcessQueuedOnce`,
  `NoSchedulerPanic`, `ChargesOwnLevel`.  `QueuedOnce` is not inductive because inside
  the migration loop the process that ran is in no queue; `QueueInv` says where
  every process is at each step of the loops.  No panic of `find_available_queue()`
  is reachable because of `LevelInv`: every level of the *expired* set keeps its
  full quantum (only active levels are charged; the swap replenishes a level
  before it moves anything), and a level has room for all processes since no
  process is queued twice (a pigeonhole lemma).
* `RSDLEpochProofs`: `EpochInductive`, and from it `SwapsOnlyWhenIdle`,
  `SwapStartsNewEpoch`, `OnlyDown`.  `EpochInv` bounds the quanta, and says that who is
  queued has quantum left, and so has its level, unless the CPU is just about to
  take it away; and that the set the next epoch starts with is fresh: default
  levels, full quanta.  Without this last part a swap in the middle of its loop says
  nothing about its end.
* `RSDLHistoryProofs`: `ShareBounded`, from `ShareInv`: what a process was charged in
  this epoch *plus what it has left* is at most one quantum for each level from its
  default level to where it is queued; falling a level pays for the refill.
  And `Fifo`, from `OrderInv`, which compares the queues with a copy taken
  when the lock was: nobody has overtaken anybody (`Held`), and a level that is being
  emptied loses its front and gains nobody (`Shrinking`).

**Log** (`LogProofs`): `LogCorrect` (`LogInv`), `FinishedIsDurable`, `LogImplementsStore`,
`ReservationSuffices`, `CommitsWholeOperations`, `NobodySleepsIdly`.  `OpInv` counts
reserved and unused slots of open operations as a set of pairs, so that admission,
absorption and the end of an operation each change it by a known number;
`DataInv` says, for each phase, how far log, home blocks and buffers agree.
Refinement: `write_head` of `commit()` is the abstract commit, every other disk
write leaves what recovery would produce unchanged.  `ReservationSuffices` assumes
that an operation logs fewer blocks than `MAXOPBLOCKS` (section 7).  Its invariant
`SpaceInv` counts what the open operations may still log (`LeftSlots`, pairs again): with
it the entries leave two blocks of `LOGSIZE` free, one for the header, and one because
`log_write()` refuses a full log even for a block it would absorb.  With one operation
alone `MAXOPBLOCKS < LOGSIZE` pays for the second one; beside others, each leaves one.

**Buffer cache** (`BufferCacheProofs`), on a disk without read errors
(`ReadOk \subseteq {TRUE}`; with them `Coherent` fails, section 7): `CacheCorrect`, and
from it `BreadCoherent`, `OneUserPerBlock`, `NeverIoPanic`, `NoSleeperForgotten`.
`CacheInv` joins five parts: types; `ProcInv`, what a process at each place holds;
`BufInv`, that `refcnt` counts the processes that use a buffer and no two buffers
have the same block; `QueueInv`, that each queued buffer belongs to a process in
`iderw()` and the device works on the first; `DataInv`, that a valid buffer holds
the last value written, and so does the disk unless the buffer is dirty.  Only
together are they inductive: recycling keeps `DataInv` because an unused clean
buffer equals the disk, which rests on `BufInv`, which rests on what `ProcInv` says
of a process between two locks.  That a buffer is
left for whoever asks is not claimed: it depends on numbers that `param.h` does not
provide (section 7).

**Pipe** (`PipeProofs`), for any number of processes, any ring, any width of the
counters: `FreedOnceAndLast`, from `EndInv` (an end is open as long as a process has
it or is about to close it); `KilledNotAsleep` for one CPU (`SMP = FALSE`), from
`KillInv`; `NoSleeperStranded`, from `PipeInv`, which adds that the ring is never
overfull and says for each sleeper who will wake it; and the refinement
`PipeImplementsChannel`, whose lemmas are about arithmetic modulo the wrap-around: the
distance of the counters is the length of the queue, and two positions of the
queue share a slot of the ring only if they are equal.

The only assumptions besides the hypotheses above are the named `ASSUME`s on
constants: at least one process and level, positive quanta, sizes that are natural
numbers, finite sets of processes and buffers, null values outside the sets they
stand beside, a counter range that is a multiple of the ring.

## 6. Model-checked only, and not modelled

Liveness under fairness is out of the prover's reach and stays with TLC:
`EveryRunnableRuns`, `LockIsReleased`, `SleepersWake`, `SleepsEnd`.  Every other property of
the scheduler, log, buffer cache and pipe runs that pass is proved.  The properties of
`FileSystem`, `FileData` and `Memory` are checked and not proved.

Some invariants are proved and no longer among the runs: `TypeOK`, `UniInv`,
`EpochInv` and `CpuQueueCurrent` of `RSDL`, `ShareInv` and `OrderInv` of `RSDLHistory`,
`LogInv` and `CommitAlone` of `Log`, `CacheInv` and `NoIoPanic` of
`BufferCache`, `PipeInv` of `Pipe`.  Where there is no proof, the type invariant is a
conjunct of the property next to it (`RefExact`, `PagesExact`).

Not modelled:

* **Spin locks**: a critical section is one step.  That this is right is what
  `acquire()` and `release()` are for; their instructions are below the model.
* **Console**: only `panic()`.  Line editing in the input ring depends on nothing and
  nothing depends on it.
* **System call dispatch** and fetching arguments: no state.
* **User heap, user programs**: sequential code of one process; what a program may
  do is the nondeterminism of the user-mode actions.  `init`'s first calls and
  eighteen tests are programs of `UserTests`.
* **Boot, processor, interrupt controllers, memory disk**: straight-line code, assembly
  and registers.

## 7. Where the code does not do what it says

Two runs show a violation.

* `smp_panic`: with `CPUS=2` a set swap moves a process that runs on the other CPU,
  and `unqueue_proc` panics (proc.c:697).
* `fs_deadlock`: `iput()` takes the inode's sleep lock (fs.c:334), so
  `iunlockput(dp)` in `create()` (sysfile.c:280) and `unlink()` (sysfile.c:225) waits for
  a directory while the process holds a file in it.  One process in
  `open("x", O_CREATE)` and one in `unlink("x")` then wait for each other: two
  calls of the test "to look for deadlocks" (usertests.c:855-856).

Others were met while modelling.  Properties that would say otherwise are stated
so that they hold.

* Scheduler: README.md:85 on where `priofork(k)` puts a child fails when level k is
  depleted.  Migration does not keep the "exact same order" of README.md:17: the
  process that ran goes last, which `NoOvertaking` allows for.
* Log: `LOGSIZE` blocks include the header, one data block less than `param.h` says, and
  `begin_op()` does not count it: three operations of all `MAXOPBLOCKS` blocks are admitted
  and may end in "too big a transaction".  `NoLogPanic` is about operations that log
  fewer.
* Buffer cache: `NBUF` and `LOGSIZE` are both 30, and each of 64 processes may hold a
  buffer, or two; beside a full log "bget: no buffers" is reachable.
* Pipe: a killed writer leaves without waking the readers of what it wrote
  (`SleepersWait` allows for it).  With `SMP = TRUE`, `KilledAwake` fails: on several CPUs
  a kill between the test of `killed` and the sleep is lost.
* Disk: after a read error the buffer is marked valid with stale data (ide.c:119);
  `ReadOk = {TRUE, FALSE}` shows it.
* Inodes: two processes that drop the last two references of an unlinked inode
  can both see `ref` 2, and it is never freed (fs.c:335-340, against the comment
  at fs.c:327).  `link("f", "d/.")` makes a process wait for a lock of its own.
  `..` of a removed directory may name an inode that was freed since ("ilock: no
  type").  An entry made in a directory that is being removed is lost with it.
  With 100 open files and a current directory each, 50 entries of the inode cache
  do not suffice ("iget: no inodes").
* mkfs.c:161 rounds the size of the root directory up even if it is a multiple of
  the block size.
* Memory: `growproc(-sz)` frees everything, returns -1 and keeps `sz`.
