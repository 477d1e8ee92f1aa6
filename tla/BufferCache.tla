---------------------------- MODULE BufferCache ----------------------------
(***************************************************************************)
(* The buffer cache of bio.c, its sleep locks (sleeplock.c) and the disk   *)
(* queue with its interrupt handler (ide.c).  A step is a critical section *)
(* of bcache.lock, of a buffer's lock.lk or of idelock.  sleep() and       *)
(* wakeup() are the steps of RSDL: a process is asleep before the lock it  *)
(* gave to sleep() is free, and kill() may wake it for nothing.            *)
(*                                                                         *)
(* A member of Procs is one use of a buffer, from bread() to brelse().  A  *)
(* process that holds one buffer while it gets another (bmap() and         *)
(* balloc(), write_log(), install_trans()) is two members, whose steps the *)
(* model interleaves in more ways than the code does.                      *)
(***************************************************************************)
EXTENDS Integers, Sequences, FiniteSets

CONSTANTS
  Procs, Bufs, Blocks, Values,   \* uses, buffers, blocks and their contents
  PINS,     \* the log keeps at most so many buffers B_DIRTY at a time
  ReadOk,   \* what idewait(1) may say after a read, a subset of BOOLEAN
  None, Read, Idle

ASSUME CacheAssumption ==
  /\ IsFiniteSet(Procs) /\ IsFiniteSet(Bufs) /\ Bufs # {}
  /\ PINS \in Nat /\ ReadOk \subseteq BOOLEAN
  /\ None \notin Procs \cup Bufs \cup Blocks
  /\ Read \notin Values /\ Idle \notin Values \cup {Read}

VARIABLES
  lru,      \* the list from bcache.head.next to bcache.head.prev
  block,    \* b->dev and b->blockno, None before the first use
  refcnt,
  valid, dirty,
  data,
  owner,    \* b->lock.locked and its pid
  idequeue,
  device,   \* the command in progress: the data to write, Read or Idle
  disk,     \* the blocks on the disk
  pc, buf,
  want,     \* the block a process asked for
  last      \* history: what was last written to each block

vars == <<lru, block, refcnt, valid, dirty, data, owner, idequeue, device, disk, pc, buf, want, last>>
listVars == <<lru, block, refcnt>>
ideVars == <<idequeue, device, disk>>

\* lock: in acquiresleep()   waits: asleep there   rw: in iderw(), before
\* idelock   disk: asleep there   woken: awake again   hold: bread() or bwrite()
\* has returned   release: in brelse(), after releasesleep()
Places == {"idle", "lock", "waits", "rw", "disk", "woken", "hold", "release", "panic"}

-----------------------------------------------------------------------------
(* bget() and the sleep lock *)

\* Mutant: a buffer of the log is recycled.
Unused_pinned(b) == refcnt[b] = 0

Unused(b) == refcnt[b] = 0 /\ b \notin dirty

\* The buffer of blk, or the least recently used one nobody needs.
Found(blk, b) == block[b] = blk
Recycled(b) ==
  \E i \in 1..Len(lru) : /\ lru[i] = b /\ Unused(b)
                        /\ \A j \in (i + 1)..Len(lru) : ~Unused(lru[j])

bget(p, blk) ==
  /\ pc[p] = "idle"
  /\ want' = [want EXCEPT ![p] = blk]
  /\ IF \E b \in Bufs : Found(blk, b)
     THEN \E b \in Bufs :
            /\ Found(blk, b)
            /\ refcnt' = [refcnt EXCEPT ![b] = @ + 1]
            /\ buf' = [buf EXCEPT ![p] = b]
            /\ pc' = [pc EXCEPT ![p] = "lock"]
            /\ UNCHANGED <<block, valid, dirty>>
     ELSE IF \E b \in Bufs : Recycled(b)
     THEN \E b \in Bufs :
            /\ Recycled(b)
            /\ block' = [block EXCEPT ![b] = blk]
            /\ valid' = valid \ {b} /\ dirty' = dirty \ {b}
            /\ refcnt' = [refcnt EXCEPT ![b] = 1]
            /\ buf' = [buf EXCEPT ![p] = b]
            /\ pc' = [pc EXCEPT ![p] = "lock"]
     ELSE /\ pc' = [pc EXCEPT ![p] = "panic"]
          /\ UNCHANGED <<block, valid, dirty, refcnt, buf>>
  /\ UNCHANGED <<lru, data, owner, ideVars, last>>

\* Mutant: the lock is not waited for.
Free_always(b) == TRUE

Free(b) == owner[b] = None
bread(b) == IF b \in valid THEN "hold" ELSE "rw"

\* One round of acquiresleep(); then bread() looks at B_VALID.
acquiresleep(p) ==
  LET b == buf[p] IN
  /\ pc[p] = "lock"
  /\ IF Free(b)
     THEN /\ owner' = [owner EXCEPT ![b] = p]
          /\ pc' = [pc EXCEPT ![p] = bread(b)]
     ELSE /\ pc' = [pc EXCEPT ![p] = "waits"]
          /\ UNCHANGED owner
  /\ UNCHANGED <<listVars, valid, dirty, data, ideVars, buf, want, last>>

\* wakeup(&b->lock) and wakeup(b)
wakeup_lock(b) == [p \in Procs |-> IF pc[p] = "waits" /\ buf[p] = b THEN "lock" ELSE pc[p]]
wakeup_disk(b) == [p \in Procs |-> IF pc[p] = "disk" /\ buf[p] = b THEN "woken" ELSE pc[p]]

releasesleep(p) ==
  /\ pc[p] = "hold"
  /\ owner' = [owner EXCEPT ![buf[p]] = None]
  /\ pc' = [wakeup_lock(buf[p]) EXCEPT ![p] = "release"]
  /\ UNCHANGED <<listVars, valid, dirty, data, ideVars, buf, want, last>>

unref(b) == refcnt[b] - 1

\* b becomes the most recently used.
MoveToFront(b) ==
  LET at == CHOOSE i \in 1..Len(lru) : lru[i] = b
  IN  [i \in 1..Len(lru) |-> IF i = 1 THEN b ELSE IF i <= at THEN lru[i - 1] ELSE lru[i]]

\* The rest of brelse().
brelse(p) ==
  LET b == buf[p] IN
  /\ pc[p] = "release"
  /\ refcnt' = [refcnt EXCEPT ![b] = unref(b)]
  /\ lru' = IF unref(b) = 0 THEN MoveToFront(b) ELSE lru
  /\ pc' = [pc EXCEPT ![p] = "idle"]
  /\ buf' = [buf EXCEPT ![p] = None]
  /\ want' = [want EXCEPT ![p] = None]
  /\ UNCHANGED <<block, valid, dirty, data, owner, ideVars, last>>

-----------------------------------------------------------------------------
(* Writers: a process that holds a buffer changes it and then either writes *)
(* it to the disk or leaves it to the log.                                  *)

bwrite(p, v) ==
  /\ pc[p] = "hold"
  /\ data' = [data EXCEPT ![buf[p]] = v]
  /\ last' = [last EXCEPT ![block[buf[p]]] = v]
  /\ dirty' = dirty \cup {buf[p]}
  /\ pc' = [pc EXCEPT ![p] = "rw"]
  /\ UNCHANGED <<listVars, valid, owner, ideVars, buf, want>>

log_write(p, v) ==
  /\ pc[p] = "hold" /\ Cardinality(dirty \cup {buf[p]}) <= PINS
  /\ data' = [data EXCEPT ![buf[p]] = v]
  /\ last' = [last EXCEPT ![block[buf[p]]] = v]
  /\ dirty' = dirty \cup {buf[p]}
  /\ UNCHANGED <<listVars, valid, owner, ideVars, pc, buf, want>>

-----------------------------------------------------------------------------
(* The disk *)

\* The command for b; the data of a write go with it.
idestart(b) == IF b \in dirty THEN data[b] ELSE Read

\* iderw() up to its first sleep.
iderw(p) ==
  LET b == buf[p] IN
  /\ pc[p] = "rw"
  /\ idequeue' = Append(idequeue, b)
  /\ device' = IF idequeue = << >> THEN idestart(b) ELSE device
  /\ pc' = [pc EXCEPT ![p] = "disk"]
  /\ UNCHANGED <<listVars, valid, dirty, data, owner, disk, buf, want, last>>

\* Mutant: the next request waits for somebody else to start the disk.
start_next_never(q) == Idle

start_next(q) == IF q = << >> THEN Idle ELSE idestart(Head(q))

\* The device has finished: a write is on the disk, a read waits in its
\* registers, where an error (~ok) leaves nothing to copy.
ideintr(ok) ==
  LET b == Head(idequeue) IN
  /\ device # Idle /\ idequeue # << >>
  /\ idequeue' = Tail(idequeue)
  /\ disk' = IF device # Read THEN [disk EXCEPT ![block[b]] = device] ELSE disk
  /\ data' = IF b \notin dirty /\ ok THEN [data EXCEPT ![b] = disk[block[b]]] ELSE data
  /\ valid' = valid \cup {b}
  /\ dirty' = dirty \ {b}
  /\ pc' = wakeup_disk(b)
  /\ device' = start_next(Tail(idequeue))
  /\ UNCHANGED <<listVars, owner, buf, want, last>>

Synced(b) == b \in valid /\ b \notin dirty

\* Awake in iderw(): the test of the flags again.
iderw_loop(p) ==
  /\ pc[p] = "woken"
  /\ pc' = [pc EXCEPT ![p] = IF Synced(buf[p]) THEN "hold" ELSE "disk"]
  /\ UNCHANGED <<listVars, valid, dirty, data, owner, ideVars, buf, want, last>>

kill(p) ==
  /\ pc[p] \in {"waits", "disk"}
  /\ pc' = [pc EXCEPT ![p] = IF @ = "waits" THEN "lock" ELSE "woken"]
  /\ UNCHANGED <<listVars, valid, dirty, data, owner, ideVars, buf, want, last>>

-----------------------------------------------------------------------------
\* After binit().
Init ==
  /\ lru \in [1..Cardinality(Bufs) -> Bufs] /\ \A i, j \in DOMAIN lru : lru[i] = lru[j] => i = j
  /\ block = [b \in Bufs |-> None] /\ refcnt = [b \in Bufs |-> 0]
  /\ valid = {} /\ dirty = {}
  /\ data \in [Bufs -> Values] /\ owner = [b \in Bufs |-> None]
  /\ idequeue = << >> /\ device = Idle
  /\ disk \in [Blocks -> Values] /\ last = disk
  /\ pc = [p \in Procs |-> "idle"]
  /\ buf = [p \in Procs |-> None] /\ want = [p \in Procs |-> None]

Next ==
  \/ \E p \in Procs :
       \/ acquiresleep(p) \/ releasesleep(p) \/ brelse(p)
       \/ iderw(p) \/ iderw_loop(p) \/ kill(p)
       \/ \E blk \in Blocks : bget(p, blk)
       \/ \E v \in Values : bwrite(p, v) \/ log_write(p, v)
  \/ \E ok \in ReadOk : ideintr(ok)

Spec == Init /\ [][Next]_vars

-----------------------------------------------------------------------------
(* Properties *)

TypeOK ==
  /\ lru \in Seq(Bufs)
  /\ block \in [Bufs -> Blocks \cup {None}] /\ refcnt \in [Bufs -> Nat]
  /\ valid \subseteq Bufs /\ dirty \subseteq Bufs
  /\ data \in [Bufs -> Values] /\ owner \in [Bufs -> Procs \cup {None}]
  /\ idequeue \in Seq(Bufs) /\ device \in Values \cup {Read, Idle}
  /\ disk \in [Blocks -> Values] /\ last \in [Blocks -> Values]
  /\ pc \in [Procs -> Places]
  /\ buf \in [Procs -> Bufs \cup {None}] /\ want \in [Procs -> Blocks \cup {None}]

\* Coherence: bread() gives the block that was asked for, with what was last
\* written to it, whoever wrote it, however often its buffer was recycled in
\* between and although bget() lets bcache.lock go before it has the buffer.
Coherent ==
  \A p \in Procs : pc[p] = "hold" =>
    block[buf[p]] = want[p] /\ data[buf[p]] = last[want[p]]

\* One process at a time has a buffer, and no two buffers hold one block
\* (bio.c: "Only one process at a time can use a buffer").
Exclusive ==
  /\ \A p, q \in Procs : pc[p] = "hold" /\ pc[q] = "hold" /\ want[p] = want[q] => p = q
  /\ \A b, c \in Bufs : block[b] = block[c] /\ block[b] # None => b = c

\* iderw()'s panics "buf not locked" and "nothing to do", and those of bwrite()
\* and brelse(), are not reached.
NoIoPanic ==
  \A p \in Procs :
    /\ pc[p] \in {"hold", "rw"} => owner[buf[p]] = p
    /\ pc[p] = "rw" => buf[p] \in dirty \/ buf[p] \notin valid

\* No lost wakeup: who sleeps on a buffer's lock waits for somebody who has it,
\* who sleeps in iderw() waits for a request in the queue, and the disk works as
\* long as there is one, so that its interrupt wakes them all in the end.
SleepersWait ==
  /\ \A p \in Procs :
       /\ pc[p] = "waits" => owner[buf[p]] # None
       /\ pc[p] = "disk" => \E i \in 1..Len(idequeue) : idequeue[i] = buf[p]
  /\ idequeue # << >> => device # Idle

-----------------------------------------------------------------------------
(* The inductive strengthening *)

InOwner == {"hold", "rw", "disk", "woken"}
Queued(b) == \E i \in 1..Len(idequeue) : idequeue[i] = b
Users(b) == {p \in Procs : buf[p] = b}

\* Where each process is, what it has, and what the flags of its buffer say.
ProcInv ==
  \A p \in Procs :
    /\ buf[p] = None <=> pc[p] \in {"idle", "panic"}
    /\ buf[p] # None => block[buf[p]] = want[p] /\ want[p] # None
    /\ pc[p] \in InOwner => owner[buf[p]] = p
    /\ pc[p] = "waits" => owner[buf[p]] # None
    /\ pc[p] = "hold" => buf[p] \in valid
    /\ pc[p] = "rw" => buf[p] \in dirty \/ buf[p] \notin valid
    /\ pc[p] \in {"disk", "woken"} => (Queued(buf[p]) <=> ~Synced(buf[p]))
    /\ pc[p] = "disk" => Queued(buf[p])

\* References, owners and the list.
BufInv ==
  /\ dirty \subseteq valid
  /\ \A b \in Bufs :
       /\ \E i \in 1..Len(lru) : lru[i] = b
       /\ refcnt[b] = Cardinality(Users(b))
       /\ owner[b] # None => buf[owner[b]] = b /\ pc[owner[b]] \in InOwner
  /\ \A b, c \in Bufs : block[b] = block[c] /\ block[b] # None => b = c

\* The queue holds every request once, and the device works on the first.
QueueInv ==
  /\ \A i, j \in 1..Len(idequeue) : idequeue[i] = idequeue[j] => i = j
  /\ \A i \in 1..Len(idequeue) :
       owner[idequeue[i]] # None /\ pc[owner[idequeue[i]]] \in {"disk", "woken"}
  /\ device = IF idequeue = << >> THEN Idle ELSE idestart(Head(idequeue))

\* A valid buffer has what was last written; so has the disk, unless the
\* buffer is B_DIRTY.
DataInv ==
  /\ \A b \in Bufs : b \in valid /\ block[b] # None => data[b] = last[block[b]]
  /\ \A blk \in Blocks : (\A b \in dirty : block[b] # blk) => disk[blk] = last[blk]

CacheInv == TypeOK /\ ProcInv /\ BufInv /\ QueueInv /\ DataInv
=============================================================================
