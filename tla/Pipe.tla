-------------------------------- MODULE Pipe --------------------------------
(***************************************************************************)
(* A pipe of pipe.c and the file references that keep it alive (file.c).   *)
(* A step is a critical section of p->lock, or what lies between two.      *)
(* With several CPUs a kill() may fall between the test of killed and the  *)
(* sleep(), because kill() takes ptable.lock and not p->lock; on one CPU   *)
(* interrupts are off there.                                               *)
(***************************************************************************)
EXTENDS Integers, Sequences, FiniteSetsExt

CONSTANTS
  Procs, Bytes,
  PIPESIZE,
  UINTS,      \* nread and nwrite count modulo this
  MAXN,       \* bytes per call
  SMP         \* several CPUs

ASSUME PipeAssumption ==
  /\ PIPESIZE \in Nat \ {0} /\ MAXN \in Nat \ {0}
  /\ UINTS \in Nat /\ UINTS % PIPESIZE = 0 /\ UINTS > PIPESIZE
  /\ SMP \in BOOLEAN

VARIABLES
  data, nread, nwrite,
  open,       \* the ends whose readopen or writeopen is set
  freed,      \* how often kfree() was called
  hold,       \* the ends each process has a file reference to
  pc,
  todo,       \* pipewrite(): the bytes not yet copied
  want,       \* piperead(): its n, 0 outside it
  got,        \* what the last piperead() returned
  killed,
  unannounced \* history: bytes were written since readers were woken last

vars == <<data, nread, nwrite, open, freed, hold, pc, todo, want, got, killed, unannounced>>
ringVars == <<data, nread, nwrite>>
endVars == <<open, freed, hold>>

Ends == {"r", "w"}

\* write, read: waiting for p->lock    wdoze, rdoze: past the test of killed,
\* lock held    wsleep, rsleep: asleep    closer, closew: between fileclose()'s
\* critical section and pipeclose()
Places == {"user", "write", "read", "wdoze", "rdoze", "wsleep", "rsleep", "closer", "closew"}

Locked == \E p \in Procs : pc[p] \in {"wdoze", "rdoze"}

-----------------------------------------------------------------------------
(* The ring *)

\* Mutant: one byte too many.
Room_off_by_one == CHOOSE k \in 0..(UINTS - 1) : (nwrite + k) % UINTS = (nread + PIPESIZE + 1) % UINTS

\* How often pipewrite()'s loop runs until nwrite == nread + PIPESIZE, and
\* piperead()'s until nread == nwrite.
Room == CHOOSE k \in 0..(UINTS - 1) : (nwrite + k) % UINTS = (nread + PIPESIZE) % UINTS
Filled == CHOOSE k \in 0..(UINTS - 1) : (nread + k) % UINTS = nwrite

\* p->data[n % PIPESIZE] for a counter n
Slot(n) == (n % UINTS) % PIPESIZE

copy_in(bs) ==
  [j \in 0..(PIPESIZE - 1) |->
     LET at == {i \in 1..Len(bs) : Slot(nwrite + i - 1) = j}
     IN  IF at = {} THEN data[j] ELSE bs[Max(at)]]

copy_out(k) == [i \in 1..k |-> data[Slot(nread + i - 1)]]

\* nread++ or nwrite++, k times
advance(n, k) == (n + k) % UINTS

\* wakeup(&p->nread), wakeup(&p->nwrite)
wakeup_readers == [p \in Procs |-> IF pc[p] = "rsleep" THEN "read" ELSE pc[p]]
wakeup_writers == [p \in Procs |-> IF pc[p] = "wsleep" THEN "write" ELSE pc[p]]

-----------------------------------------------------------------------------
(* write() and read() *)

sys_write(p) ==
  /\ pc[p] = "user" /\ ~killed[p] /\ "w" \in hold[p]
  /\ \E n \in 1..MAXN : \E bs \in [1..n -> Bytes] : todo' = [todo EXCEPT ![p] = bs]
  /\ pc' = [pc EXCEPT ![p] = "write"]
  /\ UNCHANGED <<ringVars, endVars, want, got, killed, unannounced>>

\* Mutant: a writer that fills the pipe does not wake the readers.
FullWakes_none == pc

FullWakes == wakeup_readers

\* pipewrite() from the lock, or from its sleep, to the next sleep or return.
pipewrite(p) ==
  /\ pc[p] = "write" /\ ~Locked
  /\ LET k == Min({Len(todo[p]), Room}) IN
     /\ data' = copy_in(SubSeq(todo[p], 1, k))
     /\ nwrite' = advance(nwrite, k)
     /\ IF k = Len(todo[p])
        THEN /\ pc' = [wakeup_readers EXCEPT ![p] = "user"]
             /\ todo' = [todo EXCEPT ![p] = << >>]
             /\ unannounced' = FALSE
        ELSE IF "r" \notin open \/ killed[p]
        THEN /\ pc' = [pc EXCEPT ![p] = "user"]
             /\ todo' = [todo EXCEPT ![p] = << >>]
             /\ unannounced' = (unannounced \/ k > 0)
        ELSE /\ pc' = [FullWakes EXCEPT ![p] = "wdoze"]
             /\ todo' = [todo EXCEPT ![p] = SubSeq(@, k + 1, Len(@))]
             /\ unannounced' = FALSE
  /\ UNCHANGED <<nread, endVars, want, got, killed>>

sys_read(p) ==
  /\ pc[p] = "user" /\ ~killed[p] /\ "r" \in hold[p]
  /\ \E n \in 1..MAXN : want' = [want EXCEPT ![p] = n]
  /\ pc' = [pc EXCEPT ![p] = "read"]
  /\ UNCHANGED <<ringVars, endVars, todo, got, killed, unannounced>>

Waits == nread = nwrite /\ "w" \in open

piperead(p) ==
  /\ pc[p] = "read" /\ ~Locked
  /\ IF Waits
     THEN /\ pc' = [pc EXCEPT ![p] = IF killed[p] THEN "user" ELSE "rdoze"]
          /\ want' = [want EXCEPT ![p] = IF killed[p] THEN 0 ELSE @]
          /\ UNCHANGED <<nread, got>>
     ELSE LET k == Min({want[p], Filled}) IN
          /\ got' = copy_out(k)
          /\ nread' = advance(nread, k)
          /\ pc' = [wakeup_writers EXCEPT ![p] = "user"]
          /\ want' = [want EXCEPT ![p] = 0]
  /\ UNCHANGED <<data, nwrite, endVars, todo, killed, unannounced>>

\* sleep(): the process is SLEEPING before p->lock is free.
sleep(p) ==
  /\ pc[p] \in {"wdoze", "rdoze"}
  /\ pc' = [pc EXCEPT ![p] = IF @ = "wdoze" THEN "wsleep" ELSE "rsleep"]
  /\ UNCHANGED <<ringVars, endVars, todo, want, got, killed, unannounced>>

\* Mutant: only a reader is woken.
KillWakes_reader(p) == IF pc[p] = "rsleep" THEN "read" ELSE pc[p]

KillWakes(p) == CASE pc[p] = "wsleep" -> "write" [] pc[p] = "rsleep" -> "read" [] OTHER -> pc[p]

kill(p) ==
  /\ Locked => SMP
  /\ killed' = [killed EXCEPT ![p] = TRUE]
  /\ pc' = [pc EXCEPT ![p] = KillWakes(p)]
  /\ UNCHANGED <<ringVars, endVars, todo, want, got, unannounced>>

-----------------------------------------------------------------------------
(* fork(), close() and exit() *)

\* filedup() of every reference of p for its child q.
fork(p, q) ==
  /\ pc[p] = "user" /\ ~killed[p] /\ hold[p] # {}
  /\ pc[q] = "user" /\ hold[q] = {}
  /\ hold' = [hold EXCEPT ![q] = hold[p]]
  /\ killed' = [killed EXCEPT ![q] = FALSE]
  /\ UNCHANGED <<ringVars, open, freed, pc, todo, want, got, unannounced>>

\* Mutant: every close() closes the pipe's end.
LastReference_any(p, e) == TRUE

LastReference(p, e) == \A q \in Procs \ {p} : e \notin hold[q]

fileclose(p, e) ==
  /\ pc[p] = "user" /\ e \in hold[p]
  /\ hold' = [hold EXCEPT ![p] = @ \ {e}]
  /\ pc' = IF LastReference(p, e)
           THEN [pc EXCEPT ![p] = IF e = "r" THEN "closer" ELSE "closew"] ELSE pc
  /\ UNCHANGED <<ringVars, open, freed, todo, want, got, killed, unannounced>>

\* Mutant: the other side is not told.
CloseWakes_none(e) == pc

CloseWakes(e) == IF e = "w" THEN wakeup_readers ELSE wakeup_writers

pipeclose(p, e) ==
  /\ pc[p] = (IF e = "r" THEN "closer" ELSE "closew") /\ ~Locked
  /\ open' = open \ {e}
  /\ freed' = IF open' = {} THEN freed + 1 ELSE freed
  /\ pc' = [CloseWakes(e) EXCEPT ![p] = "user"]
  /\ UNCHANGED <<ringVars, hold, todo, want, got, killed, unannounced>>

-----------------------------------------------------------------------------
\* After pipealloc(), and after any forks and closes that leave both ends open.
Init ==
  /\ data \in [0..(PIPESIZE - 1) -> Bytes] /\ nread = 0 /\ nwrite = 0
  /\ open = Ends /\ freed = 0
  /\ hold \in [Procs -> SUBSET Ends] /\ UNION {hold[p] : p \in Procs} = Ends
  /\ pc = [p \in Procs |-> "user"]
  /\ todo = [p \in Procs |-> << >>] /\ want = [p \in Procs |-> 0] /\ got = << >>
  /\ killed = [p \in Procs |-> FALSE] /\ unannounced = FALSE

KernelStep(p) == pipewrite(p) \/ piperead(p) \/ sleep(p) \/ \E e \in Ends : pipeclose(p, e)

Next ==
  \E p \in Procs :
    \/ KernelStep(p) \/ sys_write(p) \/ sys_read(p) \/ kill(p)
    \/ \E q \in Procs : fork(p, q)
    \/ \E e \in Ends : fileclose(p, e)

Spec == Init /\ [][Next]_vars

-----------------------------------------------------------------------------
(* Properties *)

TypeOK ==
  /\ data \in [0..(PIPESIZE - 1) -> Bytes]
  /\ nread \in 0..(UINTS - 1) /\ nwrite \in 0..(UINTS - 1)
  /\ open \subseteq Ends /\ freed \in Nat
  /\ hold \in [Procs -> SUBSET Ends]
  /\ pc \in [Procs -> Places]
  /\ todo \in [Procs -> Seq(Bytes)] /\ want \in [Procs -> 0..MAXN] /\ got \in Seq(Bytes)
  /\ killed \in [Procs -> BOOLEAN] /\ unannounced \in BOOLEAN

\* The pipe is a queue: bytes come out in the order they went in, none lost or
\* repeated when the counters wrap, and a read returns nothing only when every
\* write end is closed.
Length == (nwrite - nread) % UINTS
Chan == copy_out(Length)
Channel == INSTANCE ByteChannel WITH CAPACITY <- PIPESIZE, chan <- Chan
IsChannel == Channel!Spec

\* The pipe is freed once, when no process is in a call on it or can make one.
FreedLast ==
  freed > 0 => /\ freed = 1
               /\ \A p \in Procs : pc[p] = "user" /\ hold[p] = {}

\* No lost wakeup (pipe.c:85-91, 106-111): a sleeping writer has no room and
\* may still get some; a sleeping reader may still get something, and has
\* nothing to read but what a killed writer left behind.
SleepersWait ==
  /\ TypeOK
  /\ \A p \in Procs :
       /\ pc[p] = "wsleep" => Room = 0 /\ "r" \in open
       /\ pc[p] = "rsleep" => (nread = nwrite \/ unannounced) /\ "w" \in open

\* kill() wakes a process that sleeps (proc.c:876): nobody who was killed stays
\* asleep in a pipe.
KilledAwake == \A p \in Procs : killed[p] => pc[p] \notin {"wsleep", "rsleep"}

-----------------------------------------------------------------------------
(* The inductive strengthenings: EndInv of FreedLast, KillInv of KilledAwake *)

Closing(e) == IF e = "r" THEN "closer" ELSE "closew"

\* An end is open as long as somebody has it or is about to close it, who is
\* then the last; a call on the pipe keeps its end.
EndInv ==
  /\ open \subseteq Ends /\ hold \in [Procs -> SUBSET Ends] /\ pc \in [Procs -> Places]
  /\ \A p \in Procs :
       /\ pc[p] \in {"write", "wdoze", "wsleep"} => "w" \in hold[p]
       /\ pc[p] \in {"read", "rdoze", "rsleep"} => "r" \in hold[p]
  /\ \A e \in Ends : e \in open <=> \E p \in Procs : e \in hold[p] \/ pc[p] = Closing(e)
  /\ \A e \in Ends : \A p, q \in Procs :
       pc[p] = Closing(e) => e \notin hold[q] /\ (pc[q] = Closing(e) => p = q)
  /\ freed = IF open = {} THEN 1 ELSE 0

\* On one CPU, who was killed does not go to sleep either.
KillInv ==
  /\ pc \in [Procs -> Places] /\ killed \in [Procs -> BOOLEAN]
  /\ \A p \in Procs : killed[p] => pc[p] \notin {"wsleep", "rsleep", "wdoze", "rdoze"}

\* The strengthening of SleepersWait and IsChannel.  Who is about to sleep has
\* p->lock, so that what it has seen is still so; who sleeps is woken when it changes.
SleepInv ==
  \A p \in Procs :
    /\ pc[p] \in {"read", "rdoze", "rsleep"} => want[p] > 0
    /\ pc[p] \in {"wdoze", "wsleep"} => Length = PIPESIZE /\ "r" \in open
    /\ pc[p] = "rdoze" => nread = nwrite /\ "w" \in open
    /\ pc[p] = "rsleep" => (nread = nwrite \/ unannounced) /\ "w" \in open

PipeInv == TypeOK /\ EndInv /\ Length <= PIPESIZE /\ SleepInv

-----------------------------------------------------------------------------
(***************************************************************************)
(* Fairness: system calls proceed, and a program that is not blocked gives *)
(* its ends up sooner or later, if only by exit(), which closes all files. *)
(***************************************************************************)
Fairness ==
  \A p \in Procs :
    /\ WF_vars(KernelStep(p))
    /\ \A e \in Ends : SF_vars(fileclose(p, e))

FairSpec == Spec /\ Fairness

\* Every sleep in pipewrite() or piperead() ends.
SleepsEnd == \A p \in Procs : pc[p] \in {"rsleep", "wsleep"} ~> pc[p] \notin {"rsleep", "wsleep"}
=============================================================================
