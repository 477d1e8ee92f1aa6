------------------------------- MODULE Inodes -------------------------------
(***************************************************************************)
(* The inode cache, directories and path lookup of fs.c.  A step begins    *)
(* when an inode's sleep lock is taken and ends before the next lock is:   *)
(* what happens under a lock is seen by nobody else, except the counts of  *)
(* icache.lock and the free inodes of ialloc(), which have steps of their  *)
(* own.  Bytes and blocks are in FileData; here a directory is a set of    *)
(* entries <<name, inode, slot>> and a file a set with at most one value.  *)
(* A transaction is the one Log implements: it is on disk when the last    *)
(* operation ends.                                                         *)
(***************************************************************************)
EXTENDS Integers, Sequences, FiniteSets

CONSTANTS
  Procs,
  NINODES,   \* sb.ninodes - 1: the inodes are 1..NINODES
  NINODE     \* entries of icache

ROOTINO == 1
DIRSIZ == 14
Inums == 1..NINODES
T_DIR == 1
T_FILE == 2
T_DEV == 3

VARIABLES
  dinode,   \* the inodes in the blocks of the current transaction
  data,     \* their contents
  safe,     \* <<dinode, data>> as committed
  icache,   \* by inode number; an entry is free if its ref is 0
  cwd,
  proc      \* the registers of each process in the kernel

fsVars == <<dinode, data, safe, icache, cwd, proc>>

\* pc: where it is       call: the system call      ret: its result
\* ip, dp: the variables of these names, 0 if none  path: what namex() has left
\* par: nameiparent()    then, else: where the call goes on after namex()
\* put: the inodes to iput() before it goes on      at: where iput() is
\* op: between begin_op() and end_op()              files: taken, not yet in ofile
Idle == [pc |-> "user", call |-> << >>, ret |-> 0, ip |-> 0, dp |-> 0, path |-> << >>,
         par |-> FALSE, then |-> "user", else |-> "fail", put |-> << >>, at |-> "lock",
         op |-> FALSE, files |-> << >>]

Pc(p) == proc[p].pc
Ready(p, l) == Pc(p) = l /\ proc[p].put = << >>
Owner(i) == icache[i].owner
Panic(p, why) == [proc EXCEPT ![p].pc = "panic", ![p].call = <<why>>]
Least(S) == CHOOSE x \in S : \A y \in S : x <= y

\* dirlookup() goes through the slots and takes the first that has the name.
Entry(d, n) == {e \in data[d] : e[1] = n /\ \A x \in data[d] : x[1] = n => e[3] <= x[3]}
Lookup(d, n) == {e[2] : e \in Entry(d, n)}

-----------------------------------------------------------------------------
(* The cache; each of these gives the new icache *)

\* iget() and idup(): find or recycle an entry.
iget(ic, i) ==
  [ic EXCEPT ![i] = IF @.ref > 0 THEN [@ EXCEPT !.ref = @ + 1]
                    ELSE [@ EXCEPT !.ref = 1, !.valid = FALSE]]
Full(ic, i) == ic[i].ref = 0 /\ Cardinality({j \in Inums : ic[j].ref > 0}) >= NINODE

Stale(i) == ~icache[i].valid

\* The part of ilock() after acquiresleep().
NoType(i) == Stale(i) /\ dinode[i].type = 0
CanLock(i) == i # 0 /\ Owner(i) = 0 /\ ~NoType(i)
ilock(p, i) ==
  [icache EXCEPT ![i] = [IF Stale(i) THEN [@ EXCEPT !.valid = TRUE, !.type = dinode[i].type,
                                                    !.nlink = dinode[i].nlink]
                         ELSE @ EXCEPT !.owner = p]]
iunlock(ic, i) == [ic EXCEPT ![i].owner = 0]

iupdate(ic, i) == [dinode EXCEPT ![i] = [type |-> ic[i].type, nlink |-> ic[i].nlink]]

-----------------------------------------------------------------------------
(* iput() *)

\* Mutant: other references are not looked at.
LastRef_any(i) == TRUE

LastRef(i) == icache[i].ref = 1

\* Mutant: the reference is kept.
unref_none(i) == icache

unref(i) == [icache EXCEPT ![i].ref = @ - 1]

\* acquiresleep(), the test, and releasesleep() unless the inode is freed.
iput(p) ==
  LET i == Head(proc[p].put)
      free == icache[i].valid /\ icache[i].nlink = 0 /\ LastRef(i)
  IN
  /\ proc[p].put # << >> /\ proc[p].at = "lock" /\ Owner(i) = 0
  /\ proc' = [proc EXCEPT ![p].at = IF free THEN "free" ELSE "unref"]
  /\ icache' = [icache EXCEPT ![i].owner = IF free THEN p ELSE 0]
  /\ UNCHANGED <<dinode, data, safe, cwd>>

\* itrunc() and the update of the disk.
iput_free(p) ==
  LET i == Head(proc[p].put) IN
  /\ proc[p].put # << >> /\ proc[p].at = "free"
  /\ data' = [data EXCEPT ![i] = {}]
  /\ icache' = [icache EXCEPT ![i].type = 0]
  /\ dinode' = iupdate(icache', i)
  /\ proc' = [proc EXCEPT ![p].at = "clear"]
  /\ UNCHANGED <<safe, cwd>>

\* valid = 0 and releasesleep(); ialloc() may have taken the inode again.
iput_clear(p) ==
  LET i == Head(proc[p].put) IN
  /\ proc[p].put # << >> /\ proc[p].at = "clear"
  /\ icache' = [icache EXCEPT ![i].valid = FALSE, ![i].owner = 0]
  /\ proc' = [proc EXCEPT ![p].at = "unref"]
  /\ UNCHANGED <<dinode, data, safe, cwd>>

iput_unref(p) ==
  /\ proc[p].put # << >> /\ proc[p].at = "unref"
  /\ icache' = unref(Head(proc[p].put))
  /\ proc' = [proc EXCEPT ![p].put = Tail(@), ![p].at = "lock"]
  /\ UNCHANGED <<dinode, data, safe, cwd>>

-----------------------------------------------------------------------------
(* Directories and namex() *)

\* Mutant: a name may be entered twice.
Taken_never(d, n) == {}

\* The lookup with which dirlink() begins.
Taken(d, n) == Lookup(d, n)

\* Its second half: the first slot that is not in use, or a new one at the end.
dirlink(d, n, i) ==
  data[d] \cup {<<n, i, Least({k \in 0..Cardinality(data[d]) : \A e \in data[d] : e[3] # k})>>}

\* A path is a sequence of names, after "/" if it is absolute; skipelem() keeps
\* DIRSIZ bytes of each.
skipelem(n) == IF Len(n) >= DIRSIZ THEN SubSeq(n, 1, DIRSIZ) ELSE n
Elements(path) ==
  LET names == IF path # << >> /\ Head(path) = "/" THEN Tail(path) ELSE path
  IN  [k \in DOMAIN names |-> skipelem(names[k])]
Start(p, path) == IF path # << >> /\ Head(path) = "/" THEN ROOTINO ELSE cwd[p]

\* The registers when namex(path, par) begins.
namex_begin(p, r, path, par, then, else) ==
  LET s == [r EXCEPT !.path = Elements(path), !.par = par, !.then = then, !.else = else]
      start == Start(p, path)
  IN  IF par /\ Elements(path) = << >> THEN [s EXCEPT !.pc = else, !.put = <<start>>]
      ELSE IF par THEN [s EXCEPT !.pc = "namex", !.dp = start]
      ELSE [s EXCEPT !.pc = IF Elements(path) = << >> THEN then ELSE "namex", !.ip = start]

\* One turn of the loop.  The inode it stands on is ip, or dp for nameiparent().
namex(p) ==
  LET r == proc[p]
      i == IF r.par THEN r.dp ELSE r.ip
      name == Head(r.path)
      ic == iunlock(ilock(p, i), i)
      At(s, j) == IF r.par THEN [s EXCEPT !.dp = j] ELSE [s EXCEPT !.ip = j]
      next == Lookup(i, name)
  IN
  /\ Ready(p, "namex") /\ CanLock(i)
  /\ IF ic[i].type = T_DIR /\ r.par /\ Len(r.path) = 1
     THEN icache' = ic /\ proc' = [proc EXCEPT ![p].pc = r.then]
     ELSE IF ic[i].type # T_DIR \/ next = {}
     THEN icache' = ic /\ proc' = [proc EXCEPT ![p] = [At(r, 0) EXCEPT !.pc = r.else, !.put = <<i>>]]
     ELSE \E j \in next :
            IF Full(ic, j)
            THEN icache' = ic /\ proc' = Panic(p, "iget: no inodes")
            ELSE /\ icache' = iget(ic, j)
                 /\ proc' = [proc EXCEPT ![p] =
                      [At(r, j) EXCEPT !.path = Tail(@), !.put = <<i>>,
                                       !.pc = IF Len(r.path) = 1 THEN r.then ELSE "namex"]]
  /\ UNCHANGED <<dinode, data, safe, cwd>>
=============================================================================
