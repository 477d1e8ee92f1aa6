------------------------------ MODULE FileData ------------------------------
(***************************************************************************)
(* The blocks and bytes of files: balloc(), bfree(), bmap(), itrunc(),     *)
(* readi() and writei() of fs.c, fileread() and filewrite() of file.c, and *)
(* the files that mkfs.c makes.  A turn of the loop of writei() or         *)
(* itrunc() is a step.  A block is an array of BSIZE words that are bytes  *)
(* of a file or block numbers.                                             *)
(***************************************************************************)
EXTENDS Integers, FiniteSets, Sequences, SequencesExt

CONSTANTS
  Procs, NCALL,            \* processes, and how many calls each may make
  Inums, Files,            \* inodes, and entries of the file table
  NBLOCK,                  \* data blocks 1..NBLOCK
  BSIZE, NDIRECT, BPB,     \* words of a block, direct blocks, bits of a bitmap block
  MAXOPBLOCKS,
  Sizes,                   \* arguments of read() and write()
  Made                     \* sizes of the file that mkfs makes

Blocks == 1..NBLOCK
NINDIRECT == BSIZE
MAXFILE == NDIRECT + NINDIRECT
Zero == [k \in 0..(BSIZE - 1) |-> 0]

VARIABLES
  used,     \* the bitmap
  blk,      \* the contents of the blocks
  dinode,   \* the inodes on disk
  inode,    \* the inodes in memory, with their locks
  safe,     \* what is committed: <<used, blk, dinode, text>>
  file,     \* open files: inode and offset
  proc,     \* the registers of each process
  text      \* history: the bytes that were written to each file

vars == <<used, blk, dinode, inode, safe, file, proc, text>>

NoInode == [type |-> 0, size |-> 0, addrs |-> [k \in 0..NDIRECT |-> 0]]
NoFile == [ip |-> 0, off |-> 0]
\* n: what is left to write; n1: bytes of this transaction, of which tot are done;
\* logged: the blocks that it has given to log_write(); calls: how many are left
Idle == [pc |-> "user", f |-> 0, ip |-> 0, n |-> 0, n1 |-> 0, tot |-> 0, ret |-> 0,
         op |-> FALSE, logged |-> {}, calls |-> NCALL]

Owner(i) == inode[i].owner
Least(S) == CHOOSE x \in S : \A y \in S : x <= y
min(a, b) == IF a < b THEN a ELSE b
Becomes(p, r) == proc' = [proc EXCEPT ![p] = r]
Return(p, ret) == Becomes(p, [Idle EXCEPT !.ret = ret, !.calls = proc[p].calls])
Panic(p, why) == Becomes(p, [Idle EXCEPT !.pc = why])

-----------------------------------------------------------------------------
(* Blocks.  The state of a step is a record s of used, blk, addrs (of the inode it *)
(* is about), logged, and addr: the block it has found, 0 if the disk is full.     *)

Bitmap(b) == <<"bitmap", b \div BPB>>

balloc(s) ==
  LET b == Least(Blocks \ s.used) IN
  IF Blocks \ s.used = {} THEN [s EXCEPT !.addr = 0]
  ELSE [s EXCEPT !.used = @ \cup {b}, !.blk[b] = Zero, !.addr = b,
                 !.logged = @ \cup {Bitmap(b), <<"block", b>>}]

\* A direct block, or the indirect block.
direct(s, k) ==
  IF s.addrs[k] # 0 THEN [s EXCEPT !.addr = s.addrs[k]]
  ELSE LET t == balloc(s) IN [t EXCEPT !.addrs[k] = t.addr]

\* Mutant: the block number is not entered into the indirect block.
indirect_lost(s, k) ==
  LET ind == s.addr IN
  IF ind = 0 THEN s
  ELSE IF s.blk[ind][k] # 0 THEN [s EXCEPT !.addr = s.blk[ind][k]]
  ELSE balloc(s)

indirect(s, k) ==
  LET ind == s.addr IN
  IF ind = 0 THEN s
  ELSE IF s.blk[ind][k] # 0 THEN [s EXCEPT !.addr = s.blk[ind][k]]
  ELSE LET t == balloc(s) IN
       [t EXCEPT !.blk[ind][k] = t.addr, !.logged = @ \cup {<<"block", ind>>}]

bmap(s, bn) == IF bn < NDIRECT THEN direct(s, bn) ELSE indirect(direct(s, NDIRECT), bn - NDIRECT)

\* The block numbers of an inode, by position in the file.
Addr(b, ino, bn) == IF bn < NDIRECT THEN ino.addrs[bn] ELSE b[ino.addrs[NDIRECT]][bn - NDIRECT]

\* The places 0..MAXFILE of block numbers in the order of itrunc(): the indirect block is last.
Slot(b, ino, k) == IF k = MAXFILE THEN ino.addrs[NDIRECT]
                   ELSE IF k >= NDIRECT /\ ino.addrs[NDIRECT] = 0 THEN 0 ELSE Addr(b, ino, k)

\* readi() of n bytes at off; n is cut at the end of the file.
Cut(ino, off, n) == min(n, ino.size - off)
readi(b, ino, off, n) ==
  [k \in 1..n |-> b[Addr(b, ino, (off + k - 1) \div BSIZE)][(off + k - 1) % BSIZE]]

-----------------------------------------------------------------------------
(* mkfs.c *)

\* iappend() of one byte.
iappend(s, byte) ==
  LET fbn == s.size \div BSIZE
      Next0(t) == [t EXCEPT !.freeblock = @ + 1]
      d == IF fbn < NDIRECT THEN fbn ELSE NDIRECT
      t == IF s.addrs[d] # 0 THEN s ELSE [Next0(s) EXCEPT !.addrs[d] = s.freeblock]
      ind == t.addrs[NDIRECT]
      u == IF fbn < NDIRECT \/ t.blk[ind][fbn - NDIRECT] # 0 THEN t
           ELSE [Next0(t) EXCEPT !.blk[ind][fbn - NDIRECT] = t.freeblock]
      x == Addr(u.blk, u, fbn)
  IN  [u EXCEPT !.blk[x][s.size % BSIZE] = byte, !.size = @ + 1]

\* A file of these bytes on an empty disk.
mkfs(bytes) ==
  FoldLeft(iappend, [freeblock |-> 1, size |-> 0, addrs |-> NoInode.addrs, blk |-> [b \in Blocks |-> Zero]], bytes)

-----------------------------------------------------------------------------
(* Transactions *)

Outstanding(p) == \E q \in Procs \ {p} : proc[q].op

\* end_op(): the last operation commits everything; d and t are the new inodes and texts.
end_op(p, d, t) == safe' = IF Outstanding(p) THEN safe ELSE <<used, blk, d, t>>

-----------------------------------------------------------------------------
(* read() and write() *)

Call(p) == proc[p].pc = "user" /\ proc[p].calls > 0
Begin(p) == [Idle EXCEPT !.calls = proc[p].calls - 1]

\* Bytes written by p are p's.
sys_write(p, f, n) ==
  /\ Call(p) /\ file[f].ip # 0
  /\ Becomes(p, [Begin(p) EXCEPT !.pc = "chunk", !.f = f, !.ip = file[f].ip, !.n = n, !.ret = n])
  /\ UNCHANGED <<used, blk, dinode, inode, safe, file, text>>

\* Mutant: a block more.
max_more == ((MAXOPBLOCKS - 1 - 2) \div 2 + 1) * BSIZE

max == ((MAXOPBLOCKS - 1 - 1 - 2) \div 2) * BSIZE

TooLong(end) == end > MAXFILE * BSIZE

\* A turn of filewrite() begins with begin_op(); or it is done.
filewrite(p) ==
  LET r == proc[p] IN
  /\ r.pc = "chunk"
  /\ IF r.n = 0 THEN Return(p, r.ret)
     ELSE Becomes(p, [r EXCEPT !.pc = "ilock", !.n1 = min(r.n, max), !.tot = 0, !.op = TRUE])
  /\ UNCHANGED <<used, blk, dinode, inode, safe, file, text>>

\* ilock() and the tests of writei(): it fails, or goes into its loop.
writei_begin(p) ==
  LET r == proc[p]
      off == file[r.f].off
  IN
  /\ r.pc = "ilock" /\ Owner(r.ip) = 0
  /\ IF off > inode[r.ip].size \/ TooLong(off + r.n1)
     THEN Return(p, -1) /\ end_op(p, dinode, text) /\ UNCHANGED inode
     ELSE /\ inode' = [inode EXCEPT ![r.ip].owner = p]
          /\ Becomes(p, [r EXCEPT !.pc = "writei"])
          /\ UNCHANGED safe
  /\ UNCHANGED <<used, blk, dinode, file, text>>

Work(p) == [used |-> used, blk |-> blk, addrs |-> inode[proc[p].ip].addrs,
            logged |-> proc[p].logged, addr |-> 0]

\* Mutant: the copy begins at the start of the block.
Place_start(off, k) == k

Place(off, k) == (off % BSIZE) + k

iupdate(i, ino) == [dinode EXCEPT ![i] = [type |-> ino.type, size |-> ino.size, addrs |-> ino.addrs]]

OutOfBlocks == "balloc: out of blocks"

\* A turn of the loop of writei(): one block; after the last one the new size.
writei(p) ==
  LET r == proc[p]
      off == file[r.f].off + r.tot
      s == bmap(Work(p), off \div BSIZE)
      m == min(r.n1 - r.tot, BSIZE - (off % BSIZE))
      grow == r.tot + m = r.n1 /\ off + m > inode[r.ip].size
      ino == [inode[r.ip] EXCEPT !.addrs = s.addrs, !.size = IF grow THEN off + m ELSE @]
  IN
  /\ r.pc = "writei" /\ r.tot < r.n1
  /\ IF off \div BSIZE >= MAXFILE
     THEN Panic(p, "bmap: out of range") /\ UNCHANGED <<used, blk, inode, dinode>>
     ELSE IF s.addr = 0
     THEN Panic(p, OutOfBlocks) /\ UNCHANGED <<used, blk, inode, dinode>>
     ELSE /\ used' = s.used
          /\ blk' = [s.blk EXCEPT ![s.addr] = [k \in DOMAIN @ |->
                       IF k \in {Place(off, j) : j \in 0..(m - 1)} THEN p ELSE @[k]]]
          /\ inode' = [inode EXCEPT ![r.ip] = ino]
          /\ dinode' = IF grow THEN iupdate(r.ip, ino) ELSE dinode
          /\ Becomes(p, [r EXCEPT !.tot = @ + m,
                !.logged = s.logged \cup {<<"block", s.addr>>} \cup (IF grow THEN {<<"inode", r.ip>>} ELSE {})])
  /\ UNCHANGED <<safe, file, text>>

\* What the file holds after n of p's bytes at off.
Overwrite(t, off, n, p) ==
  [k \in 1..(IF off + n > Len(t) THEN off + n ELSE Len(t)) |-> IF k > off /\ k <= off + n THEN p ELSE t[k]]

\* The rest of the turn: the offset, iunlock() and end_op().
write_end(p) ==
  LET r == proc[p] IN
  /\ r.pc = "writei" /\ r.tot = r.n1
  /\ inode' = [inode EXCEPT ![r.ip].owner = 0]
  /\ file' = [file EXCEPT ![r.f].off = @ + r.n1]
  /\ text' = [text EXCEPT ![r.ip] = Overwrite(@, file[r.f].off, r.n1, p)]
  /\ UNCHANGED <<used, blk, dinode>>
  /\ end_op(p, dinode, text')
  /\ Becomes(p, [r EXCEPT !.pc = "chunk", !.n = @ - r.n1, !.op = FALSE, !.logged = {}])

\* fileread(): under the lock nobody else changes the file.
fileread(p, f, n) ==
  LET i == file[f].ip IN
  /\ Call(p) /\ i # 0 /\ Owner(i) = 0
  /\ IF file[f].off > inode[i].size THEN Becomes(p, [Begin(p) EXCEPT !.ret = -1]) /\ UNCHANGED file
     ELSE LET m == Cut(inode[i], file[f].off, n) IN
          /\ Becomes(p, [Begin(p) EXCEPT !.ret = m])
          /\ file' = [file EXCEPT ![f].off = @ + m]
  /\ UNCHANGED <<used, blk, dinode, inode, safe, text>>

-----------------------------------------------------------------------------
(* open() and close() *)

Opened(i) == {f \in Files : file[f].ip = i}

\* open() of an inode, which create() makes in an operation of its own if it is free.
open(p, f, i) ==
  /\ Call(p) /\ file[f].ip = 0 /\ Owner(i) = 0
  /\ file' = [file EXCEPT ![f] = [ip |-> i, off |-> 0]]
  /\ inode' = [inode EXCEPT ![i].type = 1]
  /\ dinode' = IF inode[i].type = 0 THEN iupdate(i, inode'[i]) ELSE dinode
  /\ UNCHANGED <<used, blk, text>>
  /\ end_op(p, dinode', text)
  /\ Becomes(p, Begin(p))

\* close(): the last one of a file that has been unlinked truncates it.
close(p, f, unlinked) ==
  LET i == file[f].ip IN
  /\ Call(p) /\ i # 0 /\ \A q \in Procs : proc[q].f # f
  /\ file' = [file EXCEPT ![f] = NoFile]
  /\ IF unlinked /\ Opened(i) = {f}
     THEN /\ Owner(i) = 0
          /\ inode' = [inode EXCEPT ![i].owner = p]
          /\ Becomes(p, [Begin(p) EXCEPT !.pc = "itrunc", !.ip = i, !.op = TRUE])
     ELSE Becomes(p, Begin(p)) /\ UNCHANGED inode
  /\ UNCHANGED <<used, blk, dinode, safe, text>>

\* Mutant: the indirect block itself is kept.
ToFree_data(i, k) == {j \in k..(MAXFILE - 1) : Slot(blk, inode[i], j) # 0}

\* What itrunc() has yet to free.
ToFree(i, k) == {j \in k..MAXFILE : Slot(blk, inode[i], j) # 0}

\* A turn of the loops of itrunc(); tot is how far it is.
itrunc(p) ==
  LET r == proc[p]
      i == r.ip
      k == Least(ToFree(i, r.tot))
      b == Slot(blk, inode[i], k)
      a == IF k = MAXFILE THEN NDIRECT ELSE k
  IN
  /\ r.pc = "itrunc" /\ ToFree(i, r.tot) # {}
  /\ IF b \notin used THEN Panic(p, "freeing free block") /\ UNCHANGED <<used, inode>>
     ELSE /\ used' = used \ {b}
          /\ inode' = IF k < NDIRECT \/ k = MAXFILE THEN [inode EXCEPT ![i].addrs[a] = 0] ELSE inode
          /\ Becomes(p, [r EXCEPT !.tot = k + 1, !.logged = @ \cup {Bitmap(b)}])
  /\ UNCHANGED <<blk, dinode, safe, file, text>>

\* The rest of iput(): the inode is free, too.
iput(p) ==
  LET r == proc[p]
      ino == [inode[r.ip] EXCEPT !.type = 0, !.size = 0, !.owner = 0]
  IN
  /\ r.pc = "itrunc" /\ ToFree(r.ip, r.tot) = {}
  /\ inode' = [inode EXCEPT ![r.ip] = ino]
  /\ dinode' = iupdate(r.ip, ino)
  /\ text' = [text EXCEPT ![r.ip] = << >>]
  /\ UNCHANGED <<used, blk, file>>
  /\ end_op(p, dinode', text')
  /\ Return(p, 0)

-----------------------------------------------------------------------------

\* The machine after a crash: recovery has installed what was committed.
InMemory(d) == [i \in Inums |-> [type |-> d[i].type, size |-> d[i].size, addrs |-> d[i].addrs, owner |-> 0]]

crash ==
  /\ used' = safe[1] /\ blk' = safe[2] /\ dinode' = safe[3] /\ text' = safe[4]
  /\ inode' = InMemory(safe[3])
  /\ file' = [f \in Files |-> NoFile]
  /\ proc' = [p \in Procs |-> [Idle EXCEPT !.calls = proc[p].calls]]
  /\ UNCHANGED safe

\* Inode 1 is a file that mkfs has made, the others are new; file f is inode f, opened.
Byte == 100
Init ==
  \E n \in Made :
    LET m == mkfs([k \in 1..n |-> Byte])
        first == [type |-> 1, size |-> m.size, addrs |-> m.addrs]
    IN
    /\ used = 1..(m.freeblock - 1) /\ blk = m.blk
    /\ dinode = [i \in Inums |-> IF i = 1 THEN first ELSE [NoInode EXCEPT !.type = 1]]
    /\ text = [i \in Inums |-> IF i = 1 THEN [k \in 1..n |-> Byte] ELSE << >>]
    /\ inode = InMemory(dinode) /\ safe = <<used, blk, dinode, text>>
    /\ file = [f \in Files |-> [ip |-> f, off |-> 0]] /\ proc = [p \in Procs |-> Idle]

Running == \A p \in Procs : proc[p].pc \in {"user", "chunk", "ilock", "writei", "itrunc"}

\* After a panic the machine can only be started again.
Next ==
  \/ /\ Running
     /\ \/ \E p \in Procs, f \in Files :
             \/ \E n \in Sizes : sys_write(p, f, n) \/ fileread(p, f, n)
             \/ \E i \in Inums : open(p, f, i)
             \/ \E u \in BOOLEAN : close(p, f, u)
        \/ \E p \in Procs :
             \/ filewrite(p) \/ writei_begin(p) \/ writei(p) \/ write_end(p)
             \/ itrunc(p) \/ iput(p)
  \/ crash

Spec == Init /\ [][Next]_vars

-----------------------------------------------------------------------------
(* Properties *)

\* Where itrunc() is in an inode that it truncates.
Freed(i) == IF \E p \in Procs : proc[p].pc = "itrunc" /\ proc[p].ip = i
            THEN proc[CHOOSE p \in Procs : proc[p].pc = "itrunc" /\ proc[p].ip = i].tot ELSE 0

Exact(u, refs) ==
  /\ \A x, y \in refs : x[3] = y[3] => x = y
  /\ {x[3] : x \in refs} = u

References(b, ino, from) ==
  {x \in UNION {{<<i, k, Slot(b, ino[i], k)>> : k \in from[i]..MAXFILE} : i \in Inums} : x[3] # 0}

\* Every block that is marked in the bitmap belongs to one place of one file, and
\* no other block does: balloc() and bfree() of several processes, bmap(), itrunc()
\* and mkfs agree on who owns what.  No file has a hole, so that readi() allocates
\* nothing outside a transaction, and the panics "bmap: out of range", "freeing free
\* block" and "short filewrite" are not reached; "balloc: out of blocks" is, when the
\* disk is full.
BlocksExact ==
  (\A p \in Procs : proc[p].pc # OutOfBlocks) =>
  /\ Running
  /\ Exact(used, References(blk, inode, [i \in Inums |-> Freed(i)]))
  /\ \A i \in Inums : Owner(i) = 0 =>
       \A k \in 0..(MAXFILE - 1) : Slot(blk, inode[i], k) # 0 <=> k * BSIZE < inode[i].size

\* A crash at any moment leaves a disk on which this holds of the inodes on disk.
ImageExact == Exact(safe[1], References(safe[2], safe[3], [i \in Inums |-> 0]))

\* A file holds what was written to it, transaction by transaction, in the order in
\* which the transactions ended: chunks of several writers do not mix, although they
\* share the offset and the disk, and a crash loses whole transactions only.  The
\* inode on disk agrees, although writei() writes it only when the size changes.
ReadBack ==
  \A i \in Inums : Owner(i) = 0 =>
    /\ readi(blk, inode[i], 0, inode[i].size) = text[i]
    /\ inode[i].size = dinode[i].size /\ inode[i].addrs = dinode[i].addrs /\ inode[i].type = dinode[i].type

\* "write a few blocks at a time to avoid exceeding the maximum log transaction size"
\* (file.c): a transaction of write(), or of the truncation in close(), logs fewer
\* blocks than begin_op() reserves for it, which is what ReservationSuffices of
\* LogProofs asks for.  The bitmap is one block, as FSSIZE bits are.
FitsReservation == \A p \in Procs : Cardinality(proc[p].logged) < MAXOPBLOCKS
=============================================================================
