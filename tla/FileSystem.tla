----------------------------- MODULE FileSystem -----------------------------
(***************************************************************************)
(* The system calls of sysfile.c on paths and descriptors, the file table  *)
(* of file.c, and what fork() and exit() do with files.  Every call runs   *)
(* inside begin_op() and end_op(); a crash takes the disk back to the last *)
(* commit.                                                                 *)
(***************************************************************************)
EXTENDS Inodes

CONSTANTS
  NFILE, NOFILE,
  Calls      \* the system calls of user programs, <<name, arguments...>>

VARIABLES
  file,      \* ftable.file; ip is 0 for FD_NONE
  ofile      \* file descriptors of each process, 0 if closed

vars == <<fsVars, file, ofile>>

Fds == 0..(NOFILE - 1)
Files == 1..NFILE
FD_PIPE == -1   \* in the place of an inode
NoFile == [ref |-> 0, ip |-> 0, readable |-> FALSE, writable |-> FALSE]

Then(p, r) == proc' = [proc EXCEPT ![p] = r]
Fail(r) == [r EXCEPT !.pc = "fail"]
End(r, ret) == [r EXCEPT !.pc = "end", !.ret = ret]

-----------------------------------------------------------------------------
(* Calls on paths *)

Parent == {"create", "mkdir", "mknod", "unlink"}
First(op) == IF op \in {"create", "mkdir", "mknod"} THEN "create" ELSE op

sys_path(p, c) ==
  LET i == Start(p, c[2])
      r == [Idle EXCEPT !.call = c, !.op = TRUE]
  IN
  /\ Ready(p, "user") /\ c[1] \in Parent \cup {"open", "link", "chdir", "exec"}
  /\ IF Full(icache, i) THEN proc' = Panic(p, "iget: no inodes") /\ UNCHANGED icache
     ELSE /\ icache' = iget(icache, i)
          /\ Then(p, namex_begin(p, r, c[2], c[1] \in Parent, First(c[1]), "fail"))
  /\ UNCHANGED <<dinode, data, safe, cwd, file, ofile>>

\* create(), first half: the parent directory is locked.
Type(op) == CASE op = "create" -> T_FILE [] op = "mkdir" -> T_DIR [] op = "mknod" -> T_DEV

\* Mutant: the name is not looked up again under the lock.
Exists_never(d, n) == {}

Exists(d, n) == Lookup(d, n)

create(p) ==
  LET r == proc[p]
      d == r.dp
      ic == ilock(p, d)
      found == Exists(d, Head(r.path))
      free == {i \in Inums : dinode[i].type = 0}
  IN
  /\ Ready(p, "create") /\ CanLock(d)
  /\ IF found # {}
     THEN \E i \in found :
            /\ IF Full(ic, i) THEN proc' = Panic(p, "iget: no inodes") /\ UNCHANGED icache
               ELSE /\ icache' = iget(iunlock(ic, d), i)
                    /\ Then(p, [r EXCEPT !.pc = "exists", !.ip = i, !.dp = 0, !.put = <<d>>])
            /\ UNCHANGED <<dinode, data>>
     ELSE IF free = {} \/ Full(ic, Least(free))
     THEN /\ proc' = Panic(p, IF free = {} THEN "ialloc: no inodes" ELSE "iget: no inodes")
          /\ UNCHANGED <<dinode, data, icache>>
     ELSE LET i == Least(free) IN
          /\ dinode' = [dinode EXCEPT ![i] = [type |-> Type(r.call[1]), nlink |-> 0]]
          /\ data' = [data EXCEPT ![i] = {}]
          /\ icache' = iget(ic, i)
          /\ Then(p, [r EXCEPT !.pc = "fill", !.ip = i])
  /\ UNCHANGED <<safe, cwd, file, ofile>>

\* Second half: the new inode is locked, too, and linked.
fill(p) ==
  LET r == proc[p]
      d == r.dp
      i == r.ip
      dir == Type(r.call[1]) = T_DIR
      ic == [ilock(p, i) EXCEPT ![i].nlink = 1, ![d].nlink = IF dir THEN @ + 1 ELSE @]
  IN
  /\ Ready(p, "fill") /\ CanLock(i)
  /\ IF Taken(d, Head(r.path)) # {}
     THEN proc' = Panic(p, "create: dirlink") /\ UNCHANGED <<dinode, data, icache>>
     ELSE /\ icache' = iunlock(ic, d)
          /\ dinode' = [dinode EXCEPT ![i].nlink = 1, ![d].nlink = ic[d].nlink]
          /\ data' = [data EXCEPT ![d] = dirlink(d, Head(r.path), i),
                                  ![i] = IF dir THEN {<<".", i, 0>>, <<"..", d, 1>>} ELSE {}]
          /\ Then(p, [r EXCEPT !.pc = "opened", !.dp = 0, !.put = <<d>>])
  /\ UNCHANGED <<safe, cwd, file, ofile>>

\* create() of what is there already: open() takes a file, the others fail.
exists(p) ==
  LET r == proc[p]
      ic == ilock(p, r.ip)
  IN
  /\ Ready(p, "exists") /\ CanLock(r.ip)
  /\ IF r.call[1] = "create" /\ ic[r.ip].type = T_FILE
     THEN icache' = ic /\ Then(p, [r EXCEPT !.pc = "opened"])
     ELSE icache' = iunlock(ic, r.ip) /\ Then(p, [Fail(r) EXCEPT !.ip = 0, !.put = <<r.ip>>])
  /\ UNCHANGED <<dinode, data, safe, cwd, file, ofile>>

open(p) ==
  LET r == proc[p]
      ic == ilock(p, r.ip)
  IN
  /\ Ready(p, "open") /\ CanLock(r.ip)
  /\ IF ic[r.ip].type = T_DIR /\ r.call[3] # "r"
     THEN icache' = iunlock(ic, r.ip) /\ Then(p, [Fail(r) EXCEPT !.ip = 0, !.put = <<r.ip>>])
     ELSE icache' = ic /\ Then(p, [r EXCEPT !.pc = "opened"])
  /\ UNCHANGED <<dinode, data, safe, cwd, file, ofile>>

\* The rest of open(), mkdir() and mknod(), which hold the inode's lock: open()
\* takes a file, ...
opened(p) ==
  LET r == proc[p]
      done == [r EXCEPT !.ip = 0, !.put = <<r.ip>>]
      free == {f \in Files : file[f].ref = 0}
  IN
  /\ Ready(p, "opened")
  /\ IF r.call[1] \in {"mkdir", "mknod"} \/ free = {}
     THEN /\ Then(p, IF r.call[1] \in {"mkdir", "mknod"} THEN End(done, 0) ELSE Fail(done))
          /\ icache' = iunlock(icache, r.ip)
          /\ UNCHANGED file
     ELSE /\ Then(p, [r EXCEPT !.pc = "fdalloc", !.files = <<Least(free)>>])
          /\ file' = [file EXCEPT ![Least(free)].ref = 1]
          /\ UNCHANGED icache
  /\ UNCHANGED <<dinode, data, safe, cwd, ofile>>

\* ... then a descriptor, and gives the file back if there is none.
fdalloc(p) ==
  LET r == proc[p]
      f == Head(r.files)
      done == [r EXCEPT !.ip = 0, !.files = << >>]
      fds == {fd \in Fds : ofile[p][fd] = 0}
  IN
  /\ Ready(p, "fdalloc")
  /\ icache' = iunlock(icache, r.ip)
  /\ IF fds = {}
     THEN /\ file' = [file EXCEPT ![f] = NoFile]
          /\ Then(p, [Fail(done) EXCEPT !.put = <<r.ip>>])
          /\ UNCHANGED ofile
     ELSE /\ file' = [file EXCEPT ![f] = [ref |-> 1, ip |-> r.ip, readable |-> r.call[3] # "w",
                                          writable |-> r.call[3] # "r"]]
          /\ ofile' = [ofile EXCEPT ![p][Least(fds)] = f]
          /\ Then(p, End(done, Least(fds)))
  /\ UNCHANGED <<dinode, data, safe, cwd>>

-----------------------------------------------------------------------------
(* unlink() *)

unlink(p) ==
  LET r == proc[p]
      d == r.dp
      ic == ilock(p, d)
      found == Lookup(d, Head(r.path))
  IN
  /\ Ready(p, "unlink") /\ CanLock(d)
  /\ IF Head(r.path) \in {".", ".."} \/ found = {}
     THEN icache' = iunlock(ic, d) /\ Then(p, [Fail(r) EXCEPT !.dp = 0, !.put = <<d>>])
     ELSE \E i \in found :
            IF Full(ic, i) THEN proc' = Panic(p, "iget: no inodes") /\ UNCHANGED icache
            ELSE icache' = iget(ic, i) /\ Then(p, [r EXCEPT !.pc = "victim", !.ip = i])
  /\ UNCHANGED <<dinode, data, safe, cwd, file, ofile>>

\* Mutant: a directory is removed with what is in it.
isdirempty_always(i) == TRUE

isdirempty(i) == \A e \in data[i] : e[1] \in {".", ".."}

\* Both are locked; the entry goes.
victim(p) ==
  LET r == proc[p]
      d == r.dp
      i == r.ip
      ic == ilock(p, i)
      dir == ic[i].type = T_DIR
  IN
  /\ Ready(p, "victim") /\ CanLock(i)
  /\ IF ic[i].nlink < 1
     THEN proc' = Panic(p, "unlink: nlink < 1") /\ UNCHANGED <<dinode, data, icache>>
     ELSE IF dir /\ ~isdirempty(i)
     THEN /\ icache' = iunlock(ic, i)
          /\ Then(p, [r EXCEPT !.pc = "unlock", !.else = "fail", !.ip = 0, !.put = <<i>>])
          /\ UNCHANGED <<dinode, data>>
     ELSE /\ icache' = [ic EXCEPT ![d].nlink = IF dir THEN @ - 1 ELSE @, ![d].owner = 0]
          /\ dinode' = [dinode EXCEPT ![d].nlink = icache'[d].nlink]
          /\ data' = [data EXCEPT ![d] = @ \ Entry(d, Head(r.path))]
          /\ Then(p, [r EXCEPT !.pc = "drop", !.dp = 0, !.put = <<d>>])
  /\ UNCHANGED <<safe, cwd, file, ofile>>

dropped(i) == icache[i].nlink - 1

drop(p) ==
  LET i == proc[p].ip IN
  /\ Ready(p, "drop")
  /\ icache' = [icache EXCEPT ![i].nlink = dropped(i), ![i].owner = 0]
  /\ dinode' = iupdate(icache', i)
  /\ Then(p, End([proc[p] EXCEPT !.ip = 0, !.put = <<i>>], 0))
  /\ UNCHANGED <<data, safe, cwd, file, ofile>>

\* iunlockput(dp) after an iput() under its lock.
unlock(p) ==
  LET r == proc[p] IN
  /\ Ready(p, "unlock")
  /\ icache' = iunlock(icache, r.dp)
  /\ Then(p, [r EXCEPT !.pc = r.else, !.dp = 0, !.put = <<r.dp>>])
  /\ UNCHANGED <<dinode, data, safe, cwd, file, ofile>>

-----------------------------------------------------------------------------
(* link() *)

\* Mutant: the count is not raised.
link_count_none(i) == 0

link_count(i) == 1

\* The old inode's count goes up first; then the walk to the new name begins.
link(p) ==
  LET r == proc[p]
      i == r.ip
      j == Start(p, r.call[3])
      ic == ilock(p, i)
      up == [ic EXCEPT ![i].nlink = @ + link_count(i), ![i].owner = 0]
  IN
  /\ Ready(p, "link") /\ CanLock(i)
  /\ IF ic[i].type = T_DIR
     THEN /\ icache' = iunlock(ic, i)
          /\ Then(p, [Fail(r) EXCEPT !.ip = 0, !.put = <<i>>])
          /\ UNCHANGED dinode
     ELSE IF Full(up, j) THEN proc' = Panic(p, "iget: no inodes") /\ UNCHANGED <<dinode, icache>>
     ELSE /\ icache' = iget(up, j)
          /\ dinode' = iupdate(up, i)
          /\ Then(p, namex_begin(p, r, r.call[3], TRUE, "entry", "linkbad"))
  /\ UNCHANGED <<data, safe, cwd, file, ofile>>

\* dirlink(): a name that is taken is looked up and put back under dp's lock.
entry(p) ==
  LET r == proc[p]
      d == r.dp
      ic == ilock(p, d)
      found == Taken(d, Head(r.path))
  IN
  /\ Ready(p, "entry") /\ CanLock(d)
  /\ IF found # {}
     THEN \E i \in found :
            IF Full(ic, i) THEN proc' = Panic(p, "iget: no inodes") /\ UNCHANGED <<data, icache>>
            ELSE /\ icache' = iget(ic, i)
                 /\ Then(p, [r EXCEPT !.pc = "unlock", !.else = "linkbad", !.put = <<i>>])
                 /\ UNCHANGED data
     ELSE /\ data' = [data EXCEPT ![d] = dirlink(d, Head(r.path), r.ip)]
          /\ icache' = iunlock(ic, d)
          /\ Then(p, End([r EXCEPT !.ip = 0, !.dp = 0, !.put = <<d, r.ip>>], 0))
  /\ UNCHANGED <<dinode, safe, cwd, file, ofile>>

linkbad(p) ==
  LET i == proc[p].ip
      ic == ilock(p, i)
  IN
  /\ Ready(p, "linkbad") /\ CanLock(i)
  /\ icache' = [ic EXCEPT ![i].nlink = @ - link_count(i), ![i].owner = 0]
  /\ dinode' = iupdate(icache', i)
  /\ Then(p, [Fail(proc[p]) EXCEPT !.ip = 0, !.put = <<i>>])
  /\ UNCHANGED <<data, safe, cwd, file, ofile>>

-----------------------------------------------------------------------------
(* chdir(), exec(), and the end of an operation *)

chdir(p) ==
  LET r == proc[p]
      i == r.ip
      ic == ilock(p, i)
  IN
  /\ Ready(p, "chdir") /\ CanLock(i)
  /\ icache' = iunlock(ic, i)
  /\ IF ic[i].type # T_DIR
     THEN Then(p, [Fail(r) EXCEPT !.ip = 0, !.put = <<i>>]) /\ UNCHANGED cwd
     ELSE /\ Then(p, End([r EXCEPT !.ip = 0, !.put = <<cwd[p]>>], 0))
          /\ cwd' = [cwd EXCEPT ![p] = i]
  /\ UNCHANGED <<dinode, data, safe, file, ofile>>

\* exec() holds the lock while it reads the program; the image it makes, and why
\* it may fail, is in Memory.
exec(p) ==
  /\ Ready(p, "exec") /\ CanLock(proc[p].ip)
  /\ icache' = ilock(p, proc[p].ip)
  /\ Then(p, [proc[p] EXCEPT !.pc = "load"])
  /\ UNCHANGED <<dinode, data, safe, cwd, file, ofile>>

\* iunlockput(), after the last segment or at bad.
exec_read(p) ==
  LET r == [proc[p] EXCEPT !.ip = 0, !.put = <<proc[p].ip>>] IN
  /\ Ready(p, "load")
  /\ icache' = iunlock(icache, proc[p].ip)
  /\ Then(p, End(r, 0)) \/ Then(p, Fail(r))
  /\ UNCHANGED <<dinode, data, safe, cwd, file, ofile>>

\* Mutant: an operation is committed while others are under way.
Commits_early(p) == TRUE

Commits(p) == \A q \in Procs \ {p} : ~proc[q].op

end_op(p) ==
  LET r == proc[p]
      next == CASE r.call[1] # "exit" -> "user" [] cwd[p] # 0 -> "exit" [] OTHER -> "unused"
  IN
  /\ Ready(p, "end") \/ Ready(p, "fail")
  /\ safe' = IF Commits(p) THEN <<dinode, data>> ELSE safe
  /\ Then(p, [Idle EXCEPT !.pc = next, !.call = IF next = "exit" THEN r.call ELSE @, !.ret = IF r.pc = "fail" THEN -1 ELSE r.ret])
  /\ UNCHANGED <<dinode, data, icache, cwd, file, ofile>>

-----------------------------------------------------------------------------
(* Descriptors *)

Return(p, ret) == Then(p, [Idle EXCEPT !.ret = ret])
BadFd(p, fd) == fd \notin Fds \/ ofile[p][fd] = 0

\* fileclose(): the last reference puts the inode, in a transaction; what it does to
\* a pipe is in Pipe.
fileclose(p, c, fd, else) ==
  LET f == ofile[p][fd]
      last == file[f].ref = 1
  IN
  /\ ofile' = [ofile EXCEPT ![p][fd] = 0]
  /\ file' = [file EXCEPT ![f] = IF last THEN NoFile ELSE [@ EXCEPT !.ref = @ - 1]]
  /\ IF last /\ file[f].ip # FD_PIPE
     THEN Then(p, End([Idle EXCEPT !.call = c, !.op = TRUE, !.put = <<file[f].ip>>], 0))
     ELSE Then(p, [Idle EXCEPT !.call = IF else = "exit" THEN c ELSE @, !.pc = else])
  /\ UNCHANGED <<dinode, data, safe, icache, cwd>>

sys_close(p, c) ==
  /\ Ready(p, "user") /\ c[1] = "close"
  /\ IF BadFd(p, c[2]) THEN Return(p, -1) /\ UNCHANGED <<dinode, data, safe, icache, cwd, file, ofile>>
     ELSE fileclose(p, c, c[2], "user")

sys_dup(p, c) ==
  LET fds == {fd \in Fds : ofile[p][fd] = 0} IN
  /\ Ready(p, "user") /\ c[1] = "dup"
  /\ IF BadFd(p, c[2]) \/ fds = {} THEN Return(p, -1) /\ UNCHANGED <<file, ofile>>
     ELSE /\ ofile' = [ofile EXCEPT ![p][Least(fds)] = ofile[p][c[2]]]
          /\ file' = [file EXCEPT ![ofile[p][c[2]]].ref = @ + 1]
          /\ Return(p, Least(fds))
  /\ UNCHANGED <<dinode, data, safe, icache, cwd>>

\* read() gives the content of a file, or the number of entries of a directory;
\* write() replaces it.
content(i) == IF icache[i].type = T_DIR THEN Cardinality(data[i])
              ELSE IF data[i] = {} THEN 0 ELSE CHOOSE v \in data[i] : TRUE

Denied(p, c) ==
  \/ BadFd(p, c[2])
  \/ c[1] = "read" /\ ~file[ofile[p][c[2]]].readable
  \/ c[1] = "write" /\ ~file[ofile[p][c[2]]].writable

sys_rw(p, c) ==
  LET i == file[ofile[p][c[2]]].ip IN
  /\ Ready(p, "user") /\ c[1] \in {"read", "write"} /\ (Denied(p, c) \/ i # FD_PIPE)
  /\ IF Denied(p, c)
     THEN Return(p, -1) /\ UNCHANGED <<data, safe, icache>>
     ELSE /\ CanLock(i)
          /\ icache' = iunlock(ilock(p, i), i)
          /\ IF c[1] = "read" THEN Return(p, content(i)) /\ UNCHANGED <<data, safe>>
             ELSE /\ data' = [data EXCEPT ![i] = {c[3]}]
                  /\ safe' = IF Commits(p) THEN <<dinode, data'>> ELSE safe
                  /\ Return(p, c[3])
  /\ UNCHANGED <<dinode, cwd, file, ofile>>

\* fstat() of a pipe fails; of what stati() copies, the link count is kept.
sys_fstat(p, c) ==
  LET i == file[ofile[p][c[2]]].ip IN
  /\ Ready(p, "user") /\ c[1] = "fstat"
  /\ IF BadFd(p, c[2]) \/ i = FD_PIPE THEN Return(p, -1) /\ UNCHANGED icache
     ELSE /\ CanLock(i)
          /\ icache' = iunlock(ilock(p, i), i)
          /\ Return(p, icache'[i].nlink)
  /\ UNCHANGED <<dinode, data, safe, cwd, file, ofile>>

-----------------------------------------------------------------------------
(* pipe() *)

sys_pipe(p, c) ==
  /\ Ready(p, "user") /\ c[1] = "pipe"
  /\ Then(p, [Idle EXCEPT !.pc = "pipe"])
  /\ UNCHANGED <<dinode, data, safe, icache, cwd, file, ofile>>

\* pipealloc() takes two files, one at a time.
pipealloc(p) ==
  LET r == proc[p]
      free == {f \in Files : file[f].ref = 0}
  IN
  /\ Ready(p, "pipe") /\ Len(r.files) < 2
  /\ IF free = {} THEN Then(p, [r EXCEPT !.pc = "pipebad"]) /\ UNCHANGED file
     ELSE /\ Then(p, [r EXCEPT !.files = Append(@, Least(free))])
          /\ file' = [file EXCEPT ![Least(free)].ref = 1]
  /\ UNCHANGED <<dinode, data, safe, icache, cwd, ofile>>

\* kalloc() has no page for the pipe.
pipealloc_nomem(p) ==
  /\ Ready(p, "pipe") /\ Len(proc[p].files) = 2
  /\ Then(p, [proc[p] EXCEPT !.pc = "pipebad"])
  /\ UNCHANGED <<dinode, data, safe, icache, cwd, file, ofile>>

pipe_fds(p) ==
  LET r == proc[p]
      fds == {fd \in Fds : ofile[p][fd] = 0}
      fd0 == Least(fds)
      fd1 == Least(fds \ {fd0})
  IN
  /\ Ready(p, "pipe") /\ Len(r.files) = 2
  /\ file' = [file EXCEPT ![r.files[1]] = [@ EXCEPT !.ip = FD_PIPE, !.readable = TRUE],
                          ![r.files[2]] = [@ EXCEPT !.ip = FD_PIPE, !.writable = TRUE]]
  /\ IF Cardinality(fds) < 2 THEN Then(p, [r EXCEPT !.pc = "pipebad"]) /\ UNCHANGED ofile
     ELSE /\ ofile' = [ofile EXCEPT ![p][fd0] = r.files[1], ![p][fd1] = r.files[2]]
          /\ Return(p, 0)
  /\ UNCHANGED <<dinode, data, safe, icache, cwd>>

\* What was taken is closed again; a file that is no pipe yet is FD_NONE.
pipebad(p) ==
  LET r == proc[p] IN
  /\ Ready(p, "pipebad")
  /\ IF r.files = << >> THEN Return(p, -1) /\ UNCHANGED file
     ELSE /\ file' = [file EXCEPT ![Head(r.files)] = NoFile]
          /\ Then(p, [r EXCEPT !.files = Tail(@)])
  /\ UNCHANGED <<dinode, data, safe, icache, cwd, ofile>>

-----------------------------------------------------------------------------
(* Processes *)

Refs(p, f) == Cardinality({fd \in Fds : ofile[p][fd] = f})

fork(p, c) ==
  LET free == {q \in Procs : Pc(q) = "unused"}
      q == Least(free)
  IN
  /\ Ready(p, "user") /\ c[1] = "fork"
  /\ IF free = {} THEN Return(p, -1) /\ UNCHANGED <<ofile, file, cwd, icache>>
     ELSE /\ ofile' = [ofile EXCEPT ![q] = ofile[p]]
          /\ file' = [f \in Files |-> [file[f] EXCEPT !.ref = @ + Refs(p, f)]]
          /\ cwd' = [cwd EXCEPT ![q] = cwd[p]]
          /\ icache' = iget(icache, cwd[p])
          /\ proc' = [proc EXCEPT ![q] = Idle, ![p] = Idle]
  /\ UNCHANGED <<dinode, data, safe>>

\* exit() closes every file and puts the current directory.
sys_exit(p, c) ==
  /\ Ready(p, "user") /\ c[1] = "exit"
  /\ Then(p, [Idle EXCEPT !.call = c, !.pc = "exit"])
  /\ UNCHANGED <<dinode, data, safe, icache, cwd, file, ofile>>

exit(p) ==
  LET c == proc[p].call
      fds == {fd \in Fds : ofile[p][fd] # 0}
  IN
  /\ Ready(p, "exit")
  /\ IF fds # {} THEN fileclose(p, c, Least(fds), "exit")
     ELSE /\ Then(p, End([Idle EXCEPT !.call = c, !.op = TRUE, !.put = <<cwd[p]>>], 0))
          /\ cwd' = [cwd EXCEPT ![p] = 0]
          /\ UNCHANGED <<dinode, data, safe, icache, file, ofile>>

-----------------------------------------------------------------------------
(* Panics, crashes and the whole *)

LocksDp == {"create", "unlink", "entry"}
LocksIp == {"fill", "exists", "open", "victim", "link", "linkbad", "chdir", "exec"}

\* The inode whose lock a process needs to go on, 0 if none.
wants(p) ==
  LET r == proc[p] IN
  IF r.put # << >> THEN (IF r.at = "lock" THEN Head(r.put) ELSE 0)
  ELSE IF r.pc \in LocksDp \/ (r.pc = "namex" /\ r.par) THEN r.dp
  ELSE IF r.pc \in LocksIp \cup {"namex"} THEN r.ip ELSE 0

\* ilock() finds an inode that is free on disk.
ilock_panic(p) ==
  /\ proc[p].put = << >> /\ wants(p) # 0 /\ Owner(wants(p)) = 0 /\ NoType(wants(p))
  /\ proc' = Panic(p, "ilock: no type")
  /\ UNCHANGED <<dinode, data, safe, icache, cwd, file, ofile>>

NoEntry == [ref |-> 0, valid |-> FALSE, owner |-> 0, type |-> 0, nlink |-> 0]

\* The machine as iinit() and userinit() leave it: init is in the root directory.
Boot(first) ==
  [icache |-> [i \in Inums |-> IF i = ROOTINO THEN [NoEntry EXCEPT !.ref = Cardinality(first)] ELSE NoEntry],
   cwd |-> [p \in Procs |-> IF p \in first THEN ROOTINO ELSE 0],
   proc |-> [p \in Procs |-> IF p \in first THEN Idle ELSE [Idle EXCEPT !.pc = "unused"]],
   file |-> [f \in Files |-> NoFile],
   ofile |-> [p \in Procs |-> [fd \in Fds |-> 0]]]

crash(first) ==
  /\ icache' = Boot(first).icache /\ cwd' = Boot(first).cwd /\ proc' = Boot(first).proc
  /\ file' = Boot(first).file /\ ofile' = Boot(first).ofile
  /\ dinode' = safe[1] /\ data' = safe[2]
  /\ UNCHANGED safe

\* The root directory as mkfs leaves it, with one file.
InitFrom(first) ==
  /\ icache = Boot(first).icache /\ cwd = Boot(first).cwd /\ proc = Boot(first).proc
  /\ file = Boot(first).file /\ ofile = Boot(first).ofile
  /\ dinode = [i \in Inums |-> [type |-> CASE i = 1 -> T_DIR [] i = 2 -> T_FILE [] OTHER -> 0,
                              nlink |-> IF i <= 2 THEN 1 ELSE 0]]
  /\ data = [i \in Inums |-> IF i = 1 THEN {<<".", 1, 0>>, <<"..", 1, 1>>, <<"README", 2, 2>>} ELSE {}]
  /\ safe = <<dinode, data>>

Kernel(p) ==
  \/ namex(p) /\ UNCHANGED <<file, ofile>>
  \/ (iput(p) \/ iput_free(p) \/ iput_clear(p) \/ iput_unref(p)) /\ UNCHANGED <<file, ofile>>
  \/ create(p) \/ fill(p) \/ exists(p) \/ open(p) \/ opened(p) \/ fdalloc(p)
  \/ unlink(p) \/ victim(p) \/ drop(p) \/ unlock(p)
  \/ link(p) \/ entry(p) \/ linkbad(p) \/ chdir(p) \/ exec(p) \/ exec_read(p) \/ exit(p) \/ end_op(p) \/ ilock_panic(p)
  \/ pipealloc(p) \/ pipealloc_nomem(p) \/ pipe_fds(p) \/ pipebad(p)

Call(p, c) ==
  \/ sys_path(p, c) \/ sys_close(p, c) \/ sys_dup(p, c) \/ sys_rw(p, c) \/ sys_fstat(p, c)
  \/ sys_pipe(p, c) \/ sys_exit(p, c) \/ fork(p, c)

Running == \A p \in Procs : Pc(p) # "panic"

Init == InitFrom(Procs)

Next ==
  /\ Running
  /\ \/ \E p \in Procs : Kernel(p) \/ \E c \in Calls : Call(p, c)
     \/ crash(Procs)

Spec == Init /\ [][Next]_vars

-----------------------------------------------------------------------------
(* Properties *)

TypeOK ==
  /\ dinode \in [Inums -> [type : 0..3, nlink : Nat]]
  /\ icache \in [Inums -> [ref : Nat, valid : BOOLEAN, owner : Procs \cup {0}, type : 0..3, nlink : Nat]]
  /\ file \in [Files -> [ref : Nat, ip : Inums \cup {0, FD_PIPE}, readable : BOOLEAN, writable : BOOLEAN]]
  /\ ofile \in [Procs -> [Fds -> Files \cup {0}]] /\ cwd \in [Procs -> Inums \cup {0}]
  /\ \A i \in Inums : icache[i].ref = 0 => icache[i].owner = 0

\* References are exact (iget, idup, iput and the error paths between them):
\* ref is the number of pointers to the inode that processes and open files
\* have, and a file's count is the number of its descriptors, or one while open()
\* or pipe() has no descriptor for it yet.
Pointers(i) ==
  Cardinality({x \in Procs \X {"cwd", "ip", "dp"} :
                 i = CASE x[2] = "cwd" -> cwd[x[1]] [] x[2] = "ip" -> proc[x[1]].ip
                       [] x[2] = "dp" -> proc[x[1]].dp})
  + Cardinality({x \in Procs \X (1..2) : x[2] <= Len(proc[x[1]].put) /\ proc[x[1]].put[x[2]] = i})
  + Cardinality({f \in Files : file[f].ip = i})

RefExact ==
  /\ TypeOK
  /\ \A i \in Inums : icache[i].ref = Pointers(i)
  /\ \A f \in Files : file[f].ref = Cardinality({x \in Procs \X Fds : ofile[x[1]][x[2]] = f})
                                   + Cardinality({p \in Procs : \E k \in DOMAIN proc[p].files : proc[p].files[k] = f})

\* iput() frees an inode only when nobody can use it any more: what is open or a
\* current directory, and what a directory entry names, is allocated.  Entries
\* ".." are exempt: unlink() lowers the parent's count when it removes a directory,
\* and while somebody still is in that directory its parent may be freed.
InUse ==
  /\ \A f \in Files : file[f].ip \in Inums => file[f].ref > 0 /\ dinode[file[f].ip].type # 0
  /\ \A p \in Procs : cwd[p] # 0 => dinode[cwd[p]].type = T_DIR
  /\ \A d \in Inums : dinode[d].type = T_DIR =>
       \A e \in data[d] : e[1] # ".." => dinode[e[2]].type # 0

\* Two processes that create or link the same name do not both enter it: no two
\* slots of a directory have one name, be it for one inode or for two.
UniqueNames == \A d \in Inums : \A e, f \in data[d] : dinode[d].type = T_DIR /\ e[1] = f[1] => e = f

\* The entries of an image of the disk that name an inode, in directories that are
\* not removed.
LinksTo(image, i, skip) ==
  UNION {{<<d, e[3]>> : e \in {x \in image[2][d] : x[1] \notin skip /\ x[2] = i}} :
           d \in {x \in Inums : image[1][x].type = T_DIR /\ image[1][x].nlink > 0}}

\* The link count is never too small: link() raises it before the entry is made and
\* unlink() lowers it after the entry is gone, each under the inode's own lock.
\* "i-node cache is write-through" (fs.c, iupdate): a valid entry that nobody has
\* locked says what the disk says.
LinksCounted ==
  \A i \in Inums :
    /\ dinode[i].type # 0 =>
         Cardinality(LinksTo(<<dinode, data>>, i, {".", ".."})) <= dinode[i].nlink
    /\ icache[i].ref > 0 /\ icache[i].valid /\ Owner(i) = 0 =>
         icache[i].type = dinode[i].type /\ icache[i].nlink = dinode[i].nlink

\* What a crash leaves has exact link counts, with one for the ".." of every
\* subdirectory: the log commits only whole calls.
ImageExact ==
  \A i \in Inums : safe[1][i].type # 0 => Cardinality(LinksTo(safe, i, {"."})) = safe[1][i].nlink

\* create() and unlink() look a name up, let go of locks and act on it later:
\* never does create() find the name entered in the meantime ("create: dirlink"),
\* nor unlink() an inode without links behind an entry ("unlink: nlink < 1").  The
\* panics for want of an inode or a cache entry, and "ilock: no type" behind "..",
\* are not meant: the code can reach them.
NoLinkPanic ==
  \A p \in Procs : Pc(p) = "panic" => Head(proc[p].call) \notin {"create: dirlink", "unlink: nlink < 1"}

\* usertests.c, linkunlink(): "another concurrent link/unlink/create test, to look
\* for deadlocks": no set of processes waits for inode locks that only it holds.
NoDeadlock == \A S \in SUBSET Procs \ {{}} : \E p \in S : wants(p) = 0 \/ Owner(wants(p)) \notin S
=============================================================================
