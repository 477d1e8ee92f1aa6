----------------------------- MODULE UserTests -----------------------------
(***************************************************************************)
(* User programs on FileSystem: the file system tests of usertests.c, with *)
(* what they expect of every call, and processes that call what they like. *)
(* README stands for any file of the initial file system (echo, cat).  A   *)
(* loop of a test that repeats itself is run a few times.                  *)
(***************************************************************************)
EXTENDS FileSystem

CONSTANTS Scenarios   \* the programs: for each process, or for process 1 alone

VARIABLES
  todo,     \* the steps left of each process
  expect    \* what it expects of the call it is in

tvars == <<vars, todo, expect>>

\* A step is the calls to choose from and the results that are expected.
Results == -1..100
ok(c) == <<{c}, Results \ {-1}>>
bad(c) == <<{c}, {-1}>>
any(c) == <<{c}, Results>>
gives(c, v) == <<{c}, {v}>>
fork_ == ok(<<"fork">>)
exit_ == any(<<"exit">>)
wait_ == any(<<"wait">>)

creat(path) == <<"create", path, "rw">>
mkdir(path) == <<"mkdir", path>>
rd(path) == <<"open", path, "r">>
wr(path) == <<"open", path, "w">>
rdwr(path) == <<"open", path, "rw">>
ln(old, new) == <<"link", old, new>>
rm(path) == <<"unlink", path>>
cd(path) == <<"chdir", path>>
close == <<"close", 0>>
pipe == <<"pipe">>

-----------------------------------------------------------------------------
(* usertests.c; the second sequence of a test is its child's *)

iputtest == <<
  <<ok(mkdir(<<"id">>)), ok(cd(<<"id">>)), ok(rm(<<"..", "id">>)), ok(cd(<<"/">>))>> >>

exitiputtest == <<
  <<fork_, wait_>>,
  <<ok(mkdir(<<"id">>)), ok(cd(<<"id">>)), ok(rm(<<"..", "id">>)), exit_>> >>

openiputtest == <<
  <<ok(mkdir(<<"oi">>)), fork_, ok(rm(<<"oi">>)), wait_>>,
  <<bad(rdwr(<<"oi">>)), exit_>> >>

opentest == <<
  <<ok(rd(<<"README">>)), ok(close), bad(rd(<<"doesnotexist">>))>> >>

writetest == <<
  <<ok(creat(<<"small">>)), ok(<<"write", 0, 10>>), ok(<<"write", 0, 20>>), ok(close),
    ok(rd(<<"small">>)), gives(<<"read", 0>>, 20), ok(close), ok(rm(<<"small">>))>> >>

createtest == <<
  <<any(creat(<<"a0">>)), any(close), any(creat(<<"a1">>)), any(close), any(creat(<<"a2">>)), any(close),
    any(rm(<<"a0">>)), any(rm(<<"a1">>)), any(rm(<<"a2">>))>> >>

dirtest == <<
  <<ok(mkdir(<<"dir0">>)), ok(cd(<<"dir0">>)), ok(cd(<<"..">>)), ok(rm(<<"dir0">>))>> >>

\* Two of the four children, in their turns i = 1 and i = 2.
createdelete_child(a, b) ==
  <<ok(creat(a)), ok(close), ok(creat(b)), ok(close), ok(rm(a)), exit_>>

createdelete == <<
  <<fork_, fork_, wait_,
    bad(rd(<<"p1">>)), bad(rd(<<"q1">>)), ok(rd(<<"p2">>)), ok(close), ok(rd(<<"q2">>)), ok(close),
    any(rm(<<"p1">>)), any(rm(<<"q2">>))>>,
  createdelete_child(<<"p1">>, <<"p2">>),
  createdelete_child(<<"q1">>, <<"q2">>)>>

unlinkread == <<
  <<ok(creat(<<"ur">>)), ok(<<"write", 0, 5>>), ok(close), ok(rdwr(<<"ur">>)), ok(rm(<<"ur">>)),
    ok(creat(<<"ur">>)), ok(<<"write", 1, 3>>), ok(<<"close", 1>>),
    gives(<<"read", 0>>, 5), ok(<<"write", 0, 10>>), ok(close), any(rm(<<"ur">>))>> >>

linktest == <<
  <<any(rm(<<"lf1">>)), any(rm(<<"lf2">>)), ok(creat(<<"lf1">>)), ok(<<"write", 0, 5>>), ok(close),
    ok(ln(<<"lf1">>, <<"lf2">>)), ok(rm(<<"lf1">>)), bad(rd(<<"lf1">>)),
    ok(rd(<<"lf2">>)), gives(<<"read", 0>>, 5), ok(close), bad(ln(<<"lf2">>, <<"lf2">>)),
    ok(rm(<<"lf2">>)), bad(ln(<<"lf2">>, <<"lf1">>)), bad(ln(<<".">>, <<"lf1">>))>> >>

\* Parent and child race to create or link C1; the directory then has ".", "..",
\* README, C0 and C1.  A second child and the parent then open or unlink it.
concreate_pair(parent, child, parent2, child2) == <<
  <<ok(creat(<<"C0">>)), ok(close), any(rm(<<"C1">>)), fork_>> \o parent \o
  <<wait_, ok(rd(<<".">>)), gives(<<"read", 0>>, 5), ok(close), fork_>> \o parent2 \o <<wait_>>,
  child \o <<exit_>> \o child2 \o <<exit_>> >>

concreate_link == <<any(ln(<<"C0">>, <<"C1">>))>>
concreate_create == <<ok(creat(<<"C1">>)), ok(close)>>
concreate_open == <<any(rd(<<"C1">>)), any(close), any(rd(<<"C1">>)), any(close)>>
concreate_unlink == <<any(rm(<<"C1">>)), any(rm(<<"C1">>))>>

\* The turns with i % 3 = 1, 0 and 2; the child links when i % 5 = 1.
concreate ==
  UNION {{concreate_pair(concreate_link, child, concreate_open, concreate_unlink),
          concreate_pair(concreate_create, child, concreate_unlink, concreate_open),
          concreate_pair(concreate_create, child, concreate_unlink, concreate_unlink)} :
            child \in {concreate_link, concreate_create}}

linkunlink_loop ==
  LET turn == <<{creat(<<"x">>), ln(<<"README">>, <<"x">>), rm(<<"x">>)}, Results>>
  IN  <<turn, any(close), turn, any(close)>>

linkunlink == <<
  <<any(rm(<<"x">>)), fork_>> \o linkunlink_loop \o <<wait_>>,
  linkunlink_loop \o <<exit_>> >>

bigdir == <<
  <<any(rm(<<"bd">>)), ok(<<"create", <<"bd">>, "r">>), ok(close),
    ok(ln(<<"bd">>, <<"x00">>)), ok(ln(<<"bd">>, <<"x01">>)), ok(ln(<<"bd">>, <<"x02">>)),
    any(rm(<<"bd">>)), ok(rm(<<"x00">>)), ok(rm(<<"x01">>)), ok(rm(<<"x02">>))>> >>

\* The directories that subdir() makes, up to the walks with "..".
subdir_make == <<
  any(rm(<<"ff">>)), ok(mkdir(<<"dd">>)), ok(creat(<<"dd", "ff">>)), ok(<<"write", 0, 2>>), ok(close),
  bad(rm(<<"dd">>)), ok(mkdir(<<"/", "dd", "dd">>)),
  ok(creat(<<"dd", "dd", "ff">>)), ok(<<"write", 0, 12>>), ok(close),
  ok(rd(<<"dd", "dd", "..", "ff">>)), gives(<<"read", 0>>, 2), ok(close),
  ok(ln(<<"dd", "dd", "ff">>, <<"dd", "dd", "ffff">>)), ok(rm(<<"dd", "dd", "ff">>)),
  bad(rd(<<"dd", "dd", "ff">>)),
  ok(cd(<<"dd">>)), ok(cd(<<"dd", "..", "..", "dd">>)), ok(cd(<<"dd", "..", "..", "..", "dd">>)),
  ok(cd(<<".", "..">>))>>

subdir_use == <<
  ok(rd(<<"dd", "dd", "ffff">>)), gives(<<"read", 0>>, 12), ok(close),
  bad(rd(<<"dd", "dd", "ff">>)), bad(creat(<<"dd", "ff", "ff">>)), bad(creat(<<"dd", "xx", "ff">>)),
  bad(<<"create", <<"dd">>, "r">>), bad(rdwr(<<"dd">>)), bad(wr(<<"dd">>)),
  bad(ln(<<"dd", "ff", "ff">>, <<"dd", "dd", "xx">>)), bad(ln(<<"dd", "xx", "ff">>, <<"dd", "dd", "xx">>)),
  bad(ln(<<"dd", "ff">>, <<"dd", "dd", "ffff">>)),
  bad(mkdir(<<"dd", "ff", "ff">>)), bad(mkdir(<<"dd", "xx", "ff">>)), bad(mkdir(<<"dd", "dd", "ffff">>)),
  bad(rm(<<"dd", "xx", "ff">>)), bad(rm(<<"dd", "ff", "ff">>)), bad(cd(<<"dd", "ff">>)), bad(cd(<<"dd", "xx">>)),
  ok(rm(<<"dd", "dd", "ffff">>)), ok(rm(<<"dd", "ff">>)), bad(rm(<<"dd">>)),
  ok(rm(<<"dd", "dd">>)), ok(rm(<<"dd">>))>>

subdir == <<subdir_make \o subdir_use>>

\* DIRSIZ is 14.
fourteen ==
  LET n14 == "12345678901234"
      n15 == "123456789012345"
  IN << <<ok(mkdir(<<n14>>)), ok(mkdir(<<n14, n15>>)), ok(<<"create", <<n15, n15, n15>>, "r">>), ok(close),
          ok(rd(<<n14, n14, n14>>)), ok(close), bad(mkdir(<<n14, n14>>)), bad(mkdir(<<n15, n14>>))>> >>

rmdot == <<
  <<ok(mkdir(<<"dots">>)), ok(cd(<<"dots">>)), bad(rm(<<".">>)), bad(rm(<<"..">>)), ok(cd(<<"/">>)),
    bad(rm(<<"dots", ".">>)), bad(rm(<<"dots", "..">>)), ok(rm(<<"dots">>))>> >>

dirfile == <<
  <<ok(<<"create", <<"df">>, "r">>), ok(close), bad(cd(<<"df">>)), bad(rd(<<"df", "xx">>)),
    bad(<<"create", <<"df", "xx">>, "r">>), bad(mkdir(<<"df", "xx">>)), bad(rm(<<"df", "xx">>)),
    bad(ln(<<"README">>, <<"df", "xx">>)), ok(rm(<<"df">>)),
    bad(rdwr(<<".">>)), ok(rd(<<".">>)), bad(<<"write", 0, 1>>), ok(close)>> >>

\* NINODE + 1 directories, one in the other: no reference may be left behind.
iref_turn == <<
  ok(mkdir(<<"irefd">>)), ok(cd(<<"irefd">>)), any(mkdir(<< >>)), any(ln(<<"README">>, << >>)),
  any(<<"create", << >>, "r">>), any(close), any(<<"create", <<"xx">>, "r">>), any(close), any(rm(<<"xx">>))>>

iref == <<iref_turn \o iref_turn \o iref_turn \o iref_turn \o iref_turn \o iref_turn \o <<any(cd(<<"/">>))>> >>

\* init.c: the console is made the first time.
init == <<
  <<bad(rdwr(<<"console">>)), ok(<<"mknod", <<"console">> >>), ok(rdwr(<<"console">>)),
    ok(<<"dup", 0>>), any(<<"dup", 0>>)>> >>

-----------------------------------------------------------------------------

Steps(s, p) == IF p \in DOMAIN s THEN s[p] ELSE << >>
Begun(s) == IF fork_ \in {s[1][k] : k \in DOMAIN s[1]} THEN {1} ELSE DOMAIN s

TInit ==
  \E s \in Scenarios :
    /\ InitFrom(Begun(s))
    /\ todo = [p \in Procs |-> Steps(s, p)]
    /\ expect = [p \in Procs |-> Results]

\* wait(): the model has one family; a parent goes on when its children are gone.
wait(p, c) ==
  /\ Ready(p, "user") /\ c[1] = "wait" /\ \A q \in Procs \ {p} : Pc(q) = "unused"
  /\ UNCHANGED vars

Program(p) ==
  /\ todo[p] # << >>
  /\ \E c \in Head(todo[p])[1] : Call(p, c) \/ wait(p, c)
  /\ todo' = [todo EXCEPT ![p] = Tail(@)]
  /\ expect' = [expect EXCEPT ![p] = Head(todo[p])[2]]

Crash ==
  /\ crash({1})
  /\ todo' = [p \in Procs |-> << >>] /\ expect' = [p \in Procs |-> Results]

TNext ==
  /\ Running
  /\ \/ \E p \in Procs : Program(p) \/ (Kernel(p) /\ UNCHANGED <<todo, expect>>)
     \/ Crash

TSpec == TInit /\ [][TNext]_tvars

\* However the processes of a test of usertests.c interleave, no call gives a result
\* that the test reports as a failure.  That a test comes to its end is another
\* question: linkunlink may not (NoDeadlock).
TestsPass == \A p \in Procs : Pc(p) = "user" => proc[p].ret \in expect[p]
=============================================================================
