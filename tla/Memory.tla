------------------------------- MODULE Memory -------------------------------
(***************************************************************************)
(* Physical pages and the address spaces made of them: kalloc.c, the user  *)
(* part of vm.c, exec.c, growproc(), and what fork(), exit() and wait() do *)
(* with memory.  A turn of a loop that allocates a page is a step, since   *)
(* processes compete for the free list; setupkvm() takes its pages in one  *)
(* step, and so does a turn that needs a page table as well.  Pages are    *)
(* given back in one step.                                                 *)
(* A page holds one word; an address is a number below 2 * KERNBASE.       *)
(***************************************************************************)
EXTENDS Integers, FiniteSets, Sequences, FiniteSetsExt

CONSTANTS
  Procs, Pages,
  PGSIZE, NPTENTRIES, NPDENTRIES,   \* bytes of a page, pages of a page table, user page tables
  NKERN,                            \* page tables of the kernel's part
  Programs,   \* files for exec(): ends of the loadable segments, and what is wrong with the file
  Increments, \* arguments of sbrk()
  Stores      \* pages that processes write to

ASSUME MemoryAssumption ==
  /\ Procs \subseteq Nat \ {0} /\ 1 \in Procs /\ Pages \subseteq Nat \ {0}
  /\ PGSIZE > 0 /\ NPTENTRIES > 0 /\ NPDENTRIES > 0 /\ NKERN >= 0

UserPages == 0..(NPDENTRIES * NPTENTRIES - 1)
KERNBASE == NPDENTRIES * NPTENTRIES * PGSIZE

uint(x) == x % (2 * KERNBASE)
PGROUNDUP(x) == (x + PGSIZE - 1) \div PGSIZE   \* in pages

\* Contents of a page: zeroes, the junk of kfree(), a program, its arguments; a process
\* writes its own number.
zero == 0
junk == -1
text == -2
args == -3

VARIABLES
  free,    \* kmem.freelist
  mem,     \* contents of the pages
  proc,    \* process table, with the registers of each process
  image    \* history: what each process should find in its memory

vars == <<free, mem, proc, image>>

\* dir: the page directory; kern: page tables of the kernel's part; tab: user page
\* tables; pte: the pages they map; 0 is absent.
\* guard: the page without PTE_U, or -1.
NoSpace == [dir |-> 0, kern |-> {}, guard |-> -1, tab |-> [d \in 0..(NPDENTRIES - 1) |-> 0],
            pte |-> [v \in UserPages |-> 0]]

\* new: the space that fork() and exec() build; a, end: page and limit of the loop;
\* k: the segment of exec(), one more for the stack; newsz: its size so far
Unused == [state |-> "UNUSED", pc |-> "user", kstack |-> 0, space |-> NoSpace, sz |-> 0, parent |-> 0,
           new |-> NoSpace, a |-> 0, end |-> 0, k |-> 0, newsz |-> 0, child |-> 0, prog |-> << >>]

Becomes(p, r) == proc' = [proc EXCEPT ![p] = r]
Return(r) == [r EXCEPT !.pc = "user", !.new = NoSpace, !.a = 0, !.end = 0, !.k = 0, !.newsz = 0,
                       !.child = 0, !.prog = << >>]
Runs(p) == proc[p].state = "RUNNING" /\ proc[p].pc = "user"

\* The process can go on in user mode: its program begins in page 0.
User(p) == Runs(p) /\ proc[p].space.pte[0] # 0 /\ proc[p].space.guard # 0

-----------------------------------------------------------------------------
(* kalloc.c and vm.c, on records m of free, mem and a space s *)

Owned(s) == ({s.dir} \cup s.kern \cup {s.tab[d] : d \in DOMAIN s.tab} \cup {s.pte[v] : v \in UserPages}) \ {0}
Memory(s) == [free |-> free, mem |-> mem, s |-> s]

kalloc(f) == Min(f)   \* the page; the list must not be empty

kfree(m, pages) ==
  [m EXCEPT !.free = @ \cup pages, !.mem = [x \in Pages |-> IF x \in pages THEN junk ELSE @[x]]]

freevm(m) == [kfree(m, Owned(m.s)) EXCEPT !.s = NoSpace]

\* setupkvm() fails if it cannot have all pages, and gives back those it has.
CanSetup(m) == Cardinality(m.free) >= 1 + NKERN
setupkvm(m) ==
  LET dir == kalloc(m.free)
      kern == CHOOSE S \in kSubset(NKERN, m.free \ {dir}) : TRUE
  IN  [m EXCEPT !.free = @ \ ({dir} \cup kern), !.s = [NoSpace EXCEPT !.dir = dir, !.kern = kern]]

\* kalloc() and mappages() of page v, with contents c.
Tables(m, v) == IF m.s.tab[v \div NPTENTRIES] = 0 THEN 1 ELSE 0

CanMap(m, v) == Cardinality(m.free) >= 1 + Tables(m, v)

\* Mutant: what the page held before is not cleared.
Clear_not(m, x, c) == m.mem

Clear(m, x, c) == [m.mem EXCEPT ![x] = c]

map(m, v, c) ==
  LET x == kalloc(m.free)
      t == kalloc(m.free \ {x})
      d == v \div NPTENTRIES
  IN  IF Tables(m, v) = 0
      THEN [free |-> m.free \ {x}, mem |-> Clear(m, x, c), s |-> [m.s EXCEPT !.pte[v] = x]]
      ELSE [free |-> m.free \ {x, t}, mem |-> [Clear(m, x, c) EXCEPT ![t] = zero],
            s |-> [m.s EXCEPT !.pte[v] = x, !.tab[d] = t]]

\* Mutant: the round-up is forgotten.
Shrunk_down(old, new) == {v \in UserPages : v >= new \div PGSIZE /\ v * PGSIZE < old}

\* The pages that deallocuvm() of a space from size old to size new frees.
Shrunk(old, new) == {v \in UserPages : v >= PGROUNDUP(new) /\ v * PGSIZE < old}

deallocuvm(m, old, new) ==
  LET gone == Shrunk(old, new) IN
  [kfree(m, {m.s.pte[v] : v \in gone} \ {0}) EXCEPT
     !.s.pte = [v \in UserPages |-> IF v \in gone THEN 0 ELSE @[v]],
     !.s.guard = IF @ \in gone THEN -1 ELSE @]

-----------------------------------------------------------------------------
(* sbrk() *)

\* growproc(): shrinking is done at once, growing page by page.  Sizes are unsigned.
sbrk(p, n) ==
  LET r == proc[p]
      newsz == uint(r.sz + n)
      m == deallocuvm(Memory(r.space), r.sz, newsz)
  IN
  /\ User(p)
  /\ IF n < 0 /\ newsz < r.sz
     THEN /\ free' = m.free /\ mem' = m.mem
          /\ Becomes(p, [r EXCEPT !.space = m.s, !.sz = IF newsz = 0 THEN @ ELSE newsz])
          /\ image' = [image EXCEPT ![p] = [v \in UserPages |-> IF v \in Shrunk(r.sz, newsz) THEN junk ELSE @[v]]]
     ELSE /\ Becomes(p, IF n < 0 \/ newsz >= KERNBASE \/ newsz < r.sz THEN r
                        ELSE [r EXCEPT !.pc = "grow", !.a = PGROUNDUP(r.sz), !.newsz = newsz])
          /\ UNCHANGED <<free, mem, image>>

\* A turn of the loop of allocuvm(); out of memory, deallocuvm() takes back what it did.
grow(p) ==
  LET r == proc[p]
      m == map(Memory(r.space), r.a, zero)
      u == deallocuvm(Memory(r.space), r.newsz, r.sz)
  IN
  /\ r.pc = "grow"
  /\ IF r.a * PGSIZE >= r.newsz
     THEN /\ Becomes(p, [Return(r) EXCEPT !.sz = r.newsz])
          /\ image' = [image EXCEPT ![p] = [v \in UserPages |->
                         IF v >= PGROUNDUP(r.sz) /\ v * PGSIZE < r.newsz THEN zero ELSE @[v]]]
          /\ UNCHANGED <<free, mem>>
     ELSE IF CanMap(Memory(r.space), r.a)
     THEN /\ free' = m.free /\ mem' = m.mem
          /\ Becomes(p, [r EXCEPT !.space = m.s, !.a = @ + 1])
          /\ UNCHANGED image
     ELSE /\ free' = u.free /\ mem' = u.mem
          /\ Becomes(p, [Return(r) EXCEPT !.space = u.s])
          /\ UNCHANGED image

-----------------------------------------------------------------------------
(* fork() *)

\* allocproc(): a slot and a kernel stack.
fork(p, q) ==
  /\ User(p) /\ proc[q].state = "UNUSED" /\ free # {}
  /\ free' = free \ {kalloc(free)}
  /\ proc' = [proc EXCEPT ![p].pc = "copyuvm", ![p].child = q,
                          ![q].state = "EMBRYO", ![q].kstack = kalloc(free)]
  /\ UNCHANGED <<mem, image>>

\* Mutant: the kernel stack of the child is kept.
ForkFails_stack(p, m) ==
  /\ free' = freevm(m).free /\ mem' = freevm(m).mem
  /\ proc' = [proc EXCEPT ![p] = Return(@), ![proc[p].child] = Unused]
  /\ UNCHANGED image

ForkFails(p, m) ==
  LET u == kfree(freevm(m), {proc[proc[p].child].kstack}) IN
  /\ free' = u.free /\ mem' = u.mem
  /\ proc' = [proc EXCEPT ![p] = Return(@), ![proc[p].child] = Unused]
  /\ UNCHANGED image

\* copyuvm(): setupkvm(), then a page in each turn.
copyuvm(p) ==
  LET r == proc[p]
      q == r.child
      m == Memory(r.new)
      from == r.space.pte[r.a]
      n == IF r.new.dir = 0 THEN setupkvm(m) ELSE map(m, r.a, mem[from])
  IN
  /\ r.pc = "copyuvm"
  /\ IF r.new.dir # 0 /\ r.a * PGSIZE >= r.sz
     THEN /\ proc' = [proc EXCEPT ![p] = Return(r), ![q].state = "RUNNING", ![q].space = [r.new EXCEPT !.guard = r.space.guard],
                                  ![q].sz = r.sz, ![q].parent = p]
          /\ image' = [image EXCEPT ![q] = image[p]]
          /\ UNCHANGED <<free, mem>>
     ELSE IF r.new.dir # 0 /\ from = 0
     THEN Becomes(p, [r EXCEPT !.pc = "panic"]) /\ UNCHANGED <<free, mem, image>>
     ELSE IF IF r.new.dir = 0 THEN CanSetup(m) ELSE CanMap(m, r.a)
     THEN /\ free' = n.free /\ mem' = n.mem
          /\ Becomes(p, [r EXCEPT !.new = n.s, !.a = IF r.new.dir = 0 THEN @ ELSE @ + 1])
          /\ UNCHANGED image
     ELSE ForkFails(p, m)

-----------------------------------------------------------------------------
(* exec() *)

\* Up to the loop over the program headers; the inode's part is in FileSystem.
exec(p, prog) ==
  LET r == proc[p]
      m == setupkvm(Memory(NoSpace))
      ok == prog.bad # "magic" /\ CanSetup(Memory(NoSpace))
  IN
  /\ User(p)
  /\ IF ok THEN /\ free' = m.free /\ mem' = m.mem
                /\ Becomes(p, [r EXCEPT !.pc = "exec", !.new = m.s, !.prog = prog])
     ELSE Becomes(p, r) /\ UNCHANGED <<free, mem>>
  /\ UNCHANGED image

\* The label bad: everything that was built goes.
ExecFails(p) ==
  LET m == freevm(Memory(proc[p].new)) IN
  /\ free' = m.free /\ mem' = m.mem
  /\ Becomes(p, Return(proc[p])) /\ UNCHANGED image

\* freevm(oldpgdir).
Replaced(m, old) == kfree(m, Owned(old))

\* A turn of the loop of allocuvm(), for a segment or for the stack.
exec_page(p) ==
  LET r == proc[p]
      m == map(Memory(r.new), r.a, zero)
  IN
  /\ r.pc = "exec" /\ r.a * PGSIZE < r.end
  /\ IF CanMap(Memory(r.new), r.a)
     THEN /\ free' = m.free /\ mem' = m.mem
          /\ Becomes(p, [r EXCEPT !.new = m.s, !.a = @ + 1]) /\ UNCHANGED image
     ELSE ExecFails(p)

\* The pages of a segment are read from the file.
loaduvm(r) ==
  LET loaded == {r.new.pte[v] : v \in {v \in UserPages : v >= PGROUNDUP(r.newsz) /\ v < r.a}}
  IN  [x \in Pages |-> IF x \in loaded THEN text ELSE mem[x]]

\* The rest of a turn for segment k (none at first), and what comes before the loop of
\* allocuvm() for the next segment, or for the stack.
exec_load(p) ==
  LET r == proc[p]
      n == Len(r.prog.segs)
      next == IF r.k = n THEN (r.a + 2) * PGSIZE ELSE r.prog.segs[r.k + 1]
      fails == \/ r.k > 0 /\ r.end = 0
               \/ r.k > 0 /\ r.k = n /\ r.prog.bad = "load"
               \/ r.k + 1 = n /\ r.prog.bad = "phdr"
               \/ next >= KERNBASE
  IN
  /\ r.pc = "exec" /\ r.a * PGSIZE >= r.end /\ r.k <= n
  /\ IF fails THEN ExecFails(p)
     ELSE /\ mem' = loaduvm(r)
          /\ Becomes(p, [r EXCEPT !.k = @ + 1, !.newsz = r.end, !.end = Max({r.end, next})])
          /\ UNCHANGED <<free, image>>

\* The arguments, and clearpteu(), and the new image takes the place of the old one.
exec_commit(p) ==
  LET r == proc[p]
      top == r.new.pte[r.a - 1]
      m == Replaced([Memory(r.new) EXCEPT !.mem[top] = args], r.space)
  IN
  /\ r.pc = "exec" /\ r.a * PGSIZE >= r.end /\ r.k > Len(r.prog.segs)
  /\ IF r.prog.bad = "args" THEN ExecFails(p)
     ELSE /\ free' = m.free /\ mem' = m.mem
          /\ Becomes(p, [Return(r) EXCEPT !.space = [r.new EXCEPT !.guard = r.a - 2], !.sz = r.end])
          /\ image' = [image EXCEPT ![p] = [v \in UserPages |->
                         IF v = r.a - 1 THEN args ELSE IF v = r.a - 2 THEN zero ELSE IF v < r.a - 2 THEN text ELSE junk]]

-----------------------------------------------------------------------------
(* exit(), wait(), and the process itself *)

\* exit(), by itself or because trap() killed it: its program is not mapped any more.
exit(p) ==
  /\ Runs(p) /\ p # 1
  /\ proc' = [q \in Procs |-> IF q = p THEN [proc[p] EXCEPT !.state = "ZOMBIE"]
                              ELSE IF proc[q].parent = p THEN [proc[q] EXCEPT !.parent = 1] ELSE proc[q]]
  /\ UNCHANGED <<free, mem, image>>

wait(p, q) ==
  LET m == kfree(freevm(Memory(proc[q].space)), {proc[q].kstack}) IN
  /\ User(p) /\ proc[q].state = "ZOMBIE" /\ proc[q].parent = p
  /\ free' = m.free /\ mem' = m.mem
  /\ Becomes(q, Unused) /\ UNCHANGED image

\* A store to a page of the process.
store(p, v) ==
  LET x == proc[p].space.pte[v] IN
  /\ User(p) /\ x # 0 /\ v # proc[p].space.guard
  /\ mem' = [mem EXCEPT ![x] = p]
  /\ image' = [image EXCEPT ![p][v] = p]
  /\ UNCHANGED <<free, proc>>

-----------------------------------------------------------------------------

\* userinit(): init has one page.
First ==
  LET k == [free |-> Pages \ {Min(Pages)}, mem |-> [x \in Pages |-> junk], s |-> NoSpace]
      m == map(setupkvm(k), 0, zero)
  IN  [m EXCEPT !.mem[m.s.pte[0]] = text]

Init ==
  /\ free = First.free /\ mem = First.mem
  /\ proc = [p \in Procs |-> IF p # 1 THEN Unused
               ELSE [Unused EXCEPT !.state = "RUNNING", !.kstack = Min(Pages), !.space = First.s, !.sz = PGSIZE]]
  /\ image = [p \in Procs |-> [v \in UserPages |-> IF p = 1 /\ v = 0 THEN text ELSE junk]]

\* init only makes processes and waits for them.
Next ==
  \E p \in Procs :
    \/ grow(p) \/ copyuvm(p) \/ exec_page(p) \/ exec_load(p) \/ exec_commit(p)
    \/ \E q \in Procs : fork(p, q) \/ wait(p, q)
    \/ p # 1 /\ \/ \E n \in Increments : sbrk(p, n)
                \/ \E prog \in Programs : exec(p, prog)
                \/ \E v \in Stores : store(p, v)
    \/ exit(p)

Spec == Init /\ [][Next]_vars

-----------------------------------------------------------------------------
(* Properties *)

Spaces == [dir : Pages \cup {0}, kern : SUBSET Pages, guard : UserPages \cup {-1},
           tab : [0..(NPDENTRIES - 1) -> Pages \cup {0}], pte : [UserPages -> Pages \cup {0}]]

TypeOK ==
  /\ free \subseteq Pages /\ mem \in [Pages -> {zero, junk, text, args} \cup Procs]
  /\ image \in [Procs -> [UserPages -> {zero, junk, text, args} \cup Procs]]
  /\ \A p \in Procs :
       /\ proc[p].space \in Spaces /\ proc[p].new \in Spaces /\ proc[p].kstack \in Pages \cup {0}
       /\ proc[p].sz \in 0..(KERNBASE - 1) /\ proc[p].parent \in Procs \cup {0}

\* Every page is free or has one owner: a kernel stack, or one place in one address
\* space, in use or being built.  No failure half way through fork(), exec() or
\* sbrk() loses a page or frees one twice.
Entries(s) ==
  Cardinality({x \in {s.dir} : x # 0}) + Cardinality(s.kern) +
  Cardinality({d \in DOMAIN s.tab : s.tab[d] # 0}) + Cardinality({v \in UserPages : s.pte[v] # 0})

PagesExact ==
  LET stacks == {p \in Procs : proc[p].kstack # 0}
      all == free \cup {proc[p].kstack : p \in stacks} \cup UNION {Owned(proc[p].space) \cup Owned(proc[p].new) : p \in Procs}
  IN  /\ TypeOK /\ all = Pages
      /\ Cardinality(free) + Cardinality(stacks)
           + MapThenSumSet(LAMBDA p : Entries(proc[p].space) + Entries(proc[p].new), Procs) = Cardinality(Pages)

\* A process finds in its memory what it has put there, what its parent had put there
\* when it was forked, the program that it executes, or zeroes; never what another
\* process has written since, nor what a page held before.  After sbrk(-sz) the process
\* has no program to go on with, and what is left of it is a matter of PagesExact.
ImageRight ==
  \A p \in Procs : User(p) => \A v \in UserPages : v * PGSIZE < proc[p].sz =>
    proc[p].space.pte[v] # 0 /\ mem[proc[p].space.pte[v]] = image[p][v]

\* copyuvm() finds every page below sz ("copyuvm: page not present" is not reached), and
\* nothing is mapped above: what sbrk() maps next is free ("remap").
NoMemPanic ==
  \A p \in Procs :
    /\ proc[p].pc # "panic"
    /\ User(p) => \A v \in UserPages : v * PGSIZE >= proc[p].sz => proc[p].space.pte[v] = 0
=============================================================================
