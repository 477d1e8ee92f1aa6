------------------------------ MODULE MCMemory ------------------------------
EXTENDS Memory
\* Programs of no, one and two segments, the second one above or below the first, and
\* what may be wrong with a file.
MCPrograms == {[segs |-> <<2>>, bad |-> "no"], [segs |-> <<1, 3>>, bad |-> "no"], [segs |-> <<3, 1>>, bad |-> "no"],
               [segs |-> << >>, bad |-> "no"], [segs |-> <<1>>, bad |-> "args"], [segs |-> <<2>>, bad |-> "load"],
               [segs |-> <<1, 3>>, bad |-> "phdr"], [segs |-> <<2>>, bad |-> "magic"]}
\* To a page that is half used, past two pages, back, to nothing, and below it.
MCIncrements == {3, -2, -7}
\* Pages differ by what they are used for; which page is used for it makes no
\* difference as long as every page has one use.
Shape(s) == <<s.dir # 0, Cardinality(s.kern), s.guard, [d \in DOMAIN s.tab |-> s.tab[d] # 0],
              [v \in UserPages |-> IF s.pte[v] = 0 THEN <<0>> ELSE <<mem[s.pte[v]]>>]>>
MCView ==
  <<Cardinality(free), PagesExact, ImageRight, image,
    [p \in Procs |-> <<Shape(proc[p].space), Shape(proc[p].new),
                       [proc[p] EXCEPT !.space = 0, !.new = 0, !.kstack = 0]>>]>>
=============================================================================
