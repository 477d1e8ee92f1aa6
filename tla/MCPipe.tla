------------------------------- MODULE MCPipe -------------------------------
EXTENDS Pipe, FiniteSets
CONSTANTS p1, p2
TwoProcs == {p1, p2}

\* kalloc() returned a page of zeroes; each process holds one end.
MCInit ==
  /\ Init
  /\ data = [j \in 0..(PIPESIZE - 1) |-> 0]
  /\ \A p \in Procs : hold[p] \in {{"r"}, {"w"}}

\* Nothing depends on the bytes: to see one lost, repeated or out of order it is
\* enough that one of those in the pipe or about to be written differs.
Marks == {<<p, i>> \in Procs \X (1..MAXN) : i <= Len(todo[p]) /\ todo[p][i] = 1}
OneMark == Cardinality(Marks) + Cardinality({j \in DOMAIN data : data[j] = 1}) <= 1

MCFairSpec == MCInit /\ [][Next]_vars /\ Fairness
=============================================================================
