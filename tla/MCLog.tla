------------------------------- MODULE MCLog -------------------------------
EXTENDS Log
CONSTANTS p1, p2, p3, b1, b2, b3
ThreeProcs == {p1, p2, p3}
ThreeBlocks == {b1, b2, b3}

\* All blocks start with the same data.
MCInit ==
  /\ Init
  /\ home = [b \in Blocks |-> 0] /\ logdata = [i \in 1..LOGSIZE |-> 0]

MCSpec == MCInit /\ [][Next]_vars
MCFairSpec == MCSpec /\ Fairness
=============================================================================
