--------------------------- MODULE MCBufferCache ---------------------------
EXTENDS BufferCache, TLC
CONSTANTS p1, p2, p3, b1, b2, b3, k1, k2, k3, k4
MCInit ==
  /\ Init
  /\ data = [b \in Bufs |-> 0] /\ disk = [k \in Blocks |-> 0]
MCSpec == MCInit /\ [][Next]_vars
Symmetry == Permutations(Procs) \cup Permutations(Bufs) \cup Permutations(Blocks)
=============================================================================
