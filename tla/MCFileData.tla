----------------------------- MODULE MCFileData -----------------------------
EXTENDS FileData, TLC
\* A process is only compared with others, also as the byte that it writes.
Symmetry == Permutations(Procs)
=============================================================================
