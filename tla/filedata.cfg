SPECIFICATION Spec
CONSTANTS
 Procs = {p1, p2}
 NCALL = 2
 Inums = {1, 2}
 Files = {1, 2}
 NBLOCK = 9
 BSIZE = 2
 NDIRECT = 2
 BPB = 10
 MAXOPBLOCKS = 6
 Sizes = {1, 4}
 Made = {0, 5}
SYMMETRY Symmetry
CHECK_DEADLOCK FALSE
INVARIANTS BlocksExact ImageExact ReadBack FitsReservation
