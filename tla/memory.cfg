SPECIFICATION Spec
CONSTANTS
 Procs = {1, 2, 3}
 Pages = {1, 2, 3, 4, 5, 6, 7, 8, 9, 10, 11, 12, 13, 14, 15, 16, 17}
 PGSIZE = 2
 NPTENTRIES = 4
 NPDENTRIES = 2
 NKERN = 1
 Programs <- MCPrograms
 Increments <- MCIncrements
 Stores = {1}
VIEW MCView
INVARIANTS PagesExact ImageRight NoMemPanic
