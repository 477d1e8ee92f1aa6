SPECIFICATION TSpec
CONSTANTS
 Procs = {1, 2, 3}
 NINODES = 10
 NINODE = 5
 NFILE = 3
 NOFILE = 2
 Calls <- MCCalls
 Scenarios <- MCScenarios
CHECK_DEADLOCK FALSE
INVARIANTS RefExact InUse UniqueNames LinksCounted ImageExact NoLinkPanic TestsPass
