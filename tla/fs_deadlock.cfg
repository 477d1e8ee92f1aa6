SPECIFICATION TSpec
CONSTANTS
 Procs = {1, 2}
 NINODES = 10
 NINODE = 5
 NFILE = 3
 NOFILE = 2
 Calls <- MCCalls
 Scenarios <- MCLinkUnlink
CHECK_DEADLOCK FALSE
INVARIANT NoDeadlock
