CONSTANTS
  NPROC = 3
  CPUS = {c0}
  BootCpu = c0
  LEVELS = 2
  STARTING_LEVEL = 0
  PROC_QUANTUM = 1
  LEVEL_QUANTUM = 2
  Chans = {ticks}
  TicksChan = ticks
  NULL = NULL
SPECIFICATION FairSpec
CONSTRAINTS NoKills LastExits
PROPERTIES
  EveryRunnableRuns
  LockIsReleased
