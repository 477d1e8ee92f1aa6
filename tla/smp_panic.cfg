CONSTANTS
  NPROC = 2
  CPUS = {c0, c1}
  BootCpu = c0
  LEVELS = 1
  STARTING_LEVEL = 0
  PROC_QUANTUM = 1
  LEVEL_QUANTUM = 2
  Chans = {ticks}
  TicksChan = ticks
  NULL = NULL
SPECIFICATION Spec
VIEW View
CONSTRAINTS NoKills TicksBound
INVARIANT UnqueueFindsProc
