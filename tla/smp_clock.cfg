CONSTANTS
  NPROC = 2
  CPUS = {c0, c1}
  BootCpu = c0
  LEVELS = 1
  STARTING_LEVEL = 0
  PROC_QUANTUM = 1
  LEVEL_QUANTUM = 1
  Chans = {ticks}
  TicksChan = ticks
  NULL = NULL
SPECIFICATION Spec
VIEW View
CONSTRAINTS FewKills TicksBound
INVARIANTS
  OneCpuPerProcess
  NoLostWait
