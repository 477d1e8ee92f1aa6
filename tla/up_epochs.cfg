CONSTANTS
  NPROC = 3
  CPUS = {c0}
  BootCpu = c0
  LEVELS = 2
  STARTING_LEVEL = 0
  PROC_QUANTUM = 2
  LEVEL_QUANTUM = 3
  Chans = {ticks}
  TicksChan = ticks
  NULL = NULL
SPECIFICATION HSpec
VIEW View
CONSTRAINTS NoKills NoWaits NoExits
INVARIANTS
  BoundedShare
PROPERTIES
  SwapOnlyWhenIdle
  SwapStartsEpoch
  DownTheStairs
  NoOvertaking
