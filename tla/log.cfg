SPECIFICATION MCFairSpec
CONSTANTS
  p1 = p1
  p2 = p2
  p3 = p3
  b1 = b1
  b2 = b2
  b3 = b3
  None = None
  Procs <- ThreeProcs
  Blocks <- ThreeBlocks
  Values = {0, 1}
  MAXOPBLOCKS = 2
  LOGSIZE = 4
  SIZE = 4
  OpBlocks = 1
INVARIANTS Durable NoLogPanic NoIdleSleeper LogFits
PROPERTIES Atomic SleepersWake
