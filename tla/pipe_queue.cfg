CONSTRAINT OneMark
SPECIFICATION MCFairSpec
CONSTANTS
  p1 = p1
  p2 = p2
  Procs <- TwoProcs
  Bytes = {0, 1}
  PIPESIZE = 2
  UINTS = 4
  MAXN = 3
  SMP = FALSE

INVARIANTS FreedLast SleepersWait KilledAwake
PROPERTIES IsChannel SleepsEnd
CHECK_DEADLOCK FALSE
