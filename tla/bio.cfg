SPECIFICATION MCSpec
CONSTANTS
  p1 = p1
  p2 = p2
  p3 = p3
  b1 = b1
  b2 = b2
  b3 = b3
  k1 = k1
  k2 = k2
  k3 = k3
  k4 = k4
  None = None
  Read = Read
  Idle = Idle
  Procs = {p1, p2}
  Bufs = {b1, b2, b3}
  Blocks = {k1, k2, k3, k4}
  Values = {0, 1}
  PINS = 2
  ReadOk = {TRUE}
CHECK_DEADLOCK FALSE
SYMMETRY Symmetry
INVARIANTS Coherent Exclusive SleepersWait
