SPECIFICATION Spec
CONSTANTS
  Pids = {p1, p2, p3}
  None = None
  Contents = {c1}
  MaxClock = 1
  MaxFaults = 1
  Faults = {"crash"}
  ConcurrentTakeover = TRUE
INVARIANT
  OneWriter
CHECK_DEADLOCK FALSE
