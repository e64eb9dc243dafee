SPECIFICATION Spec
CONSTANTS
  Pids = {p1, p2, p3}
  None = None
  Contents = {c1, c2}
  MaxClock = 2
  MaxFaults = 2
  Faults <- AllFaults
  ConcurrentTakeover = FALSE
SYMMETRY PidSymmetry
INVARIANTS
  TypeOK
  OneWriter
  LeftAsFound
PROPERTY
  RevisionsGrow
CHECK_DEADLOCK FALSE
