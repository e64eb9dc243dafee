SPECIFICATION Spec
CONSTANTS
  Laptops = {l1, l2}
  Sessions = {s1, s2}
  MaxRevision = 2
  MaxCode = 2
  MaxOps = 3
  MaxScans = 1
  MaxFaults = 1
  None = None
SYMMETRY Symmetry
INVARIANTS
  TransferInv
  BackgroundDisconnects
  ScanNotStuck
PROPERTIES
  TrustIsVouched
  InstalledWasShown
CHECK_DEADLOCK FALSE
