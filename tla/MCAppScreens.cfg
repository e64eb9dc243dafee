SPECIFICATION Spec
CONSTANTS
  Datasets = {d1, d2}
  None = None
  MaxDatasets = 1
  Periods = 2
  MaxEvents = 3
SYMMETRY DatasetSymmetry
CONSTRAINT OneWaits
INVARIANTS
  ScreensInv
  ShownIsGranted
  ImportedIsKept
CHECK_DEADLOCK FALSE
