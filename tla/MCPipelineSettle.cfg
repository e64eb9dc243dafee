SPECIFICATION FinishingSpec
CONSTANTS
  BatchLimit = 1
  Sessions = {h1}
  Notes = {n1}
  NoSession = NoSession
  MaxSequence = 3
  MaxFaults = 3
  Faults = {"store", "seal", "sensor"}
PROPERTY
  HikeIsSaved
  OperationsEnd
