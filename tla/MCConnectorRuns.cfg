SPECIFICATION FairSpec
CONSTANTS
  a1 = a1
  a2 = a2
  Assets <- TwoAssets
  Editions <- TwoEditions
  Offered <- AlwaysBoth
  Schema <- Shapes
  Reviews <- NewReviewed
  MinimumRecords = 1
  MaximumRecords = 2
  MaximumFailurePercent = 50
  MaximumVolumeChangePercent = 40
  MaximumConsecutiveFailures = 2
  MaxFaults = 3
  Faults <- FaultKinds
INVARIANTS
  ConnectorInv
  CheckpointIsRetained
PROPERTIES
  CheckpointFollowsOutput
  OutputChangesHealthily
  CatchesUp
CHECK_DEADLOCK FALSE
