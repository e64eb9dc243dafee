SPECIFICATION Spec
CONSTANTS
  ny = ny
  c1 = c1
  c2 = c2
  c3 = c3
  NoContent = NoContent
  States <- OneState
  Contents <- TwoContents
  StateOf <- BothOfNy
  Date <- BuildIsNewer
  Revision <- OneUpdate
  BuildPins <- OneBuild
  MaxFaults = 3
  Faults <- WornFaults
INVARIANTS
  LatestReinstallable
CHECK_DEADLOCK FALSE
