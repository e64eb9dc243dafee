SPECIFICATION FairSpec
CONSTANTS
  ny = ny
  c1 = c1
  c2 = c2
  c3 = c3
  NoContent = NoContent
  States <- OneState
  Contents <- ThreeContents
  StateOf <- AllOfNy
  Date <- Dates
  Revision <- Revisions
  BuildPins <- OneBuild
  MaxFaults = 2
  Faults <- DiskFaults
INVARIANTS
  TypeOK
  ShownIsWhole
  CopyRecovers
  FloorCovers
PROPERTIES
  MapStays
  NoBuildPinAfterUpdate
  RetrySucceeds
CHECK_DEADLOCK FALSE
