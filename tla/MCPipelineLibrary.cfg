SPECIFICATION Spec
CONSTANTS
  BatchLimit = 2
  Sessions = {h1, h2}
  Notes = {n1}
  NoSession = NoSession
  MaxSequence = 3
  MaxFaults = 2
  Faults <- OrderlyFaults
SYMMETRY SessionSymmetry
INVARIANTS
  TypeOK
  CheckpointBacked
  AcknowledgedDurable
  NothingLost
  SealedIsSaved
  CommittedMatchesLibrary
  OneBatchAhead
  JournalDurable
  TrackerFollows
PROPERTY
  PromiseKept
