SPECIFICATION Spec
CONSTANTS
  BatchLimit = 1
  Sessions = {h1}
  Notes = {n1}
  NoSession = NoSession
  MaxSequence = 2
  MaxFaults = 2
  Faults = {"crash", "torn"}
INVARIANT
  SpoolStaysReadable
