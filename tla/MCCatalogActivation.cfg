SPECIFICATION FairSpec
CONSTANTS
  v1 = v1
  v2 = v2
  v3 = v3
  forged = forged
  remapped = remapped
  oldKey = oldKey
  newKey = newKey
  NoCatalog = NoCatalog
  Catalogs <- FiveCatalogs
  Shipped = v1
  Version <- Versions
  Key <- Signers
  Keys <- TwoKeys
  Unsound <- OneForged
  BadRemaps <- OneRemapped
  Chunks = 2
  MaxEnds = 2
  MaxMishaps = 2
  EndPoints <- ResumablePoints
INVARIANTS
  ActivationInv
PROPERTIES
  SwitchIsVetted
  ActivationIsAtomic
  InterruptedActivates
CHECK_DEADLOCK FALSE
