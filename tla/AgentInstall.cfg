CONSTANTS
  p1 = p1
  p2 = p2
  Providers <- Two
  Versions <- Releases
  Matches <- Begins
  NoFile = NoFile
  MaxTests = 2
  MaxConnects = 2
  MaxTroubles = 1
SPECIFICATION Spec
INVARIANTS
  TypeOK
  InstalledIsWhole
  StartsOwnAgent
  LockHasOwner
  StagedStays
PROPERTIES
  ConnectEnds
CHECK_DEADLOCK FALSE
