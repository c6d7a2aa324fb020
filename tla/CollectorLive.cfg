SPECIFICATION FairSpec
CONSTANTS
  t1 = t1
  Mutators = {t1}
  Nobody = Nobody
  MaxCells = 2
  MaxRoots = 2
  MaxFresh = 1
  TableCap = 1
  RtLen = 1
  NewRtLen = 0
  MaxHeld = 1
  Reads = TRUE
  Unlinks = TRUE
  RootsUnderLock = FALSE
  DerootsUnderRead = FALSE
  OneBlock = TRUE
PROPERTIES
  CollectionEnds
  GarbageIsFreed
