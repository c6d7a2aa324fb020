SPECIFICATION Spec
CONSTANTS
  t1 = t1
  Mutators = {t1}
  Nobody = Nobody
  MaxCells = 3
  MaxRoots = 2
  MaxFresh = 2
  TableCap = 1
  RtLen = 1
  NewRtLen = 1
  MaxHeld = 1
  Reads = FALSE
  Unlinks = FALSE
  RootsUnderLock = FALSE
  DerootsUnderRead = TRUE
  OneBlock = FALSE
INVARIANT ReachableAreMarked
