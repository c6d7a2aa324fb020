SPECIFICATION Spec
CONSTANTS
  t1 = t1
  t2 = t2
  Mutators = {t1, t2}
  Nobody = Nobody
  MaxCells = 3
  MaxRoots = 2
  MaxFresh = 1
  TableCap = 1
  RtLen = 1
  NewRtLen = 0
  MaxHeld = 1
  Reads = FALSE
  Unlinks = FALSE
  RootsUnderLock = TRUE
  DerootsUnderRead = TRUE
  OneBlock = FALSE
INVARIANTS
  ReachableAreMarked
SYMMETRY Threads
