SPECIFICATION GSpec
CONSTANTS
  t1 = t1
  Mutators = {t1}
  Nobody = Nobody
  MaxCells = 3
  MaxRoots = 2
  MaxFresh = 1
  TableCap = 1
  RtLen = 1
  NewRtLen = 0
  MaxHeld = 1
  Reads = FALSE
  Unlinks = TRUE
  RootsUnderLock = FALSE
  DerootsUnderRead = TRUE
  OneBlock = FALSE
INVARIANTS
  TypeOK
  ReachableAreAllocated
  ReachableAreMarked
  NothingHidden
  VisitStackSound
  SweepNeverWaits
  GarbageIsUnvisited
