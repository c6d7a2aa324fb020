SPECIFICATION Spec
CONSTANTS
  t1 = t1
  t2 = t2
  Threads = {t1, t2}
  v1 = v1
  v2 = v2
  v3 = v3
  v4 = v4
  v5 = v5
  Vaddrs = {v1, v2, v3, v4, v5}
  MinBytes = 19
  Requests = {0, 1, 3}
  Pad = 2
  MaxLocks = 1
  Nobody = Nobody
  Null = Null
SYMMETRY Symmetry
INVARIANTS
  PiecesTile
  FreeListExact
  AddressesAgree
  FreeNeverWaits
PROPERTIES
  ShiftPacks
  ImplementsHeap
