SPECIFICATION Spec
CONSTANTS
  a = a
  b = b
  Cell = {a, b}
  Addrs = {a, b}
  TableSize = 2
  Tables = {1, 2, 3}
  MaxRoots = 4
  Null = Null
  None = None
  NoId = NoId
  NoAddr = NoAddr
INVARIANTS
  ChainIsSound
  FreeListHasFreeEntries
  RootsArePushed
PROPERTIES
  ImplementsDeque
  ImplementsRootMap
SYMMETRY Swap
