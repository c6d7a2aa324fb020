\* Two callers, two addresses, three blocks.  A block of the default size
\* has room for one small object, one made for a large object for two.
CONSTANTS
  t1 = t1
  t2 = t2
  Threads = {t1, t2}
  Vaddrs = {1, 2}
  Blocks = {1, 2, 3}
  MbMinBytes = 4
  Requests = {0, 2, 8}
  Header = 2
  Pad = 2
  SearchDiv = 1
  MaxLocks = 1
  Nobody = Nobody
  Null = Null
SPECIFICATION Spec
SYMMETRY Swap
CHECK_DEADLOCK FALSE
INVARIANTS
  HeadersAreTrue
  BlocksAreListed
PROPERTY ImplementsObjectSpace
