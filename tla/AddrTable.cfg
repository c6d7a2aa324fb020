SPECIFICATION Spec
CONSTANTS
  t1 = t1
  t2 = t2
  t3 = t3
  Threads = {t1, t2, t3}
  Nobody = Nobody
  Cap = 2
  p1 = p1
  p2 = p2
  Blocks = {p1, p2}
  Null = Null
INVARIANTS
  SlotsAreOwnedOnce
  NothingLeaks
PROPERTIES
  ImplementsAddrSpace
