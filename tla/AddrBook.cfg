SPECIFICATION FairSpec
CONSTANTS
  t1 = t1
  t2 = t2
  t3 = t3
  Threads = {t1, t2, t3}
  TableCap = 2
  MaxTables = 3
  MaxLive = 5
  Null = Null
INVARIANTS
  TypeOK
  ListIsSound
  ListRepairPending
  CellsAccountedFor
PROPERTIES
  GrowsOnlyWhenFull
  PutReturns
