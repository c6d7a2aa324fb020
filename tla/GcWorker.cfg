SPECIFICATION FairSpec
CONSTANTS
  c1 = c1
  c2 = c2
  c3 = c3
  Callers = {c1, c2, c3}
  Starters = {c1, c2, c3}
  MaxWorkers = 3
  Nobody = Nobody
INVARIANTS
  OneCollector
  StatusIsTrue
PROPERTY StopReturns
