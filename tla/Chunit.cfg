\* Two suites of one test, one other child, two process ids.
CONSTANTS
  Pids = {1, 2}
  NoPid = NoPid
  InterruptReap = FALSE
  SuiteSizes <- MCSuiteSizes
  Kinds <- MCKinds
  Words <- MCWords
  PipeCap = 2
  MaxOthers = 1
  JoinsThreads = TRUE
SPECIFICATION FairSpec
CHECK_DEADLOCK FALSE
INVARIANTS
  ChildrenAccounted
  ResultIsTrue
  PipesClosed
PROPERTY RunEnds
