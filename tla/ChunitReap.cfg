\* Two suites of one test, one other child, two process ids.
CONSTANTS
  Pids = {1, 2}
  NoPid = NoPid
  InterruptReap = TRUE
  SuiteSizes <- MCSuiteSizes
  Kinds <- MCKinds
  Words <- MCWords
  PipeCap = 2
  MaxOthers = 1
  JoinsThreads = TRUE
SPECIFICATION Spec
CHECK_DEADLOCK FALSE
INVARIANT KillsOwnChildren
