SPECIFICATION FairSpec
CONSTANTS
  Threads = {t1, t2, t3}
  Functions = {f1, f2, f3, f4}
  NoFunction = NoFunction
INVARIANTS
  NoIdleWhileQueued
PROPERTIES
  ImplementsExecutor
  AddedIsCalled
  DestructorReturns
CHECK_DEADLOCK FALSE
