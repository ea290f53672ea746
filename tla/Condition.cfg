SPECIFICATION FairSpec
CONSTANTS
  N = 3
  Failing <- AllCalls
INVARIANTS Counted NoLostWakeup JoinNeedsNoMutex
PROPERTIES Implements Terminates
CHECK_DEADLOCK FALSE
