SPECIFICATION FairSpec
CONSTANTS
  Named <- ThreeFifos
  MAX_EVENTS = 2
  MAX_BUF = 1
  MaxBytes = 2
  MaxArrivals = 2
  Failing <- AllCalls
INVARIANTS Counted ReadNeverBlocks Drained
PROPERTY Terminates
