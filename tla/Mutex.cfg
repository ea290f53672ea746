SPECIFICATION FairSpec
CONSTANTS
  Loop = 3
  Failing <- AllCalls
INVARIANTS NoLostUpdate Result
PROPERTY Terminates
CHECK_DEADLOCK FALSE
