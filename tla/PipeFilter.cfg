SPECIFICATION FairSpec
CONSTANTS
  Lines = 3
  Capacity = 2
  Failing <- AllCalls
  Killable <- Everyone
INVARIANTS Plumbed CountsAll
PROPERTIES Implements Terminates
