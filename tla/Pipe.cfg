SPECIFICATION FairSpec
CONSTANTS
  Lengths <- Short
  BufSize = 2
  Capacity = 3
  Failing <- AllCalls
  Killable <- Everyone
PROPERTIES Implements Terminates
