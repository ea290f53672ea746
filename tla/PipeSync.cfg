SPECIFICATION FairSpec
CONSTANTS
  N = 3
  Failing <- AllCalls
  Killable <- AllChildren
PROPERTIES Implements Terminates
