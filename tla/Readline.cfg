SPECIFICATION FairSpec
CONSTANTS
  Sizes <- AllSizes
  SizeMax = 7
  MaxBytes = 6
  Failing <- ReadFails
INVARIANTS InBuffer OneLine
PROPERTY HangUpLeadsToReturn
