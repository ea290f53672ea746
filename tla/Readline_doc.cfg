SPECIFICATION Spec
CONSTANTS
  Sizes <- OneSize
  SizeMax = 7
  MaxBytes = 4
  Failing <- None
INVARIANT ReadsAtMostN
