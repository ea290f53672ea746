SPECIFICATION Spec
CONSTANTS
  Clients <- OneClient
  Request <- Hi
  ServerSize = 300
  ClientSize = 30
  Failing <- None
  Killable <- None
INVARIANT ConnectionEstablished
