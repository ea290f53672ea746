SPECIFICATION FairSpec
CONSTANTS
  Clients <- TwoClients
  Request <- Hi
  ServerSize = 5
  ClientSize = 4
  Failing <- AllCalls
  Killable <- Everyone
INVARIANT AckMeansReceived
PROPERTIES ClientsEnd ServerEnds
