SPECIFICATION FairSpec
CONSTANTS
  N = 3
  MaxJobCtl = 2
  Failing <- AllButWaitpid
INVARIANTS HandlerConfined NoLostChild
PROPERTIES Implements AllDeadLeadsToExit
