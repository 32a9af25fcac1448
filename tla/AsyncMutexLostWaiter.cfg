SPECIFICATION FairSpec
CONSTANTS
  c1 = c1
  c2 = c2
  c3 = c3
  None = None
  Coro <- TwoCoros
  Rounds = 1
PROPERTY EveryLockReturns
CHECK_DEADLOCK FALSE
