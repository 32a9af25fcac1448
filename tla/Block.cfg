SPECIFICATION ExecutorsSpec
CONSTANTS
  main = main
  inner = inner
  mainTask = mainTask
  innerTask = innerTask
  a = a
  b = b
  nested = nested
  None = None
  root = root
  d1 = d1
  d2 = d2
  d3 = d3
  p1 = p1
  p2 = p2
  mainThread = mainThread
  InlineCoro <- RootAndThree
  Pool <- TwoThreads
  InlineParent <- InlineTree
  Calls <- RootCallsMost
  Blocker <- OneBlock
  Coro <- Tree
  Root <- TreeRoot
  Host <- TreeHost
  Parent <- TreeParent
INVARIANTS
  BlockWaitsForDetached
  InlineBlockWaits
  IdleQueueIsForeign
  NoLostWakeup
PROPERTIES
  BlockReturns
  InlineBlockReturns
CHECK_DEADLOCK FALSE
