SPECIFICATION FairSpec
CONSTANTS
  main = main
  inner = inner
  mainTask = mainTask
  innerTask = innerTask
  a = a
  b = b
  nested = nested
  None = None
  Blocker <- TwoBlocks
  Coro <- BlockInTask
  Root <- InTaskRoot
  Host <- InTaskHost
  Parent <- InTaskParent
PROPERTY NestedBlockReturns
CHECK_DEADLOCK FALSE
