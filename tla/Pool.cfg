SPECIFICATION MCSpec
CONSTANTS
  a = a
  b = b
  nested = nested
  t1 = t1
  t2 = t2
  t3 = t3
  top = top
  body = body
  inner = inner
  other = other
  call = call
  voidCall = voidCall
  main = main
  None = None
  NullHandle = NullHandle
  Task <- ThreeTasks
  Parent <- Nested
  threadNum = 2
  Handle <- Three
  NonVoid <- Values
  Order <- OneByOne
  TaskFrames <- Tasks
  ContinueFrames <- Calls
  NonVoidFrames <- CallsForValue
INVARIANTS
  TasksAccountedFor
  NestedNeverLost
  LeftBehindOnlyIfAllStale
  ResumedOnce
  SuspendedJoinHasResult
  NoUseAfterDestroy
  NothingLeaked
  ExceptionsSurface
PROPERTIES
  DestructorReturns
  EverySubmittedRuns
  JoinAllReturns
  CallbackRuns
CHECK_DEADLOCK FALSE
