SPECIFICATION WakeupsSpec
CONSTANTS
  c1 = c1
  c2 = c2
  c3 = c3
  None = None
  Coro <- ThreeCoros
  Rounds = 2
  Thread <- Two
  threadLimit = 2
  perIdle = 2
  Parent <- Nested
  Worker <- Two
  Modulus = 8
INVARIANTS
  MutualExclusion
  HandlesOK
  WokenOnce
  CountsAreExact
  QueuedHasThread
PROPERTIES
  QueuedBehindOwnerIsServed
  OwedIsWoken
  TaskStarts
  EmptyEarlyOnlyInCall
  SubmittedEnds
  JoinsUnlessMissed
CHECK_DEADLOCK FALSE
