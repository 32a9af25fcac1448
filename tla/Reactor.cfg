SPECIFICATION StackSpec
CONSTANTS
  n1 = n1
  n2 = n2
  n3 = n3
  w1 = w1
  w2 = w2
  s1 = s1
  s2 = s2
  f1 = f1
  f2 = f2
  k1 = k1
  k2 = k2
  None = None
  Sleeper <- MCSleeper
  Duration <- MCDuration
  Fd <- MCFd
  Waiter <- MCWaiter
  Key <- MCKey
  Clients <- MCClients
  Notifier <- MCNotifier
  PollThread <- MCPollThread
INVARIANTS
  RaisedIsDelivered
  SleeperInOnePlace
  WaitIsBounded
  OnlyOvertakenStarve
  FdsHeldOnce
PROPERTIES
  RefinesNotification
  SleepEnds
  WokenByOwnEvent
CHECK_DEADLOCK FALSE
