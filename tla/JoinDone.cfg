SPECIFICATION JoinSpec
CONSTANTS
  t1 = t1
  t2 = t2
  t3 = t3
  Handle <- Three
  NonVoid <- Values
  Order <- OneByOne
INVARIANT OneWhenDone
CHECK_DEADLOCK FALSE
