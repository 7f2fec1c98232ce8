SPECIFICATION Spec
CONSTANTS
  Locked = TRUE
  MayDeinit = TRUE
  MaxInits = 2
  MaxSleep = 5
  Delays = {0, 1, 2, 5}
  NoTimer = 9
INVARIANT TypeOK OneTaskInLvgl LockBalanced StaysUp
PROPERTY Served
CHECK_DEADLOCK FALSE
