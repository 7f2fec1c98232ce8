SPECIFICATION Spec
CONSTANTS
  Locked = TRUE
  MayDeinit = TRUE
  MaxInits = 1
  MaxSleep = 5
  Delays = {0, 1, 2, 5}
  NoTimer = 9
PROPERTY DeinitStopsTask
CHECK_DEADLOCK FALSE
