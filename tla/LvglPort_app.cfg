SPECIFICATION Spec
CONSTANTS
  Locked = FALSE
  MayDeinit = FALSE
  MaxInits = 1
  MaxSleep = 5
  Delays = {0, 1, 2, 5}
  NoTimer = 9
INVARIANT OneTaskInLvgl
