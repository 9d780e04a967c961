SPECIFICATION Spec
CONSTANTS
  VoluSize = 8192
  MaxFlush = 6
  MaxIdle = 0
INVARIANT NotOverwritten
