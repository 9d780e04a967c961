SPECIFICATION Spec
CONSTANTS
  FRAGS = 4
  BLOCKS = 4
  COUNT = 4
  ZoneSegs = 1
  VoluSize = 96
  AllocBeg = 19
  Requests <- MCSameSize
  Pfs = {p1}
  Spmp = spmp
  NULL = NULL
  MaxAlloc = 6
  MaxSync = 0
INVARIANT DeniedWhenFull
