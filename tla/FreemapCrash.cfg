SPECIFICATION Spec
CONSTANTS
  FRAGS = 4
  BLOCKS = 4
  COUNT = 4
  ZoneSegs = 1
  VoluSize = 96
  AllocBeg = 35
  Requests <- MCSmall
  Pfs = {p1}
  Spmp = spmp
  NULL = NULL
  MaxAlloc = 4
  MaxSync = 1
INVARIANT DisjointAfterCrash
