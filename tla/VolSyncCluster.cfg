SPECIFICATION Spec
CONSTANTS
  d1 = d1
  d2 = d2
  Devs = {d1, d2}
  Cluster <- MCTwo
  NULL = NULL
  VoluSize = 2056
  MaxModify = 2
INVARIANT AllVolumesSynced
