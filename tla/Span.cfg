SPECIFICATION Spec
CONSTANTS
  a = a
  b = b
  c = c
  leaf = leaf
  Daemons = {a, b, c}
  Conns <- MCTriangle
  Home = a
  Kernel = k
  Starts <- MCStarts
  MaxDist = 2
  MaxRelays = 2
  Repeats <- MCAgainACB
  Breakable <- MCABBC
INVARIANTS TypeOK Grounded DistBound NoRing
CHECK_DEADLOCK FALSE
