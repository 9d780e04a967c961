SPECIFICATION Spec
CONSTANTS
  a = a
  b = b
  c = c
  leaf = leaf
  Daemons = {a, b, c, leaf}
  Conns <- MCTail
  Home = a
  Kernel = k
  Starts <- MCUp
  MaxDist = 2
  MaxRelays = 2
  Repeats <- MCAgainACB
  Breakable <- MCAB
INVARIANT UpdatesIssued
CHECK_DEADLOCK FALSE
