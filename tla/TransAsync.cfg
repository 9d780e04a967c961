SPECIFICATION FairSpec
CONSTANTS
  Threads = {t1, t2, t3}
  Pfs = {p1}
  Spmp = spmp
  NULL = NULL
  SyncFlush = FALSE
  XidMod = 16
  MaxXid = 5
  MaxInum = 1025
INVARIANTS HeadRuns FlushSeparates
PROPERTY SleeperRuns
