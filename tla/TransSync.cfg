SPECIFICATION FairSpec
CONSTANTS
  Threads = {t1, t2, t3}
  Pfs = {p1}
  Spmp = spmp
  NULL = NULL
  SyncFlush = TRUE
  XidMod = 16
  MaxXid = 5
  MaxInum = 1025
INVARIANTS TypeOK HeadRuns FlushAlone FlushCounted ConcurrentBehindFlush
PROPERTY SleeperRuns
