SPECIFICATION FairSpec
CONSTANTS
  t1 = t1
  t2 = t2
  t3 = t3
  Tracks = {t1, t2, t3}
  MaxCancels = 2
  MayStop = TRUE
CHECK_DEADLOCK FALSE
INVARIANT TypeOK
INVARIANT BatchReported
INVARIANT StopStopsRip
INVARIANT BusyWhileRipping
PROPERTY RunEnds
