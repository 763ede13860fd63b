SPECIFICATION Spec
CONSTANTS
  t1 = t1
  t2 = t2
  t3 = t3
  Tracks = {t1, t2, t3}
  MaxCancels = 1
  MayStop = FALSE
CHECK_DEADLOCK FALSE
INVARIANT CancelStopsRip
