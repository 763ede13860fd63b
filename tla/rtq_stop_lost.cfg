SPECIFICATION FairSpec
CONSTANTS
  main = main
  worker = worker
  a = a
  b = b
  s = s
  t = t
  Callers = {main, worker}
  Requests = {a}
  Countable = {a}
  START = START
  STOP = STOP
  MayFail = FALSE
  NestedLoops = FALSE
  MaxStarts = 1
  MaxStops = 1
  MaxBatches = 0
  MaxCancels = 0
  MaxClears = 0
CHECK_DEADLOCK FALSE
PROPERTY StopEndsThread
