SPECIFICATION FairSpec
CONSTANTS
  main = main
  worker = worker
  a = a
  b = b
  s = s
  t = t
  Callers = {main, worker}
  Requests = {a, b}
  Countable = {a, b}
  START = START
  STOP = STOP
  MayFail = FALSE
  NestedLoops = TRUE
  MaxStarts = 1
  MaxStops = 0
  MaxBatches = 2
  MaxCancels = 0
  MaxClears = 1
CHECK_DEADLOCK FALSE
INVARIANT OpenBatchIsWhole
INVARIANT DepthInBalance
INVARIANT NoStrandedRequest
PROPERTY AcceptedIsSettled
