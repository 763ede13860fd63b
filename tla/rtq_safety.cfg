SPECIFICATION Spec
CONSTANTS
  main = main
  worker = worker
  a = a
  b = b
  s = s
  t = t
  Callers = {main, worker}
  Requests = {a, s}
  Countable = {a}
  START = START
  STOP = STOP
  MayFail = TRUE
  NestedLoops = TRUE
  MaxStarts = 2
  MaxStops = 1
  MaxBatches = 1
  MaxCancels = 1
  MaxClears = 0
SYMMETRY Symmetry
CHECK_DEADLOCK FALSE
INVARIANT TypeOK
INVARIANT SingleOwnerUnlessTorn
INVARIANT NoOvertaking
INVARIANT AbortLeavesNothingQueued
INVARIANT AbortWhileHandling
INVARIANT StopIsLast
INVARIANT NothingLeftBehind
INVARIANT StartedBeforeProcessing
