SPECIFICATION FairSpec
CONSTANTS
  a = a
  b = b
  c = c
  w1 = w1
  w2 = w2
  none = none
  Queries = {a, b}
  Async = {a}
  Workers = {w1, w2}
  None = none
  Statements = 1
  MaxOpens = 2
CHECK_DEADLOCK FALSE
INVARIANT TypeOK
INVARIANT SingleProcessor
INVARIANT NoStrandedQuery
INVARIANT HeldOnce
INVARIANT NoWaiterForgotten
INVARIANT AnswerIsFresh
PROPERTY WaiterReturns
