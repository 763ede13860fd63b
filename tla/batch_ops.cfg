SPECIFICATION Spec
CONSTANTS
  Requests <- AllRequests
  Countable <- CountableRequests
  TypeOf <- Types
  SystemTypes <- System
  NotSet = NOT_SET
  w1 = w1
  w2 = w2
  d = d
  p = p
  start = start
  WRITE = WRITE
  DELETE = DELETE
  UPDATE = UPDATE
  THREAD_START = THREAD_START
  NOT_SET = NOT_SET
INVARIANT TypeOK
INVARIANT NumberingMatches
INVARIANT TypeIsOfAnItem
