SPECIFICATION FairSpec
CONSTANTS
  j1 = j1
  j2 = j2
  none = none
  Jobs = {j1, j2}
  Writes = {j2}
  Files = {"u", "x"}
  FilesOf <- MCFilesOf
  HandlersOf <- MCHandlersOf
  ActiveHandlers = 2
  FlushAt = 1
  None = none
  MaxInterruptions = 2
CHECK_DEADLOCK FALSE
INVARIANT TypeOK
INVARIANT EveryItemIsCounted
PROPERTY PromiseKept
INVARIANT CrashersAreAvoided
PROPERTY JobEnds
PROPERTY ShutdownEnds
