SPECIFICATION SemSpec
CONSTANTS
  high = high  low = low  low2 = low2  idle = idle  s1 = s1  NULL = NULL
  Tasks = {high, low, idle}
  Idle = idle
  Priority <- Pair
  TickRange = 7
  Delays <- HighSleeps
  MaxLate = 1
  MaxLock = 5
  MaxUserLock = 0
  MayFinish = {}
  MayAdd = {}
  Conditions = {s1}
  SuspendPriority <- Lowest
  MaxCount <- Binary
  Waits <- ShortWait
  MayDestroy = {}
INVARIANTS SemTypeOK CountExact WaitersListed NoStaleSuspend NoSleeperRuns NoAssert ReadyListExact
  HighestPriorityRuns
