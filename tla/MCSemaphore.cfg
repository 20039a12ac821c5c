SPECIFICATION SemSpec
CONSTANTS
  high = high  low = low  low2 = low2  idle = idle  s1 = s1  NULL = NULL
  Tasks = {high, low, low2, idle}
  Idle = idle
  Priority <- Priorities
  TickRange = 5
  Delays <- HighSleeps
  MaxLate = 0
  MaxLock = 5
  MaxUserLock = 0
  MayFinish = {}
  MayAdd = {}
  Conditions = {s1}
  SuspendPriority <- Lowest
  MaxCount <- Binary
  Waits <- Forever
  MayDestroy = {}
SYMMETRY LowSymmetry
INVARIANTS NoLostWakeup
