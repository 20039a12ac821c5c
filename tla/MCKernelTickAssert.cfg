SPECIFICATION Spec
CONSTANTS
  high = high  low = low  low2 = low2  idle = idle  NULL = NULL
  Tasks = {high, low, idle}
  Idle = idle
  Priority <- ThreePriorities
  TickRange = 7
  Delays <- One
  MaxLate = 1
  MaxLock = 5
  MaxUserLock = 1
  MayFinish = {low}
  MayAdd = {low}
INVARIANTS TickFindsRunning
