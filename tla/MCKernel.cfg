SPECIFICATION Spec
CONSTANTS
  high = high  low = low  low2 = low2  idle = idle  NULL = NULL
  Tasks = {high, low, low2, idle}
  Idle = idle
  Priority <- TwoEqual
  TickRange = 9
  Delays <- Different
  MaxLate = 1
  MaxLock = 5
  MaxUserLock = 1
  MayFinish = {low}
  MayAdd = {low}
INVARIANTS SleepListExact ReadyListSorted SleepListSorted
  NeverEarly NeverForgotten KernelInvariant
PROPERTIES FifoAmongEquals
