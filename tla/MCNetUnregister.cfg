SPECIFICATION NetTaskSpec
CONSTANTS
  p1 = p1  p2 = p2
  Ports = {p1, p2}
  BUFFERS = BUFFERS
  WORK = WORK
  NONE = NONE
  OFF = OFF
  Timeouts = {1}
  Duties <- Owners
  MaxRx = 1
CHECK_DEADLOCK FALSE
INVARIANTS NoCircularWait
