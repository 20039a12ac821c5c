SPECIFICATION Spec
CONSTANTS
  Client = Client
  Server = Server
  SEQ_RANGE = 20
  ISS <- WrapsLater
  TCP_WND_SIZE = 2
  MSS = 1
  TCP_NUM_RTX = 3
  MaxData <- ThreeBytes
  MaxRead = 2
  MaxFlight = 2
  MaxQueue = 2
  Closers = {}
INVARIANTS AckedReceived RtxPending
PROPERTY StreamSpec
CHECK_DEADLOCK FALSE
