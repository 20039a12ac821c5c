SPECIFICATION Spec
CONSTANTS
  Client = Client
  Server = Server
  SEQ_RANGE = 16
  ISS <- InitialNumbers
  TCP_WND_SIZE = 2
  MSS = 1
  TCP_NUM_RTX = 3
  MaxData <- OneByte
  MaxRead = 1
  MaxFlight = 2
  MaxQueue = 1
  Closers = {Client}
INVARIANT CloseAfterAcks
CHECK_DEADLOCK FALSE
