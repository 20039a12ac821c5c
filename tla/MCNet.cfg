SPECIFICATION NetSpec
CONSTANTS
  b1 = b1  b2 = b2  b3 = b3  l1 = l1  l2 = l2   t1 = t1  NULL = NULL
  d1 = d1  d2 = d2  d3 = d3  h1 = h1  h2 = h2  h3 = h3  v1 = v1  v2 = v2
  p1 = p1  p2 = p2  r1 = r1  w1 = w1
  Tasks = {t1}
  Buffers = {b1, b2, b3}
  Lists = {l1, l2}
  BufferSize = 2
  ThresholdBuffers = 1
  ThresholdLists = 0
  Modes <- Callers
  MaxField = 3
  MaxBytes = 3
  Datagrams = {d1, d2, d3}
  Length <- Lengths
  MaxPayload = 1
  NumFragments = 2
  NumLists = 6
  FragThreshold = 1
  FRAG_TIMEOUT = 2
  FRAG_DROP_TIMEOUT = 1
  MaxCopies = 1
  MaxUsed = 2
  Hosts = {h1, h2, h3}
  NoHost = NoHost
  NumEntries = 2
  ARP_TIMEOUT = 1
  ARP_UPDATE_TIME = 2
  ARP_RETRY_COUNT = 2
  MaxPending = 2
  MaxReplies = 1
  Servers = {v1, v2}
  UNSPEC = UNSPEC
  LL = LL
  LEASE = 8
  DHCP_BASE_TIMEOUT = 2
  DHCP_MAX_TIMEOUT = 4
  DHCP_MAX_RETRY = 2
  MaxMessages = 2
  MaxAge = 1
  Ports = {p1, p2}
  BUFFERS = BUFFERS
  WORK = WORK
  NONE = NONE
  OFF = OFF
  Timeouts = {1}
  Duties <- Owners
  MaxRx = 1
  PipeSizes = {14, 16}
  HEADER = 4
  ALIGN = 2
  MessageSizes = {0, 3}
  NumMarks = 2
  Readers = {r1}
  Writers = {w1}
  Closed = Closed
  FileBlocks = 3
  BlockRange = 8
  MaxDatagrams = 2
SYMMETRY BufferSymmetry
CHECK_DEADLOCK FALSE
INVARIANTS BufferTypeOK NothingLost LengthExact FlagsExact NoStarvedWaiter ReadsExact
  ReassembledExact FragmentsExpire PendingWatched RoutesLeased LeaseWatched
  NetTaskListens PipeExact TransferExact
PROPERTIES KeepsBytes
