SPECIFICATION ArpSpec
CONSTANTS
  Hosts = {h1, h2}
  NoHost = NoHost
  NumEntries = 2
  ARP_TIMEOUT = 1
  ARP_UPDATE_TIME = 2
  ARP_RETRY_COUNT = 2
  MaxPending = 2
  MaxReplies = 1
INVARIANT EventOnTime
