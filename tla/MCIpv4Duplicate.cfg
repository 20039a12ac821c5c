SPECIFICATION FragSpec
CONSTANTS
  d1 = d1
  Datagrams = {d1}
  Length <- Lengths
  MaxPayload = 1
  NumFragments = 1
  NumLists = 9
  FragThreshold = 1
  FRAG_TIMEOUT = 2
  FRAG_DROP_TIMEOUT = 1
  MaxCopies = 2
  MaxUsed = 0
CHECK_DEADLOCK FALSE
INVARIANT ReassembledExact
