SPECIFICATION RSpec
CONSTANTS
  Alloc = FALSE
  LLEN = 4
  SLEN = 2
  QLEN = 4
  ALEN = 4
  AddrBits <- MCAddrBits
  Services <- MCServices
  ServiceLists <- TwoOnOneInterface
  QueryArgs <- MCQueryArgs
  Packets <- NoPackets
  FirstAdvertise = 1
  FirstQuery = 2
  ADVERTISE_INTERVAL = 5
  QUERY_INTERVAL = 6
  Never = 1000
  TxidMod = 3
  MaxNow = 9
INVARIANT TooSmallDoesNotFail
