SPECIFICATION RSpec
CONSTANTS
  Alloc = FALSE
  LLEN = 4
  SLEN = 3
  QLEN = 4
  ALEN = 8
  AddrBits <- MCAddrBits
  Services <- MCServices
  ServiceLists <- Several
  QueryArgs <- ManyQueryArgs
  Packets <- NoPackets
  FirstAdvertise = 1
  FirstQuery = 2
  ADVERTISE_INTERVAL = 5
  QUERY_INTERVAL = 6
  Never = 1000
  TxidMod = 3
  MaxNow = 8
INVARIANTS NoPanic TargetsAreVisited RoundAnnouncesAll RoundAsksAll
