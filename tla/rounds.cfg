SPECIFICATION RSpec
CONSTANTS
  Alloc = TRUE
  LLEN = 4
  SLEN = 2
  QLEN = 4
  ALEN = 4
  AddrBits <- MCAddrBits
  Services <- MCServices
  ServiceLists <- AnyList
  QueryArgs <- MCQueryArgs
  Packets <- NoPackets
  FirstAdvertise = 1
  FirstQuery = 2
  ADVERTISE_INTERVAL = 5
  QUERY_INTERVAL = 6
  Never = 1000
  TxidMod = 3
  MaxNow = 9
INVARIANTS TypeOK NoPanic Bookkeeping TargetsAreVisited InterfacesAreDistinct
  RoundAnnouncesAll RoundAsksAll
PROPERTIES IdleTimeoutInFuture AdvertsAreRounds QueriesAreRounds AskedBeforeIdle
