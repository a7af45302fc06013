SPECIFICATION DSpec
CONSTANTS
  Alloc = TRUE
  LLEN = 4
  SLEN = 2
  QLEN = 4
  ALEN = 4
  AddrBits <- MCAddrBits
  Services <- MCServices
  ServiceLists <- NoneOneOrTwo
  QueryArgs <- MCQueryArgs
  Packets <- MCPackets
  FirstAdvertise = 3
  FirstQuery = 5
  ADVERTISE_INTERVAL = 15
  QUERY_INTERVAL = 19
  Never = 1000
  TxidMod = 3
  MaxNow = 26
  Slack = 1
INVARIANTS DriverTypeOK SleepsUntilDue DutiesOnTime
PROPERTIES LoopIsServerRun DeadlinesAreMet
CHECK_DEADLOCK FALSE
