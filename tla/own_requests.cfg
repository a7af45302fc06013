SPECIFICATION Spec
CONSTANTS
  Alloc = TRUE
  LLEN = 4
  SLEN = 2
  QLEN = 4
  ALEN = 4
  AddrBits <- MCAddrBits
  Nodes <- MCNodes
  Declared <- MCDeclared
  Targets <- MCTargets
  FirstAdvertise = 1
  FirstQuery = 2
  ADVERTISE_INTERVAL = 3
  QUERY_INTERVAL = 4
  Never = 100
  TxidMod = 3
  MaxInFlight = 2
INVARIANT OwnRequestsAreIgnored
