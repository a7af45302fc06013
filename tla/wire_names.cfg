SPECIFICATION WireSpec
CONSTANTS
  Alloc = FALSE
  LLEN = 5
  SLEN = 2
  QLEN = 6
  ALEN = 8
  AddrBits <- MCAddrBits
  PtrSpan = 16384
  Messages <- SameNames
  Rooms <- LargeRoom
  LKs = {1, 4, 20}
  Builds = {"debug", "release"}
INVARIANT RoundTrip
CHECK_DEADLOCK FALSE
