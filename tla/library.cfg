SPECIFICATION LibraryFairSpec
CONSTANTS
  HandleWrap = 3
  Kinds = {"tcp", "acceptor", "udp", "buffer"}
  MaxAllocations = 3
  MaxServices = 2
INVARIANT StillFound
INVARIANT NoEarlyReuse
INVARIANT LifetimesNest
INVARIANT AlwaysServed
PROPERTY ShutdownReturns
CHECK_DEADLOCK FALSE
