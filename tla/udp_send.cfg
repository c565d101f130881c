SPECIFICATION FairSpec
CONSTANTS
  SizeWrap = 16
  Hosts = {"v4", "name"}
  ResolveResults <- MixedList
  Overhead = 1
  WriteSizes = {1, 2}
  MaxPayload = 2
  AddressCounts = {0, 2}
  ArrivalSizes = {}
  DefaultLimit = 4
  SendLimits = {2}
  MaxOffered = 4
  MaxArrivals = 0
  MaxReadErrors = 0
INVARIANT QueuesAccounted
INVARIANT NoStalledDatagram
INVARIANT DiscardReported
PROPERTY SendsInOrder
PROPERTY GivesUpOnlyAfterAll
PROPERTY ReleasedDies
CHECK_DEADLOCK FALSE
