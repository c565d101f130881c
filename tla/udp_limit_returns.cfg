SPECIFICATION FairSpec
CONSTANTS
  SizeWrap = 16
  Hosts = {"v4"}
  ResolveResults = {}
  Overhead = 1
  WriteSizes = {1, 2}
  MaxPayload = 2
  AddressCounts = {}
  ArrivalSizes = {}
  DefaultLimit = 6
  SendLimits = {1, 3}
  MaxOffered = 3
  MaxArrivals = 0
  MaxReadErrors = 0
CHECK_DEADLOCK FALSE
PROPERTY LimitReturns
