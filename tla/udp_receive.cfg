SPECIFICATION Spec
CONSTANTS
  SizeWrap = 32
  Hosts = {}
  ResolveResults = {}
  Overhead = 1
  WriteSizes = {}
  MaxPayload = 0
  AddressCounts = {}
  ArrivalSizes = {0, 2, 4}
  DefaultLimit = 4
  SendLimits = {}
  MaxOffered = 0
  MaxArrivals = 4
  MaxReadErrors = 1
INVARIANT AlwaysListening
INVARIANT DeliveredInOrder
PROPERTY NewestKept
CHECK_DEADLOCK FALSE
