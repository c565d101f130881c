SPECIFICATION FairSpec
CONSTANTS
  Origins <- AllOrigins
  ResolveResults <- Lists
  WriteSizes = {1}
  RequestSizes = {1}
  SendLimits = {}
  NoLimit = 9
  MaxPushed = 2
  MaxPeerBytes = 0
INVARIANT FallbackOrder
INVARIANT NoDelayKept
INVARIANT ClosedIsClosed
PROPERTY GracefulDrain
PROPERTY CloseAfterRelease
PROPERTY OperationsSettle
CHECK_DEADLOCK FALSE
