SPECIFICATION FairSpec
CONSTANTS
  Origins <- Accepted
  ResolveResults = {}
  WriteSizes = {1}
  RequestSizes = {2}
  SendLimits = {}
  NoLimit = 9
  MaxPushed = 2
  MaxPeerBytes = 2
PROPERTY DestroySends
CHECK_DEADLOCK FALSE
