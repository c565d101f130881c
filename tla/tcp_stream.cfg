SPECIFICATION Spec
CONSTANTS
  Origins <- Accepted
  ResolveResults = {}
  WriteSizes = {1, 2}
  RequestSizes = {0, 1, 2}
  SendLimits = {1}
  NoLimit = 9
  MaxPushed = 2
  MaxPeerBytes = 3
INVARIANT TypeOK
INVARIANT ReceiveStream
INVARIANT SendStream
INVARIANT NoStalledSend
PROPERTY ClosedIsFinal
PROPERTY EofFinal
PROPERTY ReadTargetStable
CHECK_DEADLOCK FALSE
