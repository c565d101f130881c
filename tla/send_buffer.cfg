SPECIFICATION Spec
CONSTANTS
  BufferSize = 3
  PushSizes = {0, 1, 2, 3, 4, 7}
  MaxBytes = 9
INVARIANT RegionsStable
PROPERTY ImplementsByteQueue
CHECK_DEADLOCK FALSE
