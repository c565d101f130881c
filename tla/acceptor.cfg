SPECIFICATION FairSpec
CONSTANTS
  Ports <- TwoPorts
  MaxConnections = 4
  MaxErrors = 1
INVARIANT NoneLost
INVARIANT KeepsListening
INVARIANT TakesTurns
INVARIANT ListensOnLocalPort
PROPERTY BecomesAvailable
CHECK_DEADLOCK FALSE
