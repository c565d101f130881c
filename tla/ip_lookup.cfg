SPECIFICATION FairSpec
CONSTANTS
  ResolveResults <- FewResults
  LiteralFits <- OneOrNone
  MaxCalls = 6
INVARIANT ResultsInOrder
PROPERTY BecomesReady
CHECK_DEADLOCK FALSE
