SPECIFICATION FairSpec
CONSTANTS
  main = main
  w1 = w1
  w2 = w2
  none = none
  Threads <- MCThreads
  Main <- main
  NoThread <- none
  MaxDepth = 5
  PipeCapacity = 8
  TimerRuns = TRUE
  Calls <- TwoEachOrThree
  MaxFailures = 1
  MaxNest = 2
INVARIANTS
  CommandHeldOnce
  HandoffThunkInSection
  SectionsExclusive
  DepthIsLedger
  NoMissedSignal
PROPERTIES
  RouteReturns
  ImplementsSections
CHECK_DEADLOCK FALSE
