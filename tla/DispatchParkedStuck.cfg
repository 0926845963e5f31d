SPECIFICATION Spec
CONSTANTS
  main = main
  w1 = w1
  w2 = w2
  none = none
  Threads <- MCThreads
  Main <- main
  NoThread <- none
  MaxDepth = 5
  PipeCapacity = 8
  TimerRuns = FALSE
  Calls <- TwoEach
  MaxFailures = 0
  MaxNest = 2
INVARIANTS
  ParkedWillRun
CHECK_DEADLOCK FALSE
