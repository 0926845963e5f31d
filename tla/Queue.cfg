SPECIFICATION Spec
CONSTANTS
  main = main
  t2 = t2
  none = none
  a = a
  b = b
  Threads <- TwoThreads
  Main <- main
  NoThread <- none
  Windows <- TwoWindows
  Clients <- ThreeClients
INVARIANTS
  OwnDiscardStaysGone
  EventsConserved
PROPERTIES
  ImplementsEventList
CHECK_DEADLOCK FALSE
