SPECIFICATION FairBothSpec
CONSTANTS
  s1 = s1
  r1 = r1
  Senders <- OneSender
  Wakers <- OneWaker
  Clients <- FourClients
  PipeCapacity = 5
  main_ = main
  t2 = t2
  Channels <- BothChannels
  Threads <- TwoThreads
  Main <- main_
  Handlers <- AloneOrBoth
  MaxRequests = 3
  MaxFailures = 1
INVARIANTS
  AnswersOwnRequest
  EnvelopeOwnedOnce
  AccountingExact
PROPERTIES
  GivenAnswerReturned
  StopReturns
  EventsAreDelivered
  ClientKeepsPumping
CHECK_DEADLOCK FALSE
