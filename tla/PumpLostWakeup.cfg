SPECIFICATION BothSpec
CONSTANTS
  s1 = s1
  r1 = r1
  Senders <- OneSender
  Wakers <- OneWaker
  Clients <- PollingWithSender
  PipeCapacity = 8
  main_ = main
  t2 = t2
  Channels <- BothChannels
  Threads <- TwoThreads
  Main <- main_
  Handlers <- AloneOrBoth
  MaxRequests = 3
  MaxFailures = 1
INVARIANTS
  NothingWaitsForSleeper
CHECK_DEADLOCK FALSE
