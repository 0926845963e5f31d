SPECIFICATION Spec
CONSTANTS
  w1 = w1
  w2 = w2
  c1 = c1
  c2 = c2
  Windows <- TwoWindows
  NoWindow = NoWindow
  Roots <- NearAndFar
  Areas <- SmallAndLarge
  Main = Main
  Replay = Replay
  NoThread = NoThread
  Clients <- RacingAndSerial
  MaxAttempts = 8
  Kinds <- Watched
  Modulus = 2
  QuietBuckets = 2
  DivergedBuckets = 2
  Threshold = 1
  Timeout = 4
  Late = 1
  Anchors <- NowOrLately
  PerBucket = 1
  MaxBuckets = 3
  Owners <- TwoOwners
  NoOwner = NoOwner
  Scenarios <- Declining
  Pool = 2
  OwnersTimeOut = TRUE
  Painters <- AloneAndOverlapping
  Programs <- SomeEditors
  Contexts = {i1, i2}
  NoContext = NoContext
  Typists <- SomeTypists
  Characters = {x, y}
  NoChar = NoChar
  RingSlots = 4
  MaxPending = 3
  u1 = u1
  u2 = u2
  u3 = u3
  Users <- ThreeUsers
  Records = {r1, r2}
  NoRecord = NoRecord
  Narrow = 4
  Sessions <- SomeSessions
  Parts <- JustClipboard
INVARIANTS
  DeclineSparesFetch
CHECK_DEADLOCK FALSE
