SPECIFICATION Spec
CONSTANTS
  d1 = d1
  d2 = d2
  d3 = d3
  t2 = t2
  n1 = n1
  n2 = n2
  w1 = w1
  w2 = w2
  w3 = w3
  Root = Root
  NoTarget = NoTarget
  PointerRoot = PointerRoot
  g1 = g1
  g2 = g2
  c1 = c1
  c2 = c2
  c3 = c3
  s1 = s1
  s2 = s2
  m1 = m1
  m2 = m2
  Parts <- AllParts
  GlxThreads <- TwoGlxThreads
  GLXContexts <- ThreeContexts
  Drawables <- TwoDrawables
  NoContext = NoContext
  NoDrawable = NoDrawable
  Scenes <- SomeScenes
  ShmThreads <- TwoGlxThreads
  Segments <- TwoSegments
  Attachments <- FourAddresses
  Addresses <- FourAddresses
  Unmapped = 0
  NoAttachment = 0
  TreeWindows <- ThreeWindows
  Kinds <- BothKinds
  MaxUnread = 1
  Main = Main
  NoDisplay = NoDisplay
  Foreign = Foreign
  NoWindow = NoWindow
  Displays <- ThreeDisplays
  Threads <- TwoThreads
  HostWindows <- TwoHostWindows
  Programs <- AllPrograms
  MaxDrags = 2
  FirstCapacity = 1
  FallbackSlots = 1
INVARIANTS
  OpenDisplaysAreUsable
  DeferredCloseOnce
  ObserverFollowsDrag
  ClientFollowsTarget
  ContextsOutliveUse
  SwapsWhatWasDrawn
  MappedWhileCopied
CHECK_DEADLOCK FALSE
