SPECIFICATION Spec
CONSTANTS
  a = a
  b = b
  c = c
  Root = root
  None = none
  Windows <- ThreeWindows
  MaxWindows <- WindowsPerDevice
  MaxFailures = 1
SYMMETRY Symmetry
INVARIANTS
  NoDangling
  TreeConsistent
  RestackPlaces
PROPERTIES
  MapPromotes
  GrabsFollowViewability
CHECK_DEADLOCK FALSE
