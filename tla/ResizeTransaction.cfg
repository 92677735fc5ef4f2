SPECIFICATION Spec
CONSTANTS
  SurfaceIds = {s1, s2}
  XwaylandIds = {s2}
  Rects <- TwoRects
  Timeout = 1
  MaxGates = 1
  NoPend = NoPend
  NoTimer = NoTimer
  NoPass = NoPass
INVARIANTS TypeOK HoldsTimed HoldsOwned LatestLayoutHeld
PROPERTIES BatchAtomic
