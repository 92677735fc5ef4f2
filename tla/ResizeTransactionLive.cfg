SPECIFICATION FairSpec
CONSTANTS
  SurfaceIds = {s1}
  XwaylandIds = {}
  Rects <- ThreeRects
  Timeout = 2
  MaxGates = 2
  NoPend = NoPend
  NoTimer = NoTimer
  NoPass = NoPass
PROPERTIES EventuallyThawed
