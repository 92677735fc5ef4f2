SPECIFICATION FairSpec
CONSTANTS
  BufferIds = {b1, b2}
  SurfaceIds = {s1}
  Serials = {r1}
  Fds = {}
  NoBuffer = NoBuffer
  NoSurface = NoSurface
PROPERTIES DebtsPaid
