SPECIFICATION Spec
CONSTANTS
  BufferIds = {b1, b2}
  SurfaceIds = {s1, s2}
  Serials = {r1}
  Fds = {}
  ImportIds = {i1, i2}
  NoBuffer = NoBuffer
  NoSurface = NoSurface
  NoImport = NoImport
  MaxHeld = 3
SYMMETRY Symmetry
INVARIANTS NoSampleAfterRelease
