SPECIFICATION Spec
CONSTANTS
  BufferIds = {b1, b2}
  SurfaceIds = {s1, s2}
  Serials = {r1, r2}
  Fds = {f1, f2}
  NoBuffer = NoBuffer
  NoSurface = NoSurface
SYMMETRY Symmetry
INVARIANTS TypeOK BracketsPaired ReadsTracked LinksAgree NoStrandedDebt LoansTracked FenceConservation ImportTeardownSafe
PROPERTIES LendingSpec
