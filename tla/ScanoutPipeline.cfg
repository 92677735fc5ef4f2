SPECIFICATION Spec
CONSTANTS
  Bufs = {b1, b2}
  Cursor = Cursor
  None = None
  MaxChanges = 5
  MaxRefusals = 1
  MaxPauses = 1
SYMMETRY Symmetry
INVARIANTS TypeOK NoScribble PresentsResolve NoLostWake
CHECK_DEADLOCK FALSE
