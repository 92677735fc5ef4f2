SPECIFICATION Spec
CONSTANTS
  Bufs = {b1, b2}
  Cursor = Cursor
  None = None
  MaxChanges = 5
  MaxRefusals = 0
  MaxPauses = 0
SYMMETRY Symmetry
INVARIANTS HeldOnPlane
CHECK_DEADLOCK FALSE
