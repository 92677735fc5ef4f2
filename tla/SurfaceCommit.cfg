SPECIFICATION Spec
CONSTANTS
  top = top
  child = child
  nested = nested
  d1 = d1
  d2 = d2
  m1 = m1
  Surfaces = {top, child, nested}
  Root = top
  Parent <- ParentOf
  Dmabufs = {d1, d2}
  Shm = {m1}
  Pool <- Pools
  Timed = {top, child}
  Explicit = {child}
  None = None
  Null = Null
  NoAttach = NoAttach
  MaxCommits = 3
  MaxChanges = 2
SYMMETRY Symmetry
INVARIANTS TypeOK LoansAccounted TimersArmed
PROPERTIES ContentAdvances SyncAtomic
CHECK_DEADLOCK FALSE
