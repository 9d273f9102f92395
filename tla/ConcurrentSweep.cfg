SPECIFICATION MCSpec
CONSTANTS
  m1 = m1
  m2 = m2
  w1 = w1
  Mutators = {m1, m2}
  Workers = {w1}
  Global = Global
  None = None
  NPages = 2
  NSlots = 2
  PagesPerTask = 2
  MaxOps = 2
  MaxSweeps = 1
SYMMETRY Symmetry
CHECK_DEADLOCK FALSE
INVARIANTS
  LiveKept
  HeapConsistent
  MapHeld
  SweepComplete
