SPECIFICATION MCSpec
CONSTANTS
  m1 = m1
  m2 = m2
  a = a
  b = b
  Mutators = {m1, m2}
  Objects = {a, b}
  References = {}
  Finalizables = {}
  Static = Static
  Null = Null
  NodeCapacity = 1
  ExitOvertaken = FALSE
  MaxOps = 3
  MaxCollections = 2
SYMMETRY Symmetry
INVARIANTS
  ReachableAllocated
  SnapshotMarked
  SatbConsistent
  GarbageFreed
