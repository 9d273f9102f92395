SPECIFICATION MCSpec
CONSTANTS
  m1 = m1
  a = a
  b = b
  Mutators = {m1}
  Objects = {a, b}
  References = {}
  Finalizables = {}
  Static = Static
  Null = Null
  NodeCapacity = 1
  ExitOvertaken = TRUE
  MaxOps = 4
  MaxCollections = 1
SYMMETRY Symmetry
INVARIANTS
  LiveMarked
