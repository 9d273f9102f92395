SPECIFICATION MCSpec
CONSTANTS
  m1 = m1
  a = a
  r1 = r1
  r2 = r2
  Mutators = {m1}
  Objects = {a, r1, r2}
  References = {r1, r2}
  Finalizables = {a}
  Static = Static
  Null = Null
  NodeCapacity = 1
  ExitOvertaken = FALSE
  MaxOps = 3
  MaxCollections = 1
SYMMETRY Symmetry
INVARIANTS
  NoDanglingReferent
PROPERTIES
  ClearedOnlyIfDead
  FinalizedOnlyIfDead
