CONSTANTS
  m1 = m1  m2 = m2
  None = None
  Mutators <- MutatorSet2
SPECIFICATION FairSpec
INVARIANTS TypeOK StackFrozen ScannedBeforeRunning CountMatches AllRootsMarked
PROPERTY BarrierReturns
