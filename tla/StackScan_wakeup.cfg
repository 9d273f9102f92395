CONSTANTS
  m1 = m1  m2 = m2
  None = None
  Mutators <- MutatorSet2
SPECIFICATION FairSpec
PROPERTY ConcurrentMarkReturns
