CONSTANTS
  m1 = m1  m2 = m2  g1 = g1
  None = None
  Runtime = Runtime
  Mutators <- MutatorSet
  GCThreads <- GCSet
SPECIFICATION FairSpec
INVARIANTS TypeOK CountExact StoppedWorldIsQuiet NoFatal OwnStateRestored ListHolderNeverBlocks
PROPERTIES ListFrozen StopCompletes BlockedMutatorsResume ImplementsWorld
