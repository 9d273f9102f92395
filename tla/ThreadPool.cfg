CONSTANTS
  w1 = w1  w2 = w2  w3 = w3
  Main = Main
  Workers <- WorkerSet3
  MaxTasks = 4
SPECIFICATION FairSpec
INVARIANTS TypeOK CountersExact QuietAfterStop
PROPERTIES WaitFinishComplete WaitFinishReturns ExitCompletes
CHECK_DEADLOCK FALSE
