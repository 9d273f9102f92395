CONSTANTS
  r1 = r1  r2 = r2
  Requesters <- RequesterSet2
  Reasons <- AllModes
  MaxIndex = 5
  MaxStarts = 2
  EarlyRequests = FALSE
SPECIFICATION FairSpec
INVARIANTS TypeOK BlockingServed NoWaiterStranded
PROPERTIES BlockingReturns WaitStoppedReturns
CHECK_DEADLOCK FALSE
