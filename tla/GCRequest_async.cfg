CONSTANTS
  r1 = r1  r2 = r2
  Requesters <- RequesterSet2
  Reasons <- AsyncOnly
  MaxIndex = 3
  MaxStarts = 1
  EarlyRequests = FALSE
SPECIFICATION FairSpec
PROPERTY AsyncServed
CHECK_DEADLOCK FALSE
