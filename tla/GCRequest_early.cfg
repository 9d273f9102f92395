CONSTANTS
  r1 = r1  r2 = r2
  Requesters <- RequesterSet2
  Reasons <- BlockingAndAsync
  MaxIndex = 5
  MaxStarts = 1
  EarlyRequests = TRUE
SPECIFICATION Spec
INVARIANT BlockingServed
CHECK_DEADLOCK FALSE
