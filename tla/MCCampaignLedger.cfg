SPECIFICATION FairSpec
CONSTANTS
  server = server  tool = tool
  t1 = t1   g1 = g1  s1 = s1
  None = None
  Processes <- MCProcesses
  Calls <- MCCalls
  Owner <- MCOwner
  Kind <- MCKind
  StopsOnCancel <- MCStopsOnCancel
  Starts = 2
  Limit = 4
  RaisedLimit = 5
  WallSeconds = 2
  ActiveSeconds = 2
  CallSeconds = 1
  Cost = 1
  ServiceAttempts = 2
  NetworkAttempts = 2
  AttemptCap = 1
  MaxClock = 2
CHECK_DEADLOCK FALSE
INVARIANTS
  Inv
PROPERTIES
  StopIsFinal
  UpstreamEnds
