SPECIFICATION FairSpec
CONSTANTS
  MaxUtterances = 1
  InputCapacity = 2
  EventCapacity = 2
  FinalCapacity = 1
  Lengths <- TwoLengths
  MaxPendingAudio = 1
  Prefetch = FALSE
  Partials = FALSE
  Shutdown = TRUE
  LostCancel = FALSE
CHECK_DEADLOCK FALSE
INVARIANTS TypeOK CloseDoneMeansQuiet
PROPERTY ShutdownEnds
