SPECIFICATION Spec
CONSTANTS
  MaxUtterances = 3
  InputCapacity = 2
  EventCapacity = 2
  FinalCapacity = 2
  Lengths <- OneLength
  MaxPendingAudio = 3
  Prefetch = TRUE
  Partials = TRUE
  Shutdown = FALSE
  LostCancel = TRUE
CHECK_DEADLOCK FALSE
INVARIANTS
  FinalizationInv
  JoinCountsJobs
PROPERTIES
  NothingTooLate
  ImplementsContract
