SPECIFICATION FairSpec
CONSTANTS
  MaxUtterances = 2
  InputCapacity = 2
  EventCapacity = 2
  FinalCapacity = 2
  Lengths <- OneLength
  MaxPendingAudio = 2
  Prefetch = TRUE
  Partials = FALSE
  Shutdown = FALSE
  LostCancel = FALSE
CHECK_DEADLOCK TRUE
PROPERTIES
  HandlerReturns
  FailureCloses
  SettledEventually
