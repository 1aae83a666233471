SPECIFICATION AllSpec
CONSTANTS
  None = None
  FrameMs = 2
  EndpointingSilenceMs = 6
  MinimumUtteranceMs = 5
  MaximumUtteranceMs = 11
  StartEvidenceMs = 4
  PartialIntervalMs = 4
  PreRollMs = 3
  PostRollMs = 3
  ForceSplitOverlapMs = 3
  SlackMs = 2
  MaxOffset = 60
  Supported = {"ja", "en"}
  Heard <- AllHeard
  Minimum = 1
  Retry = 2
  Lock = 3
  Switch = 4
  SwitchCount = 2
  GapLimit = 4
  MaxSilent = 2
  Pauses = {1, 3}
  MaxUtterances = 4
INVARIANTS
  Inv
  LanguageInv
  FieldsInv
PROPERTIES
  InOrder
  LockFollowsEvidence
CHECK_DEADLOCK FALSE
