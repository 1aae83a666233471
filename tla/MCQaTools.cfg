SPECIFICATION Spec
CONSTANTS
  None = None
  Absent = Absent
  MaxPids = 3
  MaxPasswords = 2
  Manual = {}
  MaxRuns = 3
  MaxPolls = 2
  Processes = {"stage", "live", "server"}
  Staged = {"stage"}
  Calls = {"final", "speech", "live", "explore"}
  Owner <- MCOwner
  Kind <- MCKind
  Phase <- MCPhase
  Maximum <- MCMaximum
  StagePhases = {"final", "tts"}
  Cost = 2
  MaxStarts = 3
  Limit = 7
  ExploreStarts = 2
  ExploreLimit = 3
  StageStarts = 2
  StageLimit = 3
  Protected = 3
  Nothing = Nothing
INVARIANTS
  EnvironmentInv
  ClientInv
  QualityInv
PROPERTIES
  ReportsAreTrue
  WorkflowEnds
CHECK_DEADLOCK FALSE
