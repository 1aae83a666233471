SPECIFICATION Spec
CONSTANTS
  Calls = {c1, c2, c3, c4, c5}
  MaxInFlight = 3
  MaxRecovery = 2
  MaxPending = 4
  MaxLateStarts = 2
SYMMETRY CallSymmetry
INVARIANTS
  Accounting
  NoIdlePermit
  WholeImageHasRoom
