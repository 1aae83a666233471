SPECIFICATION Spec
CONSTANTS
  Requests = {c1, c2}
  Concurrency = 1
  MaxQueue = 1
  StreamQueue = 2
INVARIANTS
  GateEmpties
