SPECIFICATION AllSpec
CONSTANTS
  Requests = {r1, r2, r3}
  Workers = {w1, w2}
  QueueCapacity = 3
  NoRequest = NoRequest
  Streams = {s1, s2, s3}
  Keys = {k1, k2, k3}
  MaxActive = 2
  None = None
  MaxText = 2
  MaxAudio = 3
INVARIANTS
  RuntimeInv
  StreamsInv
PROPERTIES
  PreviewShows
  EverybodyReturns
CHECK_DEADLOCK FALSE
