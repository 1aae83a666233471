SPECIFICATION AllSpec
CONSTANTS
  c1 = c1  c2 = c2  c3 = c3  c4 = c4  c5 = c5
  first = first  second = second
  retryA = retryA  retryB = retryB  same = same  other = other
  None = None  NoCall = NoCall  NoOutcome = NoOutcome
  PoolCalls = {c1, c2, c3, c4}
  Docked <- MCDocked
  SlotConcurrency <- MCSlotConcurrency
  Serves <- MCServes
  Retries = {c1, c2, c3, c4, c5}
  Key <- MCKey
  Payload <- MCPayload
  MaxEntries = 1
  Sentences = {c1, c2, c3}
  MaxConcurrency = 1
  MaxRetries = 1
  TranslationErrors <- MCTranslationErrors
  Answers <- MCAnswers
  Utterances = {c1, c2, c3}
  FinalSlots = 1
  PreviewSlots = 1
  Supported = {"en", "ja", "ko"}
  ServiceErrors <- MCServiceErrors
  Transcripts <- MCTranscripts
  Requests = {c1, c2, c3}
  Concurrency = 1
  MaxQueue = 1
  StreamQueue = 1
INVARIANTS
  CallsInv
  UtteranceInv
  GateInv
PROPERTIES
  NoCallInVain
  DisconnectWins
  EveryCallEnds
CHECK_DEADLOCK FALSE
