SPECIFICATION Spec
CONSTANTS
  NoLanguage = NoLanguage
  None = None
  Blank = Blank
  Currencies <- MCCurrencies
  Modes <- MCModes
  Raws <- MCItems
  Readings <- MCReadings
  Rereads <- MCRereads
  Structured <- MCStructured
  MaxCrops = 2
  TinyBoxes = {"tiny"}
  MaxReceipts = 3
  MaxPayments = 3
  Requests = {1, 2, 3}
  Languages = {"japan", "korean"}
INVARIANTS AnalysisInv BookedOnce OcrInv
PROPERTY AnalysisEnds
\* An analysis ends, and a bill has a last line.
CHECK_DEADLOCK FALSE
