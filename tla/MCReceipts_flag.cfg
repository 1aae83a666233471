SPECIFICATION Spec
CONSTANTS
  NoLanguage = NoLanguage
  None = None
  Blank = Blank
  Currencies <- MCCurrencies
  Modes <- MCModes
  Raws <- MCItems
  Readings <- MCReadings
  Rereads <- MCRereads
  Structured <- MCStructured
  MaxCrops = 2
  TinyBoxes = {"tiny"}
  MaxReceipts = 3
  MaxPayments = 3
  Requests = {1, 2, 3}
  Languages = {"japan", "korean"}
INVARIANT RecoveredIsFlagged
CHECK_DEADLOCK FALSE
