\* A session ends: Terminates is checked, and a finished session is no deadlock.
CONSTANTS
  a = a
  b = b
  Symbols = {a, b}
  None = None
  LastTime = 4
  FirstPolls = {0, 2}
  Tapes <- MCTapes
  MaxWithheld = 1
  MaxOversleep = 1
  Lookback = 2
  Warmup = TRUE
  MaxNewBars = 3
  MaxEmptyPolls = 2
SPECIFICATION Spec
INVARIANTS
  OnlyCompletedBars
  ProcessedOnce
  PunctualSymbolsAreWhole
  SilenceIsReal
PROPERTIES
  Terminates
CHECK_DEADLOCK FALSE
