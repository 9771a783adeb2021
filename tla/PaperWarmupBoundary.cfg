\* The claim alone; nothing comes late, a failed fetch at the opening is enough.
CONSTANTS
  a = a
  b = b
  Symbols = {a, b}
  None = None
  LastTime = 4
  FirstPolls = {0, 2}
  Tapes <- MCTapes
  MaxWithheld = 0
  MaxOversleep = 1
  Lookback = 2
  Warmup = TRUE
  MaxNewBars = 3
  MaxEmptyPolls = 2
SPECIFICATION Spec
INVARIANTS
  LiveBarsCloseAfterOpening
CHECK_DEADLOCK FALSE
