SPECIFICATION Spec
CONSTANTS
  Window = 2
  MinObs = 3
  MinBlocks = 2
  Day = 2
  Symbols = {1, 2}
  Closes = {1, 2}
  Weight = 6
  Fast = 1
  Slow = 2
  Lookback = 2
  Skip = 1
  Period = 2
  Oversold = 30
  ExitLevel = 50
  TopK = 1
  Every = 2
INVARIANTS
  RunIsMeasured
  FiguresAgree
  SearchIsAccounted
  ScreensAreBlind
  SeriesAreVouchedFor
  StrategiesKeepTheirBook
CHECK_DEADLOCK FALSE
