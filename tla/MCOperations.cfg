SPECIFICATION OperationsSpec
CONSTANTS
  MaxTrials = 2
  MaxRecords = 1
  Sessions = 2
  Bars = 2
  MaxSignals = 2
  Tickers = {a, b}
  MaxFaults = 2
INVARIANTS
  StateIsALoggedBar
  StoppedSessionIsSaved
  LedgerIsALowerBound
  CleanIsFlat
PROPERTIES
  EventuallyFlat
CHECK_DEADLOCK FALSE
