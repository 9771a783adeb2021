SPECIFICATION Spec
CONSTANTS
  a = a
  None = None
  NoPrice = NoPrice
  Symbols <- MCSymbols
  Scale = 10
  Slip = 0
  Fee = 0
  PerUnit = 0
  StartCash = 4
  Asks <- MCAsks
  Opens <- MCOpens
  MaxAsks = 2
  MaxBars = 2
INVARIANTS
  NullTestReportsNoDivergence
CHECK_DEADLOCK FALSE
