SPECIFICATION ShadowedSpec
CONSTANTS
  a = a
  None = None
  Symbols <- MCSymbols
  Asks <- WholeAsks
  Holdings <- WholeHolding
  Cash = 9
  Inherited <- MCInherited
  Prices <- MCPrices
  Grain = 2
  MaxAsks = 2
  MaxBars = 4
INVARIANTS
  OneRowPerOrder
  AttributionIsExact
  RowsTellTheOutcome
  ModelPricesTheReference
  JournalIsAPrefix
\* The session ends when a call raises.
CHECK_DEADLOCK FALSE
