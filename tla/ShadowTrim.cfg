\* One question on the odd holding: whose answer is on which row.
SPECIFICATION ShadowedSpec
CONSTANTS
  a = a
  None = None
  Symbols <- MCSymbols
  Asks <- OddExits
  Holdings <- OddHolding
  Cash = 9
  Inherited <- MCInherited
  Prices <- MCPrices
  Grain = 1
  MaxAsks = 2
  MaxBars = 3
INVARIANTS
  AttributionIsExact
CHECK_DEADLOCK FALSE
