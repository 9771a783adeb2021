SPECIFICATION Spec
CONSTANTS
  a = a
  None = None
  Symbols <- MCSymbols
  Asks <- MCAsks
  Holdings <- MCHoldings
  Cash = 9
  Inherited <- MCInherited
  Prices <- MCPrices
  Grain = 1
  MaxAsks = 3
INVARIANTS
  TypeOK
  OneLiveOrder
  BlotterExplainsAccount
  PortfolioIsTheAccount
PROPERTIES
  ExitsStaySellable
\* The session ends when a call raises.
CHECK_DEADLOCK FALSE
