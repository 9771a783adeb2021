SPECIFICATION Spec
CONSTANTS
  a = a
  None = None
  Symbols <- MCSymbols
  Asks <- MCAsks
  Holdings <- MCHoldings
  Cash = 9
  Inherited <- MCInherited
  Prices <- MCPrices
  Grain = 1
  MaxAsks = 2
PROPERTIES
  OrdersSettle
  KeepsTheProtocol
\* The session ends when a call raises.
CHECK_DEADLOCK FALSE
