\* A backtest ends with its feed: MaxBars bars, so the end is not a deadlock.
CONSTANTS
  a = a
  b = b
  tech = tech
  None = None
  NoPrice = NoPrice
  Symbols <- MCSymbols
  SectorOf <- MCSectorOf
  Slices <- MCSlices
  IntentLists <- MCIntentLists
  Configs <- MCConfigs
  VolScales = {60, 100}
  Scale = 10
  Slip = 1
  Fee = 1
  PerUnit = 1
  StartCash = 40
  MaxBars = 4
SPECIFICATION Spec
INVARIANTS
  TypeOK
  CapsBindTheBar
  HaltStopsEntries
  FirstBarAfterDecision
  OrdersAccounted
  NoBorrowing
PROPERTIES
  ExitsGoThrough
CHECK_DEADLOCK FALSE
