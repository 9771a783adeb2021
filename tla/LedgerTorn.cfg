SPECIFICATION LedgerSpec
CONSTANTS
  MaxTrials = 2
  MaxRecords = 4
INVARIANT NeverACorruptedMiddle
CHECK_DEADLOCK FALSE
