SPECIFICATION ScanSpec
CONSTANTS
  Entries <- MCEntries
  ScanLength = 3
  NoEntry = NoEntry
INVARIANTS ScanTypeOK EligibleWins
CHECK_DEADLOCK FALSE
