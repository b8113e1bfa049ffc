CONSTANTS
  MaxRuns = 14
SPECIFICATION Spec
INVARIANT LedgerAligned
