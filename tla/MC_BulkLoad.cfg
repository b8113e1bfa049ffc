CONSTANTS
  BatchSize = 3
  Counts <- MCCounts
SPECIFICATION Spec
INVARIANT TypeOK LoadCoversCount
