CONSTANTS
  MaxRuns = 14
SPECIFICATION Spec
INVARIANT NoSilentLoss
