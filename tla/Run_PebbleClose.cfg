CONSTANTS
  Backends = {"pebble"}
  Sizes = {256}
  DefaultSize = 256
  MaxSets = 2
SPECIFICATION Spec
INVARIANT NoCallDuringClose
