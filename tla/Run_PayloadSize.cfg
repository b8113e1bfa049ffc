CONSTANTS
  Backends = {"leveldb"}
  Sizes = {256, 512}
  DefaultSize = 256
  MaxSets = 2
SPECIFICATION Spec
INVARIANT PayloadSize
