CONSTANTS
  Backends = {"leveldb", "pebble", "unknown"}
  Sizes = {256}
  DefaultSize = 256
  MaxSets = 2
SPECIFICATION Spec
INVARIANT StoreClosedAtExit
