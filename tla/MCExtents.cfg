CONSTANTS
  BS = 2
  InlineMax = 1
  MaxInlineExts = 1
  LeafFanout = 1
  IdxFanout = 2
  PoolSize = 7
  MaxBlocks = 3
  Vals = {1}
  Ranges <- SomeRanges
  Sizes <- SomeSizes
  Calls = {"write", "prealloc", "punch", "zero", "shift", "truncate", "remove", "sync", "fail"}
  MaxCalls = 4
  Readers = {}
SPECIFICATION Spec
INVARIANTS TypeOK BlocksOwnedOnce CachedTreeIsDiskTree IndexWellFormed ShieldIsReserve AllocationsJournalled
PROPERTIES FileRefinement
CHECK_DEADLOCK FALSE
