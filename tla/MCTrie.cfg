CONSTANTS
  Dirs = {d1, d2}
  SubDirs = {d2}
  Names <- FewNames
  Inos = {1, 2, 3, 4}
  PoolSize = 3
  SlotsPerPage = 4
  HeapSize = 6
  LenPrefix = 1
  SiblingMax = 4
  Calls = {"add", "remove", "move", "exchange", "whiteout", "mkdir"}
  MaxCalls = 4
SPECIFICATION Spec
INVARIANTS ListingIsLookup TrieWellFormed LivePagesKept NoPageLeaks
PROPERTIES DirRefinement
CHECK_DEADLOCK FALSE
