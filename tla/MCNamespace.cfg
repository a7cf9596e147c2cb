CONSTANTS
  Inos = {1, 2, 3, 4}
  Names = {"a", "b"}
  Vals = {0, 1}
  Trees = {"full"}
  Calls = {"create", "unlink", "link", "rename", "exchange", "whiteout", "setattr", "no room", "crash in replay"}
  MaxCalls = 3
  MaxSyncs = 1
  MaxCrashes = 1
SPECIFICATION Spec
INVARIANTS TypeOK  NlinksExact NumbersConserved
PROPERTIES RecoversToACall
CHECK_DEADLOCK FALSE
