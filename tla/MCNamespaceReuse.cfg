CONSTANTS
  Inos = {1, 2, 3, 4}
  Names = {"a", "b"}
  Vals = {0, 1}
  Trees = {"bare", "full"}
  Calls = {"create", "unlink", "link", "rename", "exchange", "whiteout", "setattr", "no room", "reuse"}
  MaxCalls = 3
  MaxSyncs = 1
  MaxCrashes = 1
SPECIFICATION Spec
PROPERTIES RecoversToACall
CHECK_DEADLOCK FALSE
