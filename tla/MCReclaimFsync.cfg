SPECIFICATION Spec
CONSTANTS
  BlockCount = 4
  WordBits = 2
  Callers = {c1}
  Sizes = {2}
  Shields = {0}
  FreeOrders = {"log", "defer", "now"}
  FsyncDrains = TRUE
  ZeroFree = FALSE
  Syncer = Syncer
  None = None
INVARIANT NoDoubleUse
