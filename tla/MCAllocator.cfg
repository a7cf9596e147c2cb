SPECIFICATION Spec
CONSTANTS
  BlockCount = 5
  WordBits = 2
  Callers = {c1}
  Sizes = {2, 3}
  Shields = {0, 2}
  FreeOrders = {"log", "now"}
  FsyncDrains = FALSE
  ZeroFree = FALSE
  Syncer = Syncer
  None = None
INVARIANTS TypeOK SummariesExact FreeCountExact FreeRunIsFreeBlocks FreedAfterCommit
PROPERTIES ScanFindsFreeBlocks ShieldIsKept
