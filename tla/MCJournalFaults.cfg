SPECIFICATION FairSpec
CONSTANTS
  JournalOffset = 3
  JournalBlocks = 4
  BlockSize = 2
  RecordSizes = {1, 2}
  JrnCheckpointInterval = 3
  MaxRecords = 6
  FaultSteps = {"r_write", "s_write", "s_meta", "s_alloc"}
INVARIANTS
  TypeOK
  PositionsCounted
  ReplayedIsLogTail
  SyncedIsCommitted
PROPERTIES SyncKeepsLive EveryCallReturns
