SPECIFICATION Spec
CONSTANTS
  JournalOffset = 3
  JournalBlocks = 4
  BlockSize = 2
  RecordSizes = {1, 2}
  JrnCheckpointInterval = 3
  MaxRecords = 6
  FaultSteps = {}
PROPERTY NoLiveOverwrite
