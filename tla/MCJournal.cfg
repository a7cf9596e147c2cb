SPECIFICATION Spec
CONSTANTS
  JournalOffset = 3
  JournalBlocks = 5
  BlockSize = 2
  RecordSizes = {1, 2}
  JrnCheckpointInterval = 3
  MaxRecords = 7
  FaultSteps = {}
INVARIANTS
  CommittedIsReplayedUnlessFull
  CommittedFlushedBeforeRetire
