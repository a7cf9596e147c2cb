SPECIFICATION Spec
CONSTANTS
  i1 = i1
  n1 = n1
  n2 = n2
  Absent = Absent
  File = File
  Inos <- MCInos
  Names <- MCNames
  NameLen <- MCNameLen
  LongName = 3
  ValueLens = {0, 5, 13}
  Align = 2
  HdrSize = 2
  EntrySize = 2
  PayloadCap = 10
  LenMod = 16
  MaxEntries = 2
  MaxChain = 3
  PoolSize = 5
  Flags = {"create", "replace"}
  FaultAt = {"alloc", "record", "sync", "commit"}
  MaxCalls = 2
  MaxWrites = 1
  MaxCrashes = 1
CHECK_DEADLOCK FALSE
INVARIANTS  DataKept
 
