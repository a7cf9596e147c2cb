SPECIFICATION Spec
CONSTANTS
  i1 = i1
  InodeBlocks = {i1}
  PoolBlocks = {}
  s1 = s1
  s2 = s2
  Slots = {s1, s2}
  v1 = v1
  v2 = v2
  v3 = v3
  v4 = v4
  Zero = Zero
  Values = {Zero, v1, v2, v3, v4}
  w1 = w1
  Writers = {w1}
  SyncDrainers = {}
  fsync = fsync
  FsyncDrainers = {fsync}
  Undef = Undef
SYMMETRY Symmetry
CHECK_DEADLOCK FALSE
INVARIANT SlotsCoherent
