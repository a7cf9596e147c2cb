SPECIFICATION Spec
CONSTANTS
  InodeBlocks = {}
  p1 = p1
  p2 = p2
  PoolBlocks = {p1, p2}
  s1 = s1
  Slots = {s1}
  Zero = Zero
  v2 = v2
  Values = {Zero, v2}
  w1 = w1
  w2 = w2
  Writers = {w1, w2}
  sync = sync
  SyncDrainers = {sync}
  FsyncDrainers = {}
  Undef = Undef
SYMMETRY Symmetry
CHECK_DEADLOCK FALSE
INVARIANT PagesCoherent
INVARIANT DrainNeverClobbers
INVARIANT FreesConserved
