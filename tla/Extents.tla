------------------------------ MODULE Extents ------------------------------
(***************************************************************************)
(* The data of one file: fuse/file_ops.go, fuse/extent_ops.go,             *)
(* fuse/extent_rebuild.go, fuse/meta_shield.go, and the B+tree of          *)
(* briefs/btree_build.go and briefs/btree.go.                              *)
(*                                                                         *)
(* A call holds the inode's lock from start to end, so it is one step; its *)
(* effect is computed on a record o ("the operation") that carries the     *)
(* inode it read, the extent list, the device, the pool and the blocks it  *)
(* got.  Readers take no lock: a read or a stat is a step that reads the   *)
(* inode, one that walks the index and one that caches the walk.  Next     *)
(* has the reads no call overlaps, NextWithReaders all of them.            *)
(*                                                                         *)
(* Sizes are in units, BS to a block.  A freed data block's content is     *)
(* Stale: nobody may see it again.                                         *)
(***************************************************************************)
EXTENDS ExtentList, TLC

CONSTANTS
  BS,              \* units of a block: 4096
  InlineMax,       \* units of the inode's inline region: inlineDataMax = 256
  MaxInlineExts,   \* extents that fit the same region: 8
  LeafFanout,      \* extents of a leaf: 126
  IdxFanout,       \* separators of an index node: 253
  PoolSize,        \* data blocks of the device
  MaxBlocks,       \* the largest file, in blocks
  Vals,            \* values a client writes
  Ranges,          \* ranges <<first unit, end>> the clients use
  Sizes,           \* sizes they truncate to
  Calls,           \* the calls clients make, see Next
  MaxCalls,        \* how many of them
  Readers          \* concurrent readers

ASSUME ExtentsAssumption ==
  /\ BS \in Nat /\ InlineMax \in 1..(BS - 1) /\ MaxInlineExts \in Nat \ {0}
  /\ LeafFanout \in Nat \ {0} /\ IdxFanout \in Nat \ {0}
  /\ PoolSize \in Nat /\ MaxBlocks \in Nat /\ MaxCalls \in Nat /\ Vals \subseteq Nat \ {0}
  /\ Ranges \subseteq (0..(MaxBlocks * BS)) \X (0..(MaxBlocks * BS)) /\ Sizes \subseteq 0..(MaxBlocks * BS)
  /\ \A r \in Ranges : r[1] < r[2]

Pool    == 1..PoolSize
MaxSize == MaxBlocks * BS

VARIABLES
  ino,        \* the inode as the next call reads it
  disk,       \* contents of the pool's blocks
  free,       \* blocks the allocator may hand out
  pend,       \* pendingFrees: blocks free after the next journal sync
  cache,      \* extentTrees: the walked index of the inode, or NoTree
  res,        \* unwrittenRes: preallocated blocks the shield accounts for
  shield,     \* metaShield
  readOnly,   \* failWrite happened
  logged,     \* blocks whose allocation a JRN_EXTENT_ALLOC record covers
  calls,      \* calls made so far
  rd,         \* where each reader is
  view        \* what a read of the file returns (auxiliary)

vars == <<ino, disk, free, pend, cache, res, shield, readOnly, logged, calls, rd, view>>

-----------------------------------------------------------------------------
(* Device blocks.                                                          *)
Units       == 0..(BS - 1)
Data(f)     == [kind |-> "data", val |-> f]
Stale       == Data([u \in Units |-> -1])
Leaf(c, n)  == [kind |-> "leaf", chunk |-> c, next |-> n]
Index(k, s) == [kind |-> "index", kids |-> k, keys |-> s]

Bytes(d, b) == IF d[b].kind = "data" THEN d[b].val ELSE Stale.val

(* The inline region holds data or the inline extents: the same bytes.     *)
AsData(f)  == [holds |-> "data", data |-> f]
AsExts(e)  == [holds |-> "extents", exts |-> e]
NoData     == [u \in 0..(InlineMax - 1) |-> 0]
InlineData(in) ==
  IF in.region.holds = "data" THEN in.region.data
  ELSE IF in.region.exts = <<>> THEN NoData ELSE [u \in DOMAIN NoData |-> -1]
InlineExtents(in) == IF in.region.holds = "extents" THEN in.region.exts ELSE <<>>

EmptyInode == [size |-> 0, inline |-> FALSE, indexed |-> FALSE, root |-> 0,
               total |-> 0, region |-> AsExts(<<>>)]

-----------------------------------------------------------------------------
(* The index as walked: collectExtentTree and walkBtreeNode.               *)
RECURSIVE Walk(_, _)
Walk(d, b) ==
  IF d[b].kind = "leaf"
  THEN [leaves |-> <<[block |-> b, chunk |-> d[b].chunk]>>, idx |-> <<>>, bad |-> FALSE]
  ELSE IF d[b].kind # "index" THEN [leaves |-> <<>>, idx |-> <<>>, bad |-> TRUE]
  ELSE FoldLeft(LAMBDA w, k : LET s == Walk(d, k) IN
                  [leaves |-> w.leaves \o s.leaves, idx |-> w.idx \o s.idx, bad |-> w.bad \/ s.bad],
                [leaves |-> <<>>, idx |-> <<b>>, bad |-> FALSE], d[b].kids)

NoTree == [exts |-> <<>>, leaves |-> <<>>, idx |-> <<>>, root |-> 0, total |-> 0]

WalkInode(d, in) ==
  LET Walked(w) == [exts   |-> FlattenSeq([i \in DOMAIN w.leaves |-> w.leaves[i].chunk]),
                    leaves |-> w.leaves, idx |-> w.idx, root |-> in.root, total |-> in.total]
  IN IF in.inline THEN NoTree
     ELSE IF ~in.indexed THEN [NoTree EXCEPT !.exts = InlineExtents(in)]
     ELSE Walked(Walk(d, in.root))

treeBacked(in) == in.indexed /\ in.root # 0

(* Faulty: an entry is taken for valid whatever root it was walked under.  *)
CacheHitAnyRoot(c, in) == treeBacked(in) /\ c # NoTree

CacheHit(c, in) == treeBacked(in) /\ c # NoTree /\ c.root = in.root /\ c.total = in.total

collectExtentTree(c, d, in) == IF CacheHit(c, in) THEN c ELSE WalkInode(d, in)

allNodes(t) == {t.leaves[i].block : i \in DOMAIN t.leaves} \cup ToSet(t.idx)

-----------------------------------------------------------------------------
(* Allocation.  The scans take the lowest free blocks; a scan that finds   *)
(* nothing commits the journal, which frees the pending blocks, and runs   *)
(* once more.                                                              *)
Begin == [in |-> ino, exts |-> <<>>, disk |-> disk, free |-> free, pend |-> pend,
          cache |-> cache, tree |-> NoTree, got |-> {}, old |-> {}, new |-> <<>>, ok |-> TRUE]

(* The next step of a call, unless a block could not be had.               *)
Then(o, F(_)) == IF o.ok THEN F(o) ELSE o

Avail(o) == Max({0, Cardinality(o.free) - shield})

tryAllocBlock(o)     == IF Avail(o) > 0 THEN {Min(o.free)} ELSE {}
tryAllocBlockMeta(o) == IF o.free # {} THEN {Min(o.free)} ELSE {}
tryAllocBlocks(o, n) ==
  LET starts == {s \in o.free : s..(s + n - 1) \subseteq o.free}
  IN IF n > Avail(o) \/ starts = {} THEN {} ELSE Min(starts)..(Min(starts) + n - 1)
tryAllocRunsUpTo(o, n) == {b \in o.free : Cardinality({c \in o.free : c < b}) < Min({n, Avail(o)})}

FreeAll(d, S) == [b \in Pool |-> IF b \in S THEN Stale ELSE d[b]]

reclaim(o) == [o EXCEPT !.free = @ \cup o.pend, !.pend = {}, !.disk = FreeAll(@, o.pend)]

(* Faulty: the blocks do not join the list that is journalled.             *)
TakeUnlisted(o, S) == [o EXCEPT !.free = @ \ S, !.new = SetToSortSeq(S, <), !.ok = @ /\ S # {}]

Take(o, S) == [o EXCEPT !.free = @ \ S, !.got = @ \cup S,
                        !.new = SetToSortSeq(S, <), !.ok = @ /\ S # {}]

Alloc(o, Try(_)) ==
  IF Try(o) = {} /\ o.pend # {} THEN Take(reclaim(o), Try(reclaim(o))) ELSE Take(o, Try(o))

AllocBlock(o)       == Alloc(o, tryAllocBlock)
AllocBlockMeta(o)   == Alloc(o, tryAllocBlockMeta)
AllocBlocks(o, n)   == Alloc(o, LAMBDA x : tryAllocBlocks(x, n))
AllocRunsUpTo(o, n) == Alloc(o, LAMBDA x : tryAllocRunsUpTo(x, n))

(* n metadata blocks, in the order they were handed out, in o.new.         *)
AllocNodes(o, n) ==
  LET Listed(old, p) == [p EXCEPT !.new = old \o @]
  IN FoldLeft(LAMBDA p, i : Then(p, LAMBDA x : Listed(x.new, AllocBlockMeta(x))),
              [o EXCEPT !.new = <<>>], [i \in 1..n |-> i])

RECURSIVE Harvest(_, _, _)
Harvest(o, b, t) ==
  LET Placed(p) == Harvest([p EXCEPT !.exts = InsertAll(@, [i \in DOMAIN p.new |->
                                                Extent(b + i - 1, p.new[i], 1, TRUE)])],
                           b + Len(p.new), t)
  IN IF b = t \/ ~o.ok THEN o ELSE Placed(AllocRunsUpTo(o, t - b))

(* One run if there is one, else the fragments there are.                  *)
allocUnwrittenHole(o, s, t) ==
  LET Placed(p) ==
        IF p.ok THEN [p EXCEPT !.exts = insertExtentSorted(@, Extent(s, p.new[1], t - s, TRUE))]
        ELSE Harvest([p EXCEPT !.ok = TRUE], s, t)
  IN Placed(AllocBlocks(o, t - s))

FillHoles(o, s, t) ==
  FoldLeft(LAMBDA p, h : Then(p, LAMBDA x : allocUnwrittenHole(x, h[1], h[2])),
           o, Holes(o.exts, s, t))

-----------------------------------------------------------------------------
(* Storing a changed extent list.                                          *)

(* Faulty: the separators are the first offsets left of them.              *)
IndexNodeShifted(kids, keys, s, t) == Index(SubSeq(kids, s, t), SubSeq(keys, s, t - 1))

IndexNode(kids, keys, s, t) == Index(SubSeq(kids, s, t), SubSeq(keys, s + 1, t))

(* Node i goes to block blks[i].                                           *)
WriteNodes(d, blks, nodes) ==
  [b \in {blks[i] : i \in DOMAIN nodes} |->
     nodes[CHOOSE i \in DOMAIN nodes : blks[i] = b]] @@ d

(* Levels of index nodes, the children spread evenly.                      *)
RECURSIVE BuildBtreeIndex(_, _, _)
BuildBtreeIndex(o, kids, keys) ==
  LET n    == (Len(kids) + IdxFanout) \div (IdxFanout + 1)
      base == Len(kids) \div n
      rem  == Len(kids) % n
      from(i) == (i - 1) * base + Min({i - 1, rem}) + 1
      node(i) == IndexNode(kids, keys, from(i), i * base + Min({i, rem}))
      Level(p) == BuildBtreeIndex([p EXCEPT !.disk = WriteNodes(@, p.new, [i \in 1..n |-> node(i)])],
                                  p.new, [i \in 1..n |-> keys[from(i)]])
  IN IF ~o.ok THEN o
     ELSE IF Len(kids) = 1 THEN [o EXCEPT !.in.root = kids[1]]
     ELSE Then(AllocNodes(o, n), Level)

(* The new index over the chunks; the first `kept` leaves stay where they  *)
(* are.                                                                    *)
BuildTree(o, chunks, kept) ==
  LET fresh == (Len(kept) + 1)..Len(chunks)
      leaf(i, blks) == Leaf(chunks[i], IF i < Len(chunks) THEN blks[i + 1] ELSE 0)
      Over(p, blks) ==
        [BuildBtreeIndex([p EXCEPT !.disk = WriteNodes(@, blks, [i \in fresh |-> leaf(i, blks)])],
                         blks, [i \in DOMAIN chunks |-> chunks[i][1].off])
         EXCEPT !.in.indexed = TRUE, !.in.total = Len(o.exts), !.new = blks]
  IN Then(AllocNodes(o, Len(chunks) - Len(kept)), LAMBDA p : Over(p, kept \o p.new))

rebuildExtentIndex(o) ==
  LET p == [o EXCEPT !.cache = NoTree]
  IN IF o.exts = <<>> \/ (Len(o.exts) <= MaxInlineExts /\ ~o.in.indexed)
     THEN [p EXCEPT !.in.region = AsExts(o.exts), !.in.total = Len(o.exts),
                    !.in.root = 0, !.in.indexed = FALSE]
     ELSE BuildTree(p, ChunkBtreeExtents(o.exts, LeafFanout), <<>>)

(* The leaves of the equal prefix, less its last one.                      *)
Reuse(leaves, chunks) ==
  LET same == {i \in DOMAIN leaves \cap DOMAIN chunks :
                 \A j \in 1..i : leaves[j].chunk = chunks[j]}
  IN [i \in {j \in same : j + 1 \in same} |-> leaves[i].block]

(* Faulty: the kept leaves are freed with the rest of the old index.       *)
ReplacedWithKept(tree, kept) == allNodes(tree)

Replaced(tree, kept) == allNodes(tree) \ ToSet(kept)

(* The index over the chunks, with its walk cached.                        *)
Rebuilt(o, chunks, kept) ==
  Then(BuildTree(o, chunks, kept), LAMBDA p :
    [p EXCEPT !.old = Replaced(o.tree, kept),
              !.cache = [exts |-> o.exts, root |-> p.in.root, total |-> Len(o.exts),
                         leaves |-> [i \in DOMAIN chunks |-> [block |-> p.new[i], chunk |-> chunks[i]]],
                         idx |-> Walk(p.disk, p.in.root).idx]])

rebuildExtentIndexWrite(o) ==
  LET Chunked(chunks) == Rebuilt(o, chunks, Reuse(o.tree.leaves, chunks))
  IN IF o.exts = <<>> \/ ~o.in.indexed \/ o.tree.leaves = <<>>
     THEN [rebuildExtentIndex(o) EXCEPT !.old = allNodes(o.tree)]
     ELSE Chunked(ChunkBtreeExtents(o.exts, LeafFanout))

-----------------------------------------------------------------------------
(* How a call ends.  setUnwrittenRes moves the shield by the difference of *)
(* the reserves.                                                           *)
metaReserveSize(n) ==
  LET leaves    == (n + LeafFanout - 1) \div LeafFanout
      internals == (leaves + IdxFanout - 1) \div IdxFanout
  IN IF n = 0 THEN 0 ELSE leaves + internals + 1

(* Faulty: the shield is set aside once and never released.                *)
setUnwrittenResOneWay(n) ==
  /\ res' = n
  /\ shield' = Max({shield, shield + metaReserveSize(n) - metaReserveSize(res)})

setUnwrittenRes(n) ==
  /\ res' = n
  /\ shield' = shield + metaReserveSize(n) - metaReserveSize(res)

(* Phase one failed: the blocks it got go back, what it wrote in place     *)
(* stays.  The walk it made may have been cached.                          *)
rollbackAlloc(o) ==
  /\ ~o.ok
  /\ free' = o.free \cup o.got /\ pend' = o.pend /\ disk' = FreeAll(o.disk, o.got)
  /\ cache' = o.cache
  /\ UNCHANGED <<ino, res, shield, readOnly, logged>>

(* The inode is published.                                                 *)
Publish(o) ==
  /\ o.ok
  /\ ino' = o.in /\ disk' = o.disk /\ free' = o.free /\ cache' = o.cache
  /\ UNCHANGED readOnly

(* With records of what was allocated and freed; the freed blocks wait for *)
(* the commit of theirs.                                                   *)
commitExtentChange(o, freed) ==
  /\ Publish([o EXCEPT !.disk = FreeAll(@, freed)])
  /\ logged' = logged \cup o.got
  /\ pend' = o.pend \cup freed \cup o.old

(* With a record of the inode alone.                                       *)
commitInodeMetadata(o) == Publish(o) /\ pend' = o.pend /\ UNCHANGED logged

(* A record cannot be written: nothing is published, and the blocks stay   *)
(* allocated.                                                              *)
failWrite(o) ==
  /\ "fail" \in Calls /\ o.ok
  /\ readOnly' = TRUE
  /\ disk' = o.disk /\ free' = o.free /\ pend' = o.pend /\ cache' = o.cache
  /\ UNCHANGED <<ino, logged>>

(* The ends of a call that changed the extent list...                      *)
EndExtents(o, freed) ==
  \/ rollbackAlloc(o)
  \/ /\ commitExtentChange(o, freed) \/ failWrite(o)
     /\ setUnwrittenRes(countUnwrittenBlocks(o.exts))

(* ... and of one that changed the inode only.                             *)
EndInode(o) == (commitInodeMetadata(o) \/ failWrite(o)) /\ UNCHANGED <<res, shield>>

commitRebuiltExtents(o, freed) == EndExtents(Then(o, rebuildExtentIndexWrite), freed)

-----------------------------------------------------------------------------
(* Writing.                                                                *)
ZeroUnits(d, b, s, t) ==
  [d EXCEPT ![b] = Data([u \in Units |-> IF s <= u /\ u < t THEN 0 ELSE Bytes(d, b)[u]])]

(* Zero the units s .. t-1 of file block b in place, where `exts` maps it  *)
(* to a block with one of the given flags.                                 *)
ZeroMapped(d, exts, b, s, t, flags) ==
  LET hit == {e \in lookupExtent(exts, b) : e.unw \in flags}
  IN IF hit = {} THEN d ELSE ZeroUnits(d, BlockOf(CHOOSE e \in hit : TRUE, b), s, t)

(* zeroEofTail and zeroEofTailBlock: from the end of the file to the end   *)
(* of its last block.                                                      *)
ZeroTail(d, exts, size, flags) ==
  IF size % BS = 0 THEN d
  ELSE ZeroMapped(d, exts, size \div BS, size % BS, BS, flags)

(* The walk a call works from.                                             *)
WithTree(o) ==
  LET Walked(t) == [o EXCEPT !.exts = t.exts, !.tree = t, !.cache = IF treeBacked(o.in) THEN t ELSE @]
  IN Walked(collectExtentTree(o.cache, o.disk, o.in))

promoteInlineData(o) ==
  LET old  == InlineData(o.in)
      bare == [o EXCEPT !.in.inline = FALSE, !.in.indexed = FALSE, !.in.root = 0,
                        !.in.region = AsData(NoData), !.in.total = 0]
  IN IF o.in.size = 0 THEN bare
     ELSE Then(AllocBlock(bare), LAMBDA p :
       [p EXCEPT !.disk[p.new[1]] = Data([u \in Units |-> IF u < o.in.size THEN old[u] ELSE 0]),
                 !.in.region = AsExts(<<Extent(0, p.new[1], 1, FALSE)>>), !.in.total = 1])

(* One round of the loop of writeExtentData: file block b gets v in the    *)
(* units of the range r.                                                   *)
WriteBlock(o, b, r, v) ==
  LET patch(base) == Data([u \in Units |-> IF r[1] <= b * BS + u /\ b * BS + u < r[2]
                                           THEN v ELSE base[u]])
      zero == [u \in Units |-> 0]
      full == r[1] <= b * BS /\ (b + 1) * BS <= r[2]
      Over(e) ==
        [o EXCEPT !.disk[BlockOf(e, b)] =
                     patch(IF e.unw \/ full THEN zero ELSE Bytes(o.disk, BlockOf(e, b))),
                  !.exts = IF e.unw THEN splitUnwrittenAt(@, e, b) ELSE @]
      Fill(p) ==
        [p EXCEPT !.disk[p.new[1]] = patch(zero),
                  !.exts = insertExtentSorted(@, Extent(b, p.new[1], 1, FALSE))]
      At(hit) == IF hit = {} THEN Then(AllocBlock(o), Fill) ELSE Over(CHOOSE e \in hit : TRUE)
  IN At(lookupExtent(o.exts, b))

writeExtentData(o, oldSize, r, v) ==
  LET first == r[1] \div BS
      Loop(p) == FoldLeft(LAMBDA x, i : Then(x, LAMBDA y : WriteBlock(y, first + i - 1, r, v)),
                          IF r[1] > oldSize
                          THEN [p EXCEPT !.disk = ZeroTail(@, p.exts, oldSize, BOOLEAN)] ELSE p,
                          [i \in 1..((r[2] - 1) \div BS - first + 1) |-> i])
      Store(w) == IF w.exts # w.tree.exts THEN rebuildExtentIndexWrite(w) ELSE w
  IN [Then(Loop(WithTree(o)), Store) EXCEPT !.in.size = Max({oldSize, r[2]})]

writeInlineData(in, r, v) ==
  [in EXCEPT !.inline = TRUE, !.size = Max({@, r[2]}),
             !.region = AsData([u \in DOMAIN NoData |->
                IF r[1] <= u /\ u < r[2] THEN v
                ELSE IF in.size <= u /\ u < r[1] THEN 0 ELSE InlineData(in)[u]])]

writeFileData(r, v) ==
  IF ino.inline \/ (ino.size = 0 /\ ino.total = 0)
  THEN IF r[2] <= InlineMax THEN EndInode([Begin EXCEPT !.in = writeInlineData(@, r, v)])
       ELSE EndExtents(Then(promoteInlineData(Begin), LAMBDA p : writeExtentData(p, ino.size, r, v)), {})
  ELSE EndExtents(writeExtentData(Begin, ino.size, r, v), {})

-----------------------------------------------------------------------------
(* fallocate, by mode.  r is the range in units.                           *)
Floor(n) == n \div BS
Ceil(n)  == (n + BS - 1) \div BS

(* Faulty: the range is added to the size.                                 *)
GrownBy(in, keep, end) == [in EXCEPT !.size = IF keep THEN @ ELSE @ + end]

(* Grow, unless KEEP_SIZE was given.                                       *)
Grown(in, keep, end) == [in EXCEPT !.size = IF keep THEN @ ELSE Max({@, end})]

(* Inline data is promoted only when the range exceeds the region.         *)
preallocate(r, keep) ==
  LET Fill(p) == FillHoles(WithTree(p), Floor(r[1]), Ceil(r[2]))
      Grow(o) == [o EXCEPT !.in = Grown(@, keep, r[2])]
  IN commitRebuiltExtents(
       Grow(Then(IF ino.inline /\ r[2] > InlineMax THEN promoteInlineData(Begin) ELSE Begin, Fill)), {})

ZeroInline(in, s, t) ==
  [in EXCEPT !.region = AsData([u \in DOMAIN NoData |->
                                  IF s <= u /\ u < t THEN 0 ELSE InlineData(in)[u]])]

(* The punched parts of the boundary blocks are zeroed in place.           *)
PunchBoundary(d, exts, r) ==
  LET s == Floor(r[1])
      t == Ceil(r[2])
      h == IF r[1] % BS = 0 THEN d ELSE ZeroMapped(d, exts, s, r[1] % BS, BS, BOOLEAN)
  IN IF r[1] % BS # 0 /\ r[2] % BS # 0 /\ s = t - 1
     THEN ZeroMapped(d, exts, s, r[1] % BS, r[2] % BS, BOOLEAN)
     ELSE IF r[2] % BS = 0 THEN h ELSE ZeroMapped(h, exts, t - 1, 0, r[2] % BS, BOOLEAN)

punchHole(r) ==
  LET Commit(o, f) ==
        IF f.freed # {} \/ Len(f.exts) # Len(o.exts)
        THEN commitRebuiltExtents([o EXCEPT !.exts = f.exts, !.disk = PunchBoundary(@, o.exts, r)], f.freed)
        ELSE /\ \E b \in {Floor(r[1]), Ceil(r[2]) - 1} : lookupExtent(o.exts, b) # {}
             /\ EndInode([o EXCEPT !.disk = PunchBoundary(@, o.exts, r)])
      Punch(o) == Commit(o, IF Ceil(r[1]) < Floor(r[2])
                          THEN freeExtentRange(o.exts, Ceil(r[1]), Floor(r[2]))
                          ELSE [exts |-> o.exts, freed |-> {}])
  IN IF ino.inline
     THEN /\ r[1] < ino.size
          /\ EndInode([Begin EXCEPT !.in = ZeroInline(@, r[1], Min({r[2], ino.size}))])
     ELSE Punch(WithTree(Begin))

(* The extents of o become c.exts, and the size moves by d.                *)
commitShift(o, c, d) ==
  commitRebuiltExtents([o EXCEPT !.exts = c.exts, !.in.size = @ + d], c.freed)

collapseRangeOp(r) ==
  LET Shift(o) == commitShift(o, collapseExtents(o.exts, Floor(r[1]), Floor(r[2]) - Floor(r[1])),
                              r[1] - r[2])
  IN /\ r[1] % BS = 0 /\ r[2] % BS = 0 /\ r[2] < ino.size /\ ~ino.inline
     /\ Shift(WithTree(Begin))

insertRangeOp(r) ==
  LET Shift(o) == commitShift(o, [exts  |-> insertHole(o.exts, Floor(r[1]), Floor(r[2]) - Floor(r[1])),
                                  freed |-> {}], r[2] - r[1])
  IN /\ r[1] % BS = 0 /\ r[2] % BS = 0 /\ r[1] < ino.size /\ ~ino.inline
     /\ r[2] - r[1] <= MaxSize - ino.size
     /\ Shift(WithTree(Begin))

(* zeroRegion: written blocks only, units s .. t-1 of the file.            *)
ZeroRegion(d, exts, s, t) ==
  FoldLeft(LAMBDA x, i : LET b == Floor(s) + i - 1 IN
             ZeroMapped(x, exts, b, Max({s, b * BS}) - b * BS, Min({t, (b + 1) * BS}) - b * BS, {FALSE}),
           d, [i \in 1..(IF s < t THEN Ceil(t) - Floor(s) ELSE 0) |-> i])

(* The whole blocks of the range become unwritten, the rest is zeroed in   *)
(* place, and the tail of the old last block before the file grows.        *)
zeroRangeOp(r, keep) ==
  LET s   == Ceil(r[1])
      t   == Floor(r[2])
      mid == s < t
      Zeroed(o) == [o EXCEPT !.disk =
                      IF mid THEN ZeroRegion(ZeroRegion(@, o.exts, r[1], s * BS), o.exts, t * BS, r[2])
                      ELSE ZeroRegion(@, o.exts, r[1], r[2])]
      Unwritten(o) == IF mid THEN FillHoles([o EXCEPT !.exts = UnwriteRange(@, s, t)], s, t) ELSE o
      GrowTail(o) == [o EXCEPT !.in = Grown(@, keep, r[2]),
                              !.disk = IF ~keep /\ r[2] > ino.size /\ Floor(ino.size) < s
                                       THEN ZeroTail(@, o.tree.exts, ino.size, BOOLEAN) ELSE @]
      Zero(p) == Then(Unwritten(Zeroed(WithTree(p))), GrowTail)
      Commit(o) == IF mid \/ ~o.ok THEN commitRebuiltExtents(o, {}) ELSE EndInode(o)
  IN IF ino.inline /\ r[2] <= InlineMax
     THEN EndInode([Begin EXCEPT !.in = Grown(ZeroInline(@, r[1], Min({r[2], ino.size})), keep, r[2])])
     ELSE Commit(Then(IF ino.inline THEN promoteInlineData(Begin) ELSE Begin, Zero))

-----------------------------------------------------------------------------
(* truncateLocked                                                          *)
truncateDown(n) ==
  LET Commit(o, f) ==
        commitRebuiltExtents([o EXCEPT !.exts = f.exts, !.in.size = n,
                                       !.disk = ZeroTail(@, f.exts, n, {FALSE})], f.freed)
      Cut(o) == Commit(o, freeExtentRange(o.exts, Ceil(n),
                            Max({Ceil(n)} \cup {End(o.exts[i]) : i \in DOMAIN o.exts})))
  IN /\ n < ino.size
     /\ IF ino.inline
        THEN EndInode([Begin EXCEPT !.in = [ZeroInline(@, n, ino.size) EXCEPT
                                              !.size = n, !.inline = n # 0]])
        ELSE Cut(WithTree(Begin))

(* Inline data that outgrows its region is promoted...                     *)
PromoteTo(p, n) ==
  \/ rollbackAlloc(p)
  \/ /\ IF p.got # {} THEN commitExtentChange([p EXCEPT !.in.size = n], {})
        ELSE commitInodeMetadata([p EXCEPT !.in.size = n])
     /\ UNCHANGED <<res, shield>>
  \/ failWrite(p) /\ UNCHANGED <<res, shield>>

(* ... and data in extents has the tail of its last block zeroed.          *)
truncateUp(n) ==
  LET GrowTail(o) == [o EXCEPT !.disk = ZeroTail(@, o.exts, ino.size, {FALSE}), !.in.size = n]
  IN /\ n > ino.size
     /\ IF ~ino.inline
        THEN EndInode(GrowTail(IF ino.size % BS # 0 THEN WithTree(Begin) ELSE Begin))
        ELSE IF n > InlineMax THEN PromoteTo(promoteInlineData(Begin), n)
        ELSE EndInode([Begin EXCEPT !.in = [ZeroInline(@, ino.size, n) EXCEPT !.size = n]])

(* freeInodeData at the last unlink, and the inode number used again for a *)
(* new file.                                                               *)
removeFile ==
  LET Free(t) == pend' = pend \cup BlocksOf(t.exts) \cup allNodes(t)
  IN /\ ino # EmptyInode
     /\ ino' = EmptyInode
     /\ IF ino.inline THEN UNCHANGED <<pend, cache, res, shield>>
        ELSE /\ Free(collectExtentTree(cache, disk, ino))
             /\ cache' = NoTree
             /\ setUnwrittenRes(0)
     /\ UNCHANGED <<disk, free, readOnly, logged>>

(* A journal sync applies the pending frees after its commit point.        *)
Sync ==
  /\ pend # {}
  /\ free' = free \cup pend /\ pend' = {} /\ disk' = FreeAll(disk, pend)
  /\ logged' = logged \ pend
  /\ UNCHANGED <<ino, cache, res, shield, readOnly, calls, rd, view>>

-----------------------------------------------------------------------------
(* readFileData and fillAttr (through extentBlocksOf), without a lock.     *)
Idle == [at |-> "idle"]

ReadInode(x) ==
  /\ rd[x] = Idle /\ treeBacked(ino) /\ ~CacheHit(cache, ino)
  /\ rd' = [rd EXCEPT ![x] = [at |-> "walk", in |-> ino]]
  /\ UNCHANGED <<ino, disk, free, pend, cache, res, shield, readOnly, logged, calls, view>>

WalkIndex(x) ==
  /\ rd[x].at = "walk"
  /\ rd' = [rd EXCEPT ![x] = IF Walk(disk, @.in.root).bad THEN Idle
                             ELSE [at |-> "store", tree |-> WalkInode(disk, @.in)]]
  /\ UNCHANGED <<ino, disk, free, pend, cache, res, shield, readOnly, logged, calls, view>>

storeExtentTree(x) ==
  /\ rd[x].at = "store"
  /\ cache' = rd[x].tree /\ rd' = [rd EXCEPT ![x] = Idle]
  /\ UNCHANGED <<ino, disk, free, pend, res, shield, readOnly, logged, calls, view>>

(* The three steps with no call between them.                              *)
Read ==
  /\ treeBacked(ino) /\ ~CacheHit(cache, ino) /\ ~Walk(disk, ino.root).bad
  /\ cache' = collectExtentTree(cache, disk, ino)
  /\ UNCHANGED <<ino, disk, free, pend, res, shield, readOnly, logged, calls, rd, view>>

(* What readFileData returns for each unit: zero beyond the end, in a hole *)
(* and in a preallocated block.                                            *)
readFileData(d, in) ==
  LET exts == WalkInode(d, in).exts
      unit(i) == LET e == lookupExtent(exts, Floor(i))
                 IN IF i >= in.size THEN 0
                    ELSE IF in.inline THEN InlineData(in)[i]
                    ELSE IF {x \in e : ~x.unw} = {} THEN 0
                    ELSE Bytes(d, BlockOf(CHOOSE x \in e : TRUE, Floor(i)))[i % BS]
  IN [i \in 1..MaxSize |-> unit(i - 1)]

-----------------------------------------------------------------------------
Init ==
  /\ ino = EmptyInode /\ disk = [b \in Pool |-> Stale]
  /\ free = Pool /\ pend = {} /\ logged = {}
  /\ cache = NoTree /\ res = 0 /\ shield = 0
  /\ readOnly = FALSE /\ calls = 0 /\ view = readFileData(disk, ino)
  /\ rd = [x \in Readers |-> Idle]

(* The last block holds data beyond the end of the file, which a failed    *)
(* write left there.                                                       *)
DirtyTail ==
  LET e == {x \in lookupExtent(WalkInode(disk, ino).exts, Floor(ino.size)) : ~x.unw}
  IN /\ ino.size % BS # 0
     /\ \E x \in e, u \in (ino.size % BS)..(BS - 1) : Bytes(disk, BlockOf(x, Floor(ino.size)))[u] # 0

(* Calls may leave out three cases of a call: "prealloc inline", within    *)
(* the region of an inline file; "prealloc tail", growing a file that has  *)
(* a dirty tail; and "zero inline", of an inline file, beyond the region   *)
(* but covering no whole block.                                            *)
Call ==
  \/ "write" \in Calls /\ \E r \in Ranges, v \in Vals : writeFileData(r, v)
  \/ "prealloc" \in Calls /\ \E r \in Ranges, keep \in BOOLEAN :
       /\ "prealloc inline" \in Calls \/ ~ino.inline \/ r[2] > InlineMax
       /\ "prealloc tail" \in Calls \/ keep \/ r[2] <= ino.size \/ ~DirtyTail
       /\ preallocate(r, keep)
  \/ "punch" \in Calls /\ \E r \in Ranges : punchHole(r)
  \/ "zero" \in Calls /\ \E r \in Ranges, keep \in BOOLEAN :
       /\ "zero inline" \in Calls \/ ~ino.inline \/ r[2] <= InlineMax \/ Ceil(r[1]) < Floor(r[2])
       /\ zeroRangeOp(r, keep)
  \/ "shift" \in Calls /\ \E r \in Ranges : collapseRangeOp(r) \/ insertRangeOp(r)
  \/ "truncate" \in Calls /\ \E n \in Sizes : truncateDown(n) \/ truncateUp(n)
  \/ "remove" \in Calls /\ removeFile

Next ==
  \/ /\ ~readOnly /\ calls < MaxCalls /\ calls' = calls + 1
     /\ Call /\ UNCHANGED rd
     /\ \E d \in {disk'}, in \in {ino'} : view' = readFileData(d, in)
  \/ "sync" \in Calls /\ Sync
  \/ Read

Spec == Init /\ [][Next]_vars

NextWithReaders ==
  \/ Next
  \/ \E x \in Readers : ReadInode(x) \/ WalkIndex(x) \/ storeExtentTree(x)

SpecWithReaders == Init /\ [][NextWithReaders]_vars

-----------------------------------------------------------------------------
(* Properties.                                                             *)
TypeOK ==
  /\ ino.size \in 0..MaxSize /\ ino.inline \in BOOLEAN /\ ino.indexed \in BOOLEAN
  /\ ino.root \in Pool \cup {0} /\ DOMAIN disk = Pool
  /\ free \subseteq Pool /\ pend \subseteq Pool /\ logged \subseteq Pool
  /\ res \in Nat /\ shield \in Int /\ readOnly \in BOOLEAN
  /\ \A x \in Readers : rd[x].at \in {"idle", "walk", "store"}

File == INSTANCE FileData WITH size <- ino.size, bytes <- view

(* Every call, on inline data, inline extents or an indexed file, changes  *)
(* what a read returns exactly as the file of FileData changes, and a call *)
(* that fails part-way has touched only bytes of its own range.            *)
FileRefinement == File!Spec

(* Each block of the pool is free, waiting to be freed, a node of the      *)
(* index or mapped by exactly one extent, once, until a failed record      *)
(* write freezes the mount: nothing leaks and nothing is used twice.       *)
BlocksOwnedOnce ==
  ~readOnly =>
    LET t    == WalkInode(disk, ino)
        maps == [i \in DOMAIN t.exts |-> Blocks(t.exts[i])]
        own  == <<free, pend, allNodes(t)>> \o maps
    IN /\ UNION ToSet(own) = Pool
       /\ \A i, j \in DOMAIN own : i # j => own[i] \cap own[j] = {}

(* A cached walk that lookupExtentTree accepts for the inode is the walk   *)
(* of the index on the device: extents, leaf blocks and index blocks.      *)
CachedTreeIsDiskTree ==
  CacheHit(cache, ino) =>
    LET t == WalkInode(disk, ino)
    IN cache.exts = t.exts /\ cache.leaves = t.leaves /\ ToSet(cache.idx) = ToSet(t.idx)

RECURSIVE FirstKey(_)
FirstKey(b) == IF disk[b].kind = "leaf" THEN disk[b].chunk[1].off ELSE FirstKey(disk[b].kids[1])

RECURSIVE Depth(_)
Depth(b) == IF disk[b].kind = "leaf" THEN 0 ELSE 1 + Depth(disk[b].kids[1])

(* The index of a file is a B+tree: the extents ascend without overlap,    *)
(* the inode counts them, no node is overfull, separators are the first    *)
(* offsets of the subtrees right of them, and all leaves are at one depth. *)
IndexWellFormed ==
  LET t == WalkInode(disk, ino)
  IN ~ino.inline =>
       /\ \A i \in 1..(Len(t.exts) - 1) : End(t.exts[i]) <= t.exts[i + 1].off
       /\ ino.total = Len(t.exts)
       /\ ino.indexed =>
            /\ ~Walk(disk, ino.root).bad /\ t.leaves # <<>>
            /\ \A i \in DOMAIN t.leaves : Len(t.leaves[i].chunk) \in 1..LeafFanout
            /\ \A b \in ToSet(t.idx) :
                 LET n == disk[b]
                 IN /\ Len(n.kids) = Len(n.keys) + 1 /\ Len(n.keys) \in 1..IdxFanout
                    /\ \A i \in DOMAIN n.keys : n.keys[i] = FirstKey(n.kids[i + 1])
                    /\ \A i \in DOMAIN n.kids : Depth(n.kids[i]) = Depth(b) - 1

(* Every leaf's next_leaf names the leaf that follows it in the tree, also *)
(* where a rebuild kept leaves of the old tree.                            *)
LeafChainInOrder ==
  ino.indexed =>
    LET l == WalkInode(disk, ino).leaves
    IN \A i \in DOMAIN l : disk[l[i].block].next = IF i < Len(l) THEN l[i + 1].block ELSE 0

(* The shield is the metadata reserve of the file's preallocated blocks,   *)
(* after any sequence of calls that preallocate, convert, free or fail.    *)
ShieldIsReserve ==
  ~readOnly => shield = metaReserveSize(countUnwrittenBlocks(WalkInode(disk, ino).exts))

(* Every block of the published file has a JRN_EXTENT_ALLOC record: replay *)
(* would otherwise hand it out again.                                      *)
AllocationsJournalled ==
  LET t == WalkInode(disk, ino) IN BlocksOf(t.exts) \cup allNodes(t) \subseteq logged
=============================================================================
