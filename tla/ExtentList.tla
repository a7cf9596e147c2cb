----------------------------- MODULE ExtentList -----------------------------
(***************************************************************************)
(* The operations on a file's extent list (fuse/file_ops.go,               *)
(* fuse/extent_ops.go), as operators on sequences.                         *)
(*                                                                         *)
(* An extent maps the file blocks off .. off+len-1 to the pool blocks      *)
(* phys .. phys+len-1; unw marks a preallocated extent, which reads as     *)
(* zero until it is written.  A list is sorted by off; a file block no     *)
(* extent covers is a hole.  Runs of freed blocks are sets of blocks.      *)
(***************************************************************************)
EXTENDS Integers, Sequences, SequencesExt, FiniteSets, FiniteSetsExt

Extent(off, phys, len, unw) == [off |-> off, phys |-> phys, len |-> len, unw |-> unw]

End(e)       == e.off + e.len
Covers(e, b) == e.off <= b /\ b < End(e)
BlockOf(e, b) == e.phys + (b - e.off)
Blocks(e)    == e.phys..(e.phys + e.len - 1)
BlocksOf(exts) == UNION {Blocks(exts[i]) : i \in DOMAIN exts}

(* The part of e that covers file blocks s .. t-1, as a list.              *)
Part(e, s, t) ==
  LET a == Max({e.off, s})
      z == Min({End(e), t})
  IN IF a < z THEN <<Extent(a, BlockOf(e, a), z - a, e.unw)>> ELSE <<>>

MapExtents(F(_), exts) == FlattenSeq([i \in DOMAIN exts |-> F(exts[i])])

-----------------------------------------------------------------------------
(* The binary search of lookupExtent: the last extent that starts at or    *)
(* before b, if it reaches b.  The result has at most one element.         *)
lookupExtent(exts, b) ==
  LET before == {i \in DOMAIN exts : exts[i].off <= b}
  IN IF before = {} THEN {} ELSE {e \in {exts[Max(before)]} : Covers(e, b)}

Joins(e, f) == End(e) = f.off /\ e.phys + e.len = f.phys /\ e.unw = f.unw

insertExtentSorted(exts, e) ==
  LET i     == Cardinality({k \in DOMAIN exts : exts[k].off < e.off})
      left  == i > 0 /\ Joins(exts[i], e)
      grown == IF left THEN [exts[i] EXCEPT !.len = @ + e.len] ELSE e
      right == i < Len(exts) /\ Joins(grown, exts[i + 1])
      merged == IF right THEN [grown EXCEPT !.len = @ + exts[i + 1].len] ELSE grown
  IN SubSeq(exts, 1, IF left THEN i - 1 ELSE i) \o <<merged>>
       \o SubSeq(exts, IF right THEN i + 2 ELSE i + 1, Len(exts))

InsertAll(exts, new) == FoldLeft(insertExtentSorted, exts, new)

(* Faulty: the whole preallocated extent is marked written.                *)
splitUnwrittenAtWhole(exts, e, b) ==
  [i \in DOMAIN exts |-> IF exts[i] = e THEN [e EXCEPT !.unw = FALSE] ELSE exts[i]]

splitUnwrittenAt(exts, e, b) ==
  InsertAll(SelectSeq(exts, LAMBDA x : x # e),
            Part(e, 0, b) \o Part([e EXCEPT !.unw = FALSE], b, b + 1) \o Part(e, b + 1, End(e)))

freeExtentRange(exts, s, t) ==
  [exts  |-> MapExtents(LAMBDA e : Part(e, 0, s) \o Part(e, t, End(e)), exts),
   freed |-> BlocksOf(MapExtents(LAMBDA e : Part(e, s, t), exts))]

Moved(exts, d) == [i \in DOMAIN exts |-> [exts[i] EXCEPT !.off = @ + d]]

(* shiftExtents with dir < 0: blocks s .. s+n-1 are removed.               *)
collapseExtents(exts, s, n) ==
  [exts  |-> InsertAll(<<>>, MapExtents(LAMBDA e :
                 Part(e, 0, s) \o Moved(Part(e, s + n, End(e)), -n), exts)),
   freed |-> BlocksOf(MapExtents(LAMBDA e : Part(e, s, s + n), exts))]

(* shiftExtents with dir > 0: a hole of n blocks opens at s.               *)
insertHole(exts, s, n) ==
  InsertAll(<<>>, MapExtents(LAMBDA e :
      Part(e, 0, s) \o Moved(Part(e, s, End(e)), n), exts))

(* The extents of a zeroed range s .. t-1: flipped to unwritten in place,  *)
(* outside it kept (the loop of zeroRangeOp, its holes apart).             *)
UnwriteRange(exts, s, t) ==
  InsertAll(<<>>, MapExtents(LAMBDA e : Part(e, 0, s) \o
      [i \in DOMAIN Part(e, s, t) |-> [Part(e, s, t)[i] EXCEPT !.unw = TRUE]]
      \o Part(e, t, End(e)), exts))

(* The maximal hole segments within s .. t-1, in ascending order.          *)
Holes(exts, s, t) ==
  LET hole(b) == s <= b /\ b < t /\ lookupExtent(exts, b) = {}
      segs == {<<a, z>> \in (s..t) \X (s..t) :
                 a < z /\ ~hole(a - 1) /\ ~hole(z) /\ \A b \in a..(z - 1) : hole(b)}
  IN SetToSortSeq(segs, LAMBDA x, y : x[1] < y[1])

countUnwrittenBlocks(exts) ==
  FoldLeft(LAMBDA n, e : IF e.unw THEN n + e.len ELSE n, 0, exts)

(* The positional chunks that become the leaves of the index.              *)
ChunkBtreeExtents(exts, fanout) ==
  [i \in 1..((Len(exts) + fanout - 1) \div fanout) |->
     SubSeq(exts, (i - 1) * fanout + 1, Min({i * fanout, Len(exts)}))]
=============================================================================
