----------------------------- MODULE MCExtents -----------------------------
(* Extents on a small pool.                                                *)
EXTENDS Extents

AllRanges == {r \in (0..MaxSize) \X (0..MaxSize) : r[1] < r[2]}
SomeRanges == {<<0, 1>>, <<0, 2>>, <<1, 3>>, <<2, 4>>, <<3, 5>>, <<4, 6>>}
SomeSizes == {0, 1, 2, 3, 5}
BlockRanges == {r \in AllRanges : r[1] % BS = 0 /\ r[2] % BS = 0}
AllSizes == 0..MaxSize
BlockSizes == {n \in AllSizes : n % BS = 0}
=============================================================================
