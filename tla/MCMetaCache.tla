---------------------------- MODULE MCMetaCache ----------------------------
(* MetaCache for TLC: writers, slots and contents other than Zero are      *)
(* interchangeable.                                                        *)
EXTENDS MetaCache, TLC

Symmetry ==
  Permutations(Values \ {Zero}) \cup Permutations(Writers) \cup Permutations(Slots)
=============================================================================
